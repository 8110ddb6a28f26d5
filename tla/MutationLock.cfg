SPECIFICATION FairSpec
CONSTANTS
    hubA = hubA
    tab1 = tab1
    tab2 = tab2
    Callers <- FourCallers
    Hubs = {hubA}
    Contexts = {tab1, tab2}
    HubOf <- OneHub
    ContextOf <- LastElsewhere
INVARIANTS
    MutualExclusion
PROPERTIES
    ImplementsFifo
    EveryCallerRuns
CHECK_DEADLOCK FALSE
