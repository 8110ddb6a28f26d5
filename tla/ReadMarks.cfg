SPECIFICATION FairSpec
CONSTANTS
    Key = {k1}
    Domain <- AllDomains
    MaxClock = 2
    MaxPublish = 1
    MaxOpen = 2
    None = None
INVARIANTS
    IInv
    NothingInvented
PROPERTIES
    NeverUnread
    SeenMarkForward
    ChangesAreSent
CHECK_DEADLOCK FALSE
