SPECIFICATION FairSpec
CONSTANTS
    MaxCall = 2
    MaxDerive = 1
    MaxEpoch = 1
INVARIANTS
    IInv
    NoCallLeftBehind
PROPERTIES
    PresenceSettles
ACTION_CONSTRAINT
    KeyAtOnce
