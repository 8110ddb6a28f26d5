SPECIFICATION InTimeSpec
CONSTANTS
    d1 = d1
    d2 = d2
    m1 = m1
    m2 = m2
    Devices = {d1}
    Relays = {r1, r2}
    Members = {m1}
    Ops <- ThreeOps
    DeviceOf <- SameDevice
    Kinds = {"admit", "remove"}
    EventIds = {1, 2, 3}
    InitMembers <- OneMember
    InitBans <- NoOne
    HasGroups = FALSE
    Online = {d1}
    LateDelivery = TRUE
INVARIANTS
    InTimeIInv
    HistoryComplete
    NoLostUpdate
    NewestBlobsPresent
SYMMETRY RelaySymmetry
ACTION_CONSTRAINT InOrder
CHECK_DEADLOCK FALSE
