SPECIFICATION FairSpec
CONSTANTS
    d1 = d1
    d2 = d2
    m1 = m1
    m2 = m2
    Devices = {d1}
    Relays = {r1}
    Members = {m1, m2}
    Ops <- ThreeOps
    DeviceOf <- SameDevice
    Kinds = {"ban", "unban", "readd", "roles"}
    EventIds = {1, 2, 3}
    InitMembers <- OneMember
    InitBans <- OneBan
    HasGroups = TRUE
    Online <- NoOne
    LateDelivery = TRUE
INVARIANTS
    BannedNotMember
PROPERTIES
    EveryMutationEnds
    BansOnlyLifted
ACTION_CONSTRAINT InOrder
CHECK_DEADLOCK FALSE
