SPECIFICATION Spec
CONSTANTS
    d1 = d1
    d2 = d2
    m1 = m1
    m2 = m2
    Devices = {d1}
    Relays = {r1}
    Members = {m1, m2}
    Ops <- TwoOps
    DeviceOf <- SameDevice
    Kinds = {"admit", "ban"}
    EventIds = {1, 2}
    InitMembers <- NoOne
    InitBans <- OneBan
    HasGroups = FALSE
    Online = {d1}
    LateDelivery = FALSE
PROPERTIES
    BansOnlyLifted
CHECK_DEADLOCK FALSE
