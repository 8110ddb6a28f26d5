SPECIFICATION Spec
CONSTANTS
    d1 = d1
    d2 = d2
    m1 = m1
    m2 = m2
    Devices = {d1, d2}
    Relays = {r1, r2}
    Members = {m1, m2}
    Ops <- TwoOps
    DeviceOf <- OneEach
    Kinds = {"admit", "remove", "fix"}
    EventIds = {1, 2}
    InitMembers <- OneMember
    InitBans <- NoOne
    HasGroups = FALSE
    Online = {d2}
    LateDelivery = TRUE
INVARIANTS
    EventConsistent
    StorePublished
    KickRevokes
SYMMETRY RelaySymmetry
CHECK_DEADLOCK FALSE
