SPECIFICATION FairSpec
CONSTANTS
    a1 = a1
    m1 = m1
    None = None
    Author = {a1}
    Reader = {m1}
    MaxVersion = 3
    MaxRestart = 1
    MaxWrites <- Writes
INVARIANTS
    IInv
    NoPhantom
    ShowsWhatItKept
PROPERTIES
    StoreForward
    CacheForward
    Converges
CHECK_DEADLOCK FALSE
