SPECIFICATION FairSpec
CONSTANTS
    t1 = t1
    f1 = f1
    None = None
    Message = {t1}
    File = {f1}
    Parent <- OneFile
    Stamp <- Stamped
    Retries = 1
    MaxSub = 2
    MaxFailure <- OftenFails
INVARIANTS
    NothingLost
    FilesFound
PROPERTIES
    EveryMessageShown
CHECK_DEADLOCK FALSE
