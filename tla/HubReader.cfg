SPECIFICATION FairSpec
CONSTANTS
    h1 = h1
    h2 = h2
    MaxVersions = 3
    MaxRestarts = 1
    Handlers = {h1}
INVARIANTS
    IInv
PROPERTIES
    FailsClosed
    NoRollback
    Converges
