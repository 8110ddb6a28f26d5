SPECIFICATION FairSpec
CONSTANTS
    N = 5
    Target = 2
INVARIANTS
    Accounted
    ShortOnlyIfExhausted
PROPERTIES
    ImplementsPublish
    Returns
CHECK_DEADLOCK FALSE
