SPECIFICATION KeySpec
CONSTANTS
    MaxCall = 1
    MaxDerive = 2
    MaxEpoch = 3
PROPERTIES
    StaysInStep
    KeyFollows
