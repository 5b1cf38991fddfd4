SPECIFICATION Spec
CONSTANTS
    Depth = 4
    MaxWord = 15
    Codes <- MCCodes
    Entry <- MCEntry
    Caller <- MCCaller
    Handler <- MCHandler
    Counts = {1, 2, 3}
    CacheSize = 16
    Z3Slots = 1
    NoInsn = NoInsn
CHECK_DEADLOCK FALSE
INVARIANTS
    TypeOK
    StopsAtReturn
PROPERTIES
    FollowsSeed
    RunEnds
