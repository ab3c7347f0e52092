SPECIFICATION ConvoSpec
CONSTANTS
    Unset = Unset
    Brains = {"s"}
    Able = {"s"}
    KeepResults = 1
    Full = 5
    Aim = 3
    Retained = 1
    ForkMin = 3
    MaxTurns = 2
    MaxSteps = 2
    MaxTricks = 2
INVARIANT RefusedTakenOut
CHECK_DEADLOCK FALSE
