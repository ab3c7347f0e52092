SPECIFICATION SavedSpec
CONSTANTS
    None = None
    NoGoal = NoGoal
    Models = {"m1", "m2"}
    Bhais = {b1, b2}
    Goals = {"g1"}
    MaxSaid = 3
    MaxTroubles = 2
    Kids = {"k"}
    ChildSteps = 2
    ChildBudgets <- ChildBudgetsDef
    Unset = Unset
    Brains = {"s", "p"}
    Able = {"s"}
    KeepResults = 1
    Full = 5
    Aim = 3
    Retained = 1
    ForkMin = 3
    MaxTurns = 3
    MaxSteps = 2
    MaxTricks = 4
INVARIANTS
    ChildrenKept ConversationKept CacheKept
PROPERTIES
    SessionSaved
SYMMETRY Swapped
CHECK_DEADLOCK FALSE
