CONSTANTS
    Files <- FilesDef
    MaxItems = 3
    MaxCost = 2
    MaxRuns = 2
    Never = Never
    Observers = {"logs"}
    HooksOf <- HooksOfDef
    Interval = 1
    WakeGap = 2
    RowsMax = 2
    MaxControls = 2
    HookFiles <- HookFilesDef
    MaxFires = 1
    MaxAttempts = 2
    MaxCalls = 2
    Askers = {"r1", "r2"}
    SavedIds = {"s"}
    FreshIds <- FreshDef
    MaxStarts = 2
    MaxOutages = 2
SPECIFICATION ServicesSpec
PROPERTIES KeepsPromise LaunchesSound RunEnds ObserversTell HooksHold CallsKept SessionsReached
CHECK_DEADLOCK FALSE
