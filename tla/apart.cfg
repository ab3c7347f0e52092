CONSTANTS
    Kept = 2
    MaxAsks = 1
    MaxRuns = 2
    MaxFaults = 1
    MaxGiven = 3
    None = None
    Horizon = 12
    Day = 4
    Ahead <- AheadDef
    AskedFor <- AskedForDef
    Nap = 2
    MaxModel = 1
    Doers = {"d1"}
    MaxNow = 6
    MaxRows = 1
    MaxOps = 3
    MaxStarts = 2
    MaxFails = 1
SPECIFICATION ApartSpec
INVARIANTS ShowsTheSession
PROPERTIES FaultsRiddenOut SlotsKept DueFires
CHECK_DEADLOCK FALSE
