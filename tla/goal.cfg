\* Turns nobody typed: a goal the model adopts or the user steers.
CONSTANTS
    p1 = p1  p2 = p2  p3 = p3  a1 = a1  c1 = c1  c2 = c2  m1 = m1  m2 = m2
    Prompts = {p1}
    Autos = {}
    Children = {}
    Models = {m1}
    Main = Main
    None = None
    Compact = Compact
    UserCap = 2
    ControlCap = 2
    CanFork = FALSE
    CanPanic = FALSE
    CanAdopt = TRUE
    Batch = 1
    Lag = 1
    Ops = {"interrupt", "set", "pause", "resume", "cleargoal"}
    MaxOps = 2
SPECIFICATION FairSpec
INVARIANTS TypeOK
PROPERTIES GoalRuns
CHECK_DEADLOCK FALSE
