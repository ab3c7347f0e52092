CONSTANTS
    p1 = p1  p2 = p2  p3 = p3  a1 = a1  c1 = c1  c2 = c2  m1 = m1  m2 = m2
    Prompts = {p1, a1}
    Autos = {a1}
    Children = {c1}
    Models = {m1}
    Main = Main
    None = None
    Compact = Compact
    UserCap = 1
    ControlCap = 1
    CanFork = FALSE
    CanPanic = TRUE
    CanAdopt = FALSE
    Batch = 1
    Lag = 0
    Ops = {"interrupt", "drop", "compact"}
    MaxOps = 1
SPECIFICATION FairSpec
PROPERTIES EveryPromptDelivered ReportReachesModel
CHECK_DEADLOCK FALSE
