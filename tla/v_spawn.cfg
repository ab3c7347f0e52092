CONSTANTS
    p1 = p1  p2 = p2  p3 = p3  a1 = a1  c1 = c1  c2 = c2  m1 = m1  m2 = m2
    Prompts = {p1}
    Autos = {}
    Children = {c1, c2}
    Models = {m1}
    Main = Main
    None = None
    Compact = Compact
    UserCap = 2
    ControlCap = 2
    CanFork = FALSE
    CanPanic = FALSE
    CanAdopt = FALSE
    Batch = 2
    Lag = 0
    Ops = {"interrupt", "stopchild"}
    MaxOps = 1
SPECIFICATION Spec
INVARIANTS StopLatchesEveryChild
SYMMETRY Kids
CHECK_DEADLOCK FALSE
