\* A user at the keyboard: messages, queue, /compact, /compact-then, /retry, /btw,
\* workflows, /model, /clear, interrupts; nothing that opens a turn on its own.
CONSTANTS
    p1 = p1  p2 = p2  p3 = p3  a1 = a1  c1 = c1  c2 = c2  m1 = m1  m2 = m2
    Prompts = {p1, p2}
    Autos = {}
    Children = {}
    Models = {m1, m2}
    Main = Main
    None = None
    Compact = Compact
    UserCap = 2
    ControlCap = 1
    CanFork = TRUE
    CanPanic = FALSE
    CanAdopt = FALSE
    Batch = 2
    Lag = 0
    Ops = {"interrupt", "drop", "compact", "forked", "retry", "btw", "workflow",
           "model", "clear"}
    MaxOps = 2
SPECIFICATION AnsweringSpec
INVARIANTS WorkingEnds TurnIsTheSessions
PROPERTIES PromptRead InterruptedTurnEnds
CHECK_DEADLOCK FALSE
