SPECIFICATION GateSpec
CONSTANTS
    None = None
    NoCall = NoCall
    Doers = {"ui", "child"}
    Configured = "auto"
    Deny <- MCDeny
    Asks <- MCAsks
    Own <- MCOwn
    Texts <- MCTexts
    Shipped <- MCShipped
    Chains <- MCChains
    MaxOps = 2
    MaxShipped = 1
    Calls <- GateCalls
    Judges = {"mains", "childs"}
    MaxJudged = 1
    Appeals = 1
    MaxWords = 1
    MaxAims = 0
    Callers = {"child"}
    JudgeOf <- MCJudgeOf
    Is <- MCIs
    HasJudge = TRUE
    Hooks = {"none", "ask", "block"}
    MaxCalls = 1
    MaxStarts = 2
INVARIANTS
    DenyStands AskStands RulesVouched
PROPERTIES
    DecidedNow ChainSound AppealsHold
CHECK_DEADLOCK FALSE
