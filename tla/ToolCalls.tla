------------------------------ MODULE ToolCalls ------------------------------
(***************************************************************************)
(* agent.rs execute: what becomes of a call between the model that makes   *)
(* it and the tool that runs it, with hooks, the policy, the judge and the *)
(* user in between.  A step ends where the code awaits: a hook, the        *)
(* judge's notes, its verdict, the user's answer, the tool.                *)
(***************************************************************************)
EXTENDS PolicyState, JudgeState

CONSTANTS
    Callers,      \* calls that may be under way at once
    NoCall,
    JudgeOf,      \* the judge that rules for a caller's calls
    Is,           \* a call, as the rules see it
    HasJudge,     \* whether the judge is on
    Hooks,        \* what a PreToolUse hook may say: "none", "ask", "block"
    MaxCalls,     \* bound: calls made
    MaxStarts     \* bound: starts of the session

\* Commands are what bash is given, what is typed into a shell, what a monitor is to run.
ASSUME CallsAssumption ==
    \A k \in Calls :
        Is[k].commands = <<>> \/ Is[k].tool \in {"bash", "write_stdin"}
            \/ (Is[k].tool = "monitor" /\ Is[k].needs)
\* Every call has a judge, and an agent may remember a rule.
ASSUME CallersAssumption == JudgeOf \in [Callers -> Judges] /\ Callers \subseteq Doers

VARIABLES
    pc,           \* where a caller's call is
    call,         \* which one it is
    asked,        \* what its judge was asked
    cut,          \* the turn's interrupt flag
    made, starts,
    by,           \* history: who let the call run
    rulings       \* history: what the judges of this start answered

callVars == <<pc, call, asked, cut, made, starts, by, rulings>>
vars == <<policyVars, judgeVars, callVars>>

Nothing == [key |-> <<>>, words |-> 0, aim |-> 0, keep |-> FALSE, again |-> FALSE]

TypeOK ==
    /\ PolicyTypeOK /\ JudgeTypeOK
    /\ pc \in [Callers -> {"idle", "hook", "noting", "verdict", "asking", "saving", "running"}]
    /\ call \in [Callers -> Calls \cup {NoCall}]
    /\ \A c \in Callers : asked[c].words \in 0 .. words
    /\ cut \in BOOLEAN /\ made \in 0 .. MaxCalls /\ starts \in 1 .. MaxStarts
    /\ by \in [Callers -> {"nobody", "rules", "judge", "you"}]
    /\ \A r \in rulings : r.verdict \in {"approve", "deny"} /\ r.words \in 0 .. words

Init ==
    /\ PolicyInit /\ JudgeInit
    /\ pc = [c \in Callers |-> "idle"]
    /\ call = [c \in Callers |-> NoCall]
    /\ asked = [c \in Callers |-> Nothing]
    /\ cut = FALSE /\ made = 0 /\ starts = 1
    /\ by = [c \in Callers |-> "nobody"]
    /\ rulings = {}

Goto(c, where) == pc' = [pc EXCEPT ![c] = where]
Over(c) == /\ pc' = [pc EXCEPT ![c] = "idle"]
           /\ asked' = [asked EXCEPT ![c] = Nothing]
           /\ call' = [call EXCEPT ![c] = NoCall]
           /\ by' = [by EXCEPT ![c] = "nobody"]
Starts(c, who) ==
    /\ pc' = [pc EXCEPT ![c] = "running"]
    /\ by' = [by EXCEPT ![c] = who]
    /\ asked' = [asked EXCEPT ![c] = Nothing]
    /\ UNCHANGED call
\* Mutant: the verdict, the answer is all that is looked at.
RunsAnyway(c, who) == Starts(c, who)
\* An interrupt that came with the verdict or the answer still stops the call.
RunsUnlessCut(c, who) == IF cut THEN Over(c) ELSE Starts(c, who)
\* No verdict: auto never prompts.
Undecided(c) ==
    IF mode = "auto" THEN Over(c)
    ELSE Goto(c, "asking") /\ UNCHANGED <<call, asked, by>>

Settled == <<cut, made, starts, rulings>>
J(c) == JudgeOf[c]
K(c) == Is[call[c]]

-----------------------------------------------------------------------------
Quiet(j) == \A c \in Callers : JudgeOf[c] = j => pc[c] = "idle"

\* An agent's calls run in order, but those to tools that may overlap run together.
Make(c, k) ==
    /\ pc[c] = "idle" /\ ~cut /\ made < MaxCalls
    /\ \A o \in Callers : JudgeOf[o] = J(c) /\ pc[o] # "idle" => K(o).parallel /\ Is[k].parallel
    /\ made' = made + 1
    /\ Goto(c, "hook")
    /\ call' = [call EXCEPT ![c] = k]
    /\ UNCHANGED <<policyVars, judgeVars, asked, by, cut, starts, rulings>>

\* Mutant: an appeal that is queued leaves the rules as they are.
DecisionAlone(c, hook) ==
    LET said == Check(Policy, K(c))
    IN  IF said = "allow" /\ hook = "ask" THEN "ask" ELSE said
\* What the rules say, tightened by a hook and by an appeal that is queued.
Decision(c, hook) ==
    LET said == Check(Policy, K(c))
    IN  IF said = "allow" /\ (hook = "ask" \/ (mode = "auto" /\ HasJudge /\ Queued(J(c), call[c])))
        THEN "ask" ELSE said

\* The hook is back, and the policy decides at once.  The interrupt is polled: one that
\* is a moment old may not be seen, here and where a verdict is waited for.
Decide(c, hook) ==
    /\ pc[c] = "hook"
    /\ LET said == Decision(c, hook)
           judged == HasJudge /\ hook # "ask"
       IN  \/ /\ hook = "block"
              /\ judge' = Blocked(J(c), call[c]) /\ Over(c)
           \/ /\ hook # "block" /\ said = "allow"
              /\ judge' = judge /\ Starts(c, "rules")
           \/ /\ hook # "block" /\ said = "deny"
              /\ judge' = (IF judged THEN Blocked(J(c), call[c]) ELSE judge)
              /\ Over(c)
           \/ /\ hook # "block" /\ said = "ask"
              /\ judged /\ Judgeable(Policy, K(c))
              /\ judge' = judge
              /\ IF Queued(J(c), call[c]) /\ ~Proposed(J(c), call[c]) THEN Undecided(c)
                 ELSE Goto(c, "noting") /\ UNCHANGED <<call, asked, by>>
           \/ /\ hook # "block" /\ said = "ask"
              /\ ~(judged /\ Judgeable(Policy, K(c)))
              /\ judge' = (IF judged THEN Blocked(J(c), call[c]) ELSE judge)
              /\ Undecided(c)
    /\ UNCHANGED <<policyVars, words, noted, failed, granted, aim, Settled>>

\* The notes are up to date, or could not be made; then the call is put to the judge.
Notes(c) ==
    \/ /\ noted = words \/ failed = words
       /\ UNCHANGED <<noted, failed, granted>>
    \/ /\ noted < words /\ failed < words
       /\ \E g \in BOOLEAN : NotedAll(g) \/ NotedSome(g)

Spent(j) == judge[j].spent >= MaxJudged

Ask(c) ==
    /\ pc[c] = "noting"
    /\ Notes(c)
    /\ LET j == J(c)
           k == call[c]
           keep == noted' = words /\ ~granted'
       IN  IF keep /\ ~Proposed(j, k) /\ Key(k) \in DOMAIN judge[j].cache
           THEN /\ judge' = Recalled(j, k)
                /\ IF judge[j].cache[Key(k)] = "approve" THEN RunsUnlessCut(c, "judge") ELSE Over(c)
           ELSE IF (Queued(j, k) /\ ~Proposed(j, k)) \/ Spent(j)
           THEN judge' = judge /\ Undecided(c)
           ELSE /\ judge' = Asked(j, k)
                /\ Goto(c, "verdict")
                /\ asked' = [asked EXCEPT ![c] =
                      [key |-> Key(k), words |-> words, aim |-> aim, keep |-> keep,
                       again |-> Proposed(j, k)]]
                /\ UNCHANGED <<call, by>>
    /\ UNCHANGED <<policyVars, words, aim, Settled>>

\* Mutant: what was said while the judge decided is not looked at.
StaleNever(c) == FALSE
Stale(c) == asked[c].words # words

\* It answers, or no try of it is an answer.
Ruling(c, v) == [judge |-> J(c), call |-> call[c], words |-> asked[c].words, aim |-> asked[c].aim,
                 kept |-> asked[c].keep, verdict |-> v]
Verdict(c) ==
    /\ pc[c] = "verdict"
    /\ \/ judge' = judge /\ rulings' = rulings /\ Undecided(c)
       \/ \E v \in {"approve", "deny"} :
             /\ ~Stale(c)
             /\ judge' = Ruled(J(c), call[c], asked[c].key, asked[c].keep, v)
             /\ rulings' = rulings \cup {Ruling(c, v)}
             /\ IF v = "approve" THEN RunsUnlessCut(c, "judge") ELSE Over(c)
    /\ UNCHANGED <<policyVars, words, noted, failed, granted, aim, cut, made, starts>>

\* Whatever is awaited ends with the interrupt.
Cut(c) ==
    /\ cut /\ pc[c] \in {"hook", "noting", "verdict"}
    /\ Over(c)
    /\ UNCHANGED <<policyVars, judgeVars, Settled>>

-----------------------------------------------------------------------------
\* The rules that would let this very call run in auto.
Offered(c) ==
    {t \in Texts \ Shipped :
        Check([Policy EXCEPT !.mode = "auto", !.allow = allow \cup {Rule(t, FALSE)}],
              [K(c) EXCEPT !.needs = TRUE]) = "allow"}

Reject(c) ==
    /\ pc[c] = "asking"
    /\ Over(c)
    /\ UNCHANGED <<policyVars, judgeVars, Settled>>

Accept(c) ==
    /\ pc[c] = "asking"
    /\ RunsUnlessCut(c, "you")
    /\ UNCHANGED <<policyVars, judgeVars, Settled>>

AcceptAlways(c, text) ==
    /\ pc[c] = "asking" /\ op[c].at = "idle"
    /\ text \in Offered(c)
    /\ Remembers(c, text)
    /\ Goto(c, "saving")
    /\ UNCHANGED <<mode, wanted, trusted, Files, ops, judgeVars, call, asked, by, Settled>>

Saved(c) ==
    /\ pc[c] = "saving" /\ op[c].at = "idle"
    /\ RunsUnlessCut(c, "you")
    /\ UNCHANGED <<policyVars, judgeVars, Settled>>

Ends(c) ==
    /\ pc[c] = "running"
    /\ Over(c)
    /\ UNCHANGED <<policyVars, judgeVars, Settled>>

\* judge_appeal, a call of the agent's own that needs no approval.
AppealCall(c, k, proposal) ==
    /\ Quiet(J(c)) /\ ~cut /\ HasJudge /\ made < MaxCalls
    /\ k \in DOMAIN judge[J(c)].appeals
    /\ \/ proposal = judge[J(c)].appeals[k].last
       \/ Is[k].tool = "bash" /\ Is[proposal].tool = "bash"
    /\ Appealed(J(c), k, proposal)
    /\ made' = made + 1
    /\ UNCHANGED <<policyVars, words, noted, failed, granted, aim, pc, call, asked, by, cut, starts, rulings>>

-----------------------------------------------------------------------------
Interrupt ==
    /\ ~cut /\ \E c \in Callers : pc[c] # "idle"
    /\ cut' = TRUE
    /\ UNCHANGED <<policyVars, judgeVars, pc, call, asked, made, starts, by, rulings>>

\* Between two calls of an agent its turn may end, or take in what the user wrote.
Hears(j) ==
    /\ Quiet(j)
    /\ Says(j)
    /\ cut' = (cut /\ \E c \in Callers : pc[c] # "idle")
    /\ UNCHANGED <<policyVars, pc, call, asked, made, starts, by, rulings>>

Wakes(j) ==
    /\ Quiet(j)
    /\ Refill(j)
    /\ UNCHANGED <<policyVars, callVars>>

Goal == Aims /\ UNCHANGED <<policyVars, callVars>>

\* The session starts again: calls and verdicts are gone, the user's words are not.
Restart ==
    /\ starts < MaxStarts
    /\ starts' = starts + 1
    /\ Reload
    /\ judge' = [j \in Judges |-> Fresh]
    /\ failed' = 0
    /\ pc' = [c \in Callers |-> "idle"]
    /\ asked' = [c \in Callers |-> Nothing]
    /\ by' = [c \in Callers |-> "nobody"]
    /\ rulings' = {}
    /\ cut' = FALSE
    /\ call' = [c \in Callers |-> NoCall]
    /\ UNCHANGED <<words, noted, granted, aim, made>>

Next ==
    \/ \E c \in Callers :
          \/ \E k \in Calls : Make(c, k) \/ \E p \in Calls : AppealCall(c, k, p)
          \/ \E h \in Hooks : Decide(c, h)
          \/ Ask(c) \/ Verdict(c) \/ Cut(c)
          \/ Reject(c) \/ Accept(c) \/ Saved(c) \/ Ends(c)
          \/ \E t \in Texts : AcceptAlways(c, t)
    \/ \E d \in Doers : PolicyStep(d) /\ UNCHANGED <<judgeVars, callVars>>
    \/ \E d \in Doers \ Callers : Change(d) /\ UNCHANGED <<judgeVars, callVars>>
    \/ Ship /\ UNCHANGED <<judgeVars, callVars>>
    \/ \E j \in Judges : Hears(j) \/ Wakes(j)
    \/ Interrupt \/ Goal \/ Restart

Spec == Init /\ [][Next]_vars
=============================================================================
