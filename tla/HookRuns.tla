------------------------------ MODULE HookRuns ------------------------------
(***************************************************************************)
(* A call and the lifecycle hooks around it: agent.rs execute, with the    *)
(* chains of hooks.rs.  The handlers of the user's file and, in a trusted  *)
(* project, of the project's are loaded when the call begins; those of     *)
(* PreToolUse run in order before the policy is asked, each with a         *)
(* deadline and a process group of its own, and may block the call, give   *)
(* it another input or have the user asked; those of PostToolUse run when  *)
(* the tool is done.  What the policy, the judge and the user say is left  *)
(* open here: ToolCalls models it.  Trust may come, and an interrupt, at   *)
(* any moment.                                                             *)
(***************************************************************************)
EXTENDS Naturals, Sequences, FiniteSets, SequencesExt

CONSTANTS
    HookFiles,      \* what a file may hold: sequences of "exits", "lingers" and "http"
    MaxFires        \* a bound: calls

ASSUME HookAssumption == MaxFires \in Nat

VARIABLES
    files,      \* [user, project]: the handlers each file holds, for either event
    trusted,    \* the project's files may be read
    fire,       \* the call under way
    alive,      \* places of handlers with a process of their group still up
    fires,      \* calls begun
    spoken      \* history of the call: what handlers said, and whose they were

hookVars == <<files, trusted, fire, alive, fires, spoken>>

\* Inputs: 0 is the model's, n that of the handler at place n.  checked and ran are the
\* inputs the policy was asked about and the tool was given; None is neither.
None == 99
NoFire ==
    [at |-> "none", cut |-> FALSE, hooks |-> <<>>, place |-> 1, up |-> FALSE,
     blocked |-> FALSE, ask |-> FALSE, input |-> 0, checked |-> None, said |-> "", by |-> "",
     ran |-> None]
NothingSpoken == [whose |-> {}, blocked |-> FALSE, asked |-> FALSE, input |-> 0, trust |-> FALSE]

HookInit ==
    /\ files \in [{"user", "project"} -> HookFiles] /\ trusted \in BOOLEAN
    /\ fire = NoFire /\ alive = {} /\ fires = 0 /\ spoken = NothingSpoken

-----------------------------------------------------------------------------
\* load: the project's file is read only with trust.
FromFile(where) == [i \in DOMAIN files[where] |-> [of |-> where, kind |-> files[where][i]]]
\* Mutant: whatever the trust.
LoadedAll == FromFile("user") \o FromFile("project")
Loaded == FromFile("user") \o (IF trusted THEN FromFile("project") ELSE <<>>)

\* A turn that is interrupted makes no call; the hooks of this one are loaded once.
Fires ==
    /\ fire.at = "none" /\ fires < MaxFires
    /\ fires' = fires + 1
    /\ fire' = [NoFire EXCEPT !.at = "pre", !.hooks = Loaded]
    /\ spoken' = [NothingSpoken EXCEPT !.trust = trusted]
    /\ UNCHANGED <<files, trusted, alive>>

\* trust() may be answered, and the turn interrupted, at any moment.
Trusts == ~trusted /\ trusted' = TRUE /\ UNCHANGED <<files, fire, alive, fires, spoken>>
Cuts ==
    /\ fire.at # "none" /\ ~fire.cut
    /\ fire' = [fire EXCEPT !.cut = TRUE]
    /\ UNCHANGED <<files, trusted, alive, fires, spoken>>

-----------------------------------------------------------------------------
\* fire: the handlers of an event, one after the other.
InChain == fire.at \in {"pre", "post"}
Awaits == InChain /\ fire.place <= Len(fire.hooks)
Handler == fire.hooks[fire.place]
Blocks == fire.at = "pre"

StartsHandler ==
    /\ Awaits /\ ~fire.up
    /\ fire' = [fire EXCEPT !.up = TRUE]
    /\ alive' = IF Handler.kind = "http" THEN alive ELSE alive \cup {fire.place}
    /\ spoken' = [spoken EXCEPT !.whose = @ \cup {Handler.of}]
    /\ UNCHANGED <<files, trusted, fires>>

\* What a handler may say at once, by its exit and by what it wrote.  To exit with 2 is
\* to block; any other failure, and what is not JSON, says nothing.
Sayings == {said \in SUBSET {"block", "ask", "allow", "update"} : ~({"ask", "allow"} \subseteq said)}

Passed(f) == [f EXCEPT !.place = @ + 1, !.up = FALSE]
\* Mutant: an allow takes back what was said before it.
AppliedAllow(f, said) ==
    [Passed(f) EXCEPT !.blocked = (@ /\ "allow" \notin said) \/ "block" \in said,
                      !.ask = (@ /\ "allow" \notin said) \/ "ask" \in said,
                      !.input = IF "update" \in said THEN f.place ELSE @]
\* apply: nothing said takes back a block or a question; the last input given counts.
AppliedSaying(f, said) ==
    [Passed(f) EXCEPT !.blocked = @ \/ "block" \in said,
                      !.ask = @ \/ "ask" \in said,
                      !.input = IF "update" \in said THEN f.place ELSE @]

\* The handler's future ends and drops its group, with whatever the handler left behind.
HandlerEnds ==
    /\ Awaits /\ fire.up /\ Handler.kind # "lingers"
    /\ \E said \in Sayings :
         /\ fire' = IF Blocks THEN AppliedSaying(fire, said) ELSE Passed(fire)
         /\ spoken' = IF ~Blocks THEN spoken
                      ELSE [spoken EXCEPT !.blocked = @ \/ "block" \in said,
                                          !.asked = @ \/ "ask" \in said,
                                          !.input = IF "update" \in said THEN fire.place ELSE @]
    /\ alive' = alive \ {fire.place}
    /\ UNCHANGED <<files, trusted, fires>>

\* The deadline: a handler that never ends, or whose output a descendant holds open.
TimesOut ==
    /\ Awaits /\ fire.up
    /\ fire' = Passed(fire)
    /\ alive' = alive \ {fire.place}
    /\ UNCHANGED <<files, trusted, fires, spoken>>

\* Mutant: the process group has no owner that kills it when it goes.
DropsNone(up) == up
\* The groups a chain leaves up when it is dropped: ProcessGroup's drop kills them.
DropsGroup(up) == {}

CallOver == fire' = NoFire
\* unless_cancelled: an interrupt that is seen drops the chain, the verdict with it.
FireDropped ==
    /\ fire.cut /\ (InChain \/ fire.at = "judged")
    /\ CallOver /\ alive' = DropsGroup(alive)
    /\ UNCHANGED <<files, trusted, fires, spoken>>

-----------------------------------------------------------------------------
\* Mutant: the rules are asked about the input the model gave.
ChecksGiven(f) == 0
\* The input the rules are asked about is the one the hooks left.
Checks(f) == f.input

\* Mutant: a question of a hook leaves what the rules allow.
Relaxed(f, said) == said
Tightened(f, said) == IF said = "allow" /\ f.ask THEN "ask" ELSE said

CallGoes(f, who) == [f EXCEPT !.at = "running", !.by = who, !.ran = f.input]

\* The chain is over: blocked, or an input the tool has no description of, or the rules,
\* tightened.  An appeal that waits may make a question of what they allow, too.
Decides ==
    /\ fire.at = "pre" /\ fire.place > Len(fire.hooks)
    /\ \/ (fire.blocked \/ fire.input # 0) /\ CallOver
       \/ /\ ~fire.blocked
          /\ \E said \in {"allow", "ask", "deny"} :
               LET f == [fire EXCEPT !.checked = Checks(fire), !.said = said]
               IN  CASE Tightened(fire, said) = "deny" -> CallOver
                     [] Tightened(fire, said) = "allow" -> fire' = CallGoes(f, "rules")
                     [] Tightened(fire, said) = "ask" -> fire' = [f EXCEPT !.at = "judged"]
    /\ UNCHANGED <<files, trusted, alive, fires, spoken>>

\* Mutant: the judge is there whatever a hook asked for.
JudgeAnyway(f) == TRUE
HasJudge(f) == ~f.ask

\* The judge's verdict, which an interrupt that came with it outweighs, or none: then
\* auto mode denies the call and any other asks.
Judged ==
    /\ fire.at = "judged"
    /\ \/ CallOver
       \/ HasJudge(fire) /\ ~fire.cut /\ fire' = CallGoes(fire, "judge")
       \/ fire' = [fire EXCEPT !.at = "asked"]
    /\ UNCHANGED <<files, trusted, alive, fires, spoken>>

HookAnswered ==
    /\ fire.at = "asked"
    /\ \/ CallOver
       \/ ~fire.cut /\ fire' = CallGoes(fire, "you")
    /\ UNCHANGED <<files, trusted, alive, fires, spoken>>

\* The tool is done, well or not: the same handlers hear of it.
ToolDone ==
    /\ fire.at = "running"
    /\ fire' = [fire EXCEPT !.at = "post", !.place = 1]
    /\ UNCHANGED <<files, trusted, alive, fires, spoken>>

FireEnds ==
    /\ fire.at = "post" /\ fire.place > Len(fire.hooks)
    /\ CallOver
    /\ UNCHANGED <<files, trusted, alive, fires, spoken>>

HookNext ==
    \/ Fires \/ Trusts \/ Cuts
    \/ StartsHandler \/ HandlerEnds \/ TimesOut \/ FireDropped
    \/ Decides \/ Judged \/ HookAnswered \/ ToolDone \/ FireEnds

\* A handler is started, and ends or meets its deadline; the call goes on from a chain.
HookFairness ==
    /\ WF_hookVars(StartsHandler) /\ WF_hookVars(HandlerEnds \/ TimesOut)
    /\ WF_hookVars(Decides) /\ WF_hookVars(FireEnds)
HookSpec == HookInit /\ [][HookNext]_hookVars /\ HookFairness

(***************************************************************************)
(* Properties.                                                             *)
(***************************************************************************)
\* Hooks tighten the policy and never relax it (agent.rs: "Hooks may tighten the policy,
\* never relax it"): a call that runs is one no handler blocked, with the input the last
\* handler that gave one gave, the very input the rules were asked about and did not
\* deny; what any handler wanted the user asked about, the user let through.
HooksTighten ==
    fire.ran # None =>
      /\ ~spoken.blocked
      /\ fire.ran = spoken.input /\ fire.checked = fire.ran /\ fire.said # "deny"
      /\ fire.by = "rules" => fire.said = "allow"
      /\ spoken.asked => fire.by = "you"

\* "Project files are only read when the caller grants project trust": no handler of the
\* project runs, before the tool or after it, in a call that began without trust, also
\* when trust comes while it is under way.
TrustedSpeak == "project" \in spoken.whose => spoken.trust

\* Where no handler is waited for nothing that one started is up: not between two, not
\* after a deadline, not when an interrupt dropped the chain.
NothingLeft == ~(Awaits /\ fire.up) => alive = {}

\* The hooks before a tool come to an end and so do those after it, however long a handler
\* lingers.
ChainsEnd == \A chain \in {"pre", "post"} : fire.at = chain ~> fire.at # chain

HooksHold == [](HooksTighten /\ TrustedSpeak /\ NothingLeft) /\ ChainsEnd
=============================================================================
