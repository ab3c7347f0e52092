----------------------------- MODULE JudgeState -----------------------------
(***************************************************************************)
(* judge.rs: what a judge keeps between the calls put to it.  The main     *)
(* agent and each child have one of their own; the user's words are shared *)
(* by all of them.  An activity is a call with all its arguments.          *)
(***************************************************************************)
EXTENDS Naturals, FiniteSets

CONSTANTS
    Calls,        \* the calls agents make
    Judges,
    MaxJudged,    \* judge_max_per_turn
    Appeals,      \* APPEALS: reconsiderations of one activity
    MaxWords,     \* bound: messages of the user
    MaxAims       \* bound: changes of the goal

VARIABLES
    words,        \* authorization.revision: the messages the user has sent
    noted,        \* how many of them the notes hold
    failed,       \* failed_update: at what revision the notes could not be made
    granted,      \* a grant is active among the notes
    aim,          \* the task and the goal's specification
    judge         \* per judge: spent, cache, appeals, owner

judgeVars == <<words, noted, failed, granted, aim, judge>>

Appeal == [denied : BOOLEAN, rounds : 0 .. Appeals, last : Calls, pending : SUBSET Calls]
Fresh == [spent |-> 0, cache |-> <<>>, appeals |-> <<>>, owner |-> <<>>]

JudgeTypeOK ==
    /\ words \in 0 .. MaxWords /\ noted \in 0 .. words /\ failed \in 0 .. words
    /\ granted \in BOOLEAN /\ aim \in 0 .. MaxAims
    /\ \A j \in Judges :
          /\ judge[j].spent \in 0 .. MaxJudged
          /\ DOMAIN judge[j].cache \subseteq Calls \X (0 .. MaxWords) \X (0 .. MaxAims)
          /\ \A k \in DOMAIN judge[j].cache : judge[j].cache[k] \in {"approve", "deny"}
          /\ DOMAIN judge[j].appeals \subseteq Calls
          /\ \A k \in DOMAIN judge[j].appeals : judge[j].appeals[k] \in Appeal
          /\ DOMAIN judge[j].owner \subseteq Calls

JudgeInit ==
    /\ words = 0 /\ noted = 0 /\ failed = 0 /\ granted = FALSE /\ aim = 0
    /\ judge = [j \in Judges |-> Fresh]

With(f, k, v) == [x \in DOMAIN f \cup {k} |-> IF x = k THEN v ELSE f[x]]

\* Where a replacement's rounds are counted.
OwnerOf(j, k) == IF k \in DOMAIN judge[j].owner THEN judge[j].owner[k] ELSE k
Entry(j, k) == judge[j].appeals[OwnerOf(j, k)]
HasEntry(j, k) == OwnerOf(j, k) \in DOMAIN judge[j].appeals

\* has_pending_appeal: something is queued for the activity; pending: it is this very call.
Queued(j, k) == HasEntry(j, k) /\ Entry(j, k).pending # {}
Proposed(j, k) == HasEntry(j, k) /\ Entry(j, k).pending = {k}

\* reject_pending_appeal: a hard block spends the round, and the call may be revised.
Blocked(j, k) ==
    IF ~Proposed(j, k) THEN judge
    ELSE [judge EXCEPT ![j].appeals =
            With(@, OwnerOf(j, k), [Entry(j, k) EXCEPT !.pending = {}, !.denied = TRUE, !.last = k])]

Key(k) == <<k, words, aim>>

-----------------------------------------------------------------------------
(* What is put to it. *)

\* appeal_command: the denied call again, or another command in its place.
Appealed(j, k, proposal) ==
    /\ k \in DOMAIN judge[j].appeals
    /\ LET a == judge[j].appeals[k]
       IN  /\ a.denied /\ a.pending = {} /\ a.rounds < Appeals
           /\ LET to == OwnerOf(j, proposal)
              IN  to # k => to \notin DOMAIN judge[j].appeals
                            /\ proposal \notin DOMAIN judge[j].owner
           /\ judge' = [judge EXCEPT
                 ![j].owner = With(@, proposal, k),
                 ![j].appeals = With(@, k, [a EXCEPT !.rounds = a.rounds + 1,
                                                      !.pending = {proposal}])]

\* A verdict answered from the cache: a denial is the appeal's reason again.
Recalled(j, k) ==
    IF judge[j].cache[Key(k)] = "deny" /\ HasEntry(j, k)
    THEN [judge EXCEPT ![j].appeals =
            With(@, OwnerOf(j, k), [Entry(j, k) EXCEPT !.denied = TRUE, !.last = k])]
    ELSE judge

\* The request is made: it counts, and takes the queued justification with it.
Asked(j, k) ==
    [judge EXCEPT ![j].spent = @ + 1,
        ![j].appeals = IF Proposed(j, k)
                       THEN With(@, OwnerOf(j, k), [Entry(j, k) EXCEPT !.pending = {}])
                       ELSE @]

\* Mutant: a replacement that is denied starts a count of its own.
RuledApart(j, k, key, keep, verdict) ==
    LET cached == IF keep THEN With(judge[j].cache, key, verdict) ELSE judge[j].cache
        entry == IF k \in DOMAIN judge[j].appeals THEN judge[j].appeals[k]
                 ELSE [denied |-> FALSE, rounds |-> 0, last |-> k, pending |-> {}]
    IN  [judge EXCEPT ![j].cache = cached,
                      ![j].appeals = IF verdict = "deny"
                                     THEN With(@, k, [entry EXCEPT !.denied = TRUE, !.last = k])
                                     ELSE @]
\* Mutant: only an approval is kept.
RuledUnkept(j, k, key, keep, verdict) ==
    RuledApart(j, k, key, keep /\ verdict = "approve", verdict)
\* The verdict is kept, and an activity denied may be appealed.
Ruled(j, k, key, keep, verdict) ==
    LET to == OwnerOf(j, k)
        entry == IF to \in DOMAIN judge[j].appeals THEN judge[j].appeals[to]
                 ELSE [denied |-> FALSE, rounds |-> 0, last |-> k, pending |-> {}]
    IN  [judge EXCEPT
            ![j].cache = IF keep THEN With(@, key, verdict) ELSE @,
            ![j].appeals =
                IF verdict = "deny" THEN With(@, to, [entry EXCEPT !.denied = TRUE, !.last = k])
                ELSE IF to \in DOMAIN @ THEN With(@, to, [entry EXCEPT !.denied = FALSE, !.pending = {}])
                ELSE @]

-----------------------------------------------------------------------------
(* What changes under it. *)

\* start_user_turn: a message reaches the agent of j.
Says(j) ==
    /\ words < MaxWords
    /\ words' = words + 1
    /\ judge' = [judge EXCEPT ![j].cache = <<>>, ![j].spent = 0]
    /\ UNCHANGED <<noted, failed, granted, aim>>

\* A turn nobody typed: a child's report, the goal.
Refill(j) ==
    /\ judge[j].spent > 0
    /\ judge' = [judge EXCEPT ![j].spent = 0]
    /\ UNCHANGED <<words, noted, failed, granted, aim>>

\* The goal is set, changed or over.
Aims ==
    /\ aim < MaxAims
    /\ aim' = aim + 1
    /\ UNCHANGED <<words, noted, failed, granted, judge>>

\* update_authorization: notes of all that was said, one message after another, or a failure
\* at one of them, which only another message lets it try again.
NotedAll(grant) == noted' = words /\ granted' = grant /\ failed' = 0
NotedSome(grant) ==
    /\ noted' \in noted .. words - 1
    /\ granted' = (IF noted' = noted THEN granted ELSE grant)
    /\ failed' = words
=============================================================================
