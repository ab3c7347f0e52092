--------------------------- MODULE DeliveryProofs ---------------------------
(***************************************************************************)
(* What is owed an answer gets it once: a child's report is landed once,   *)
(* and whoever waits on an approval can be answered.  A message the        *)
(* session accepted is in one place and once, and a session implements     *)
(* PromptDelivery: what is accepted is read exactly once, unless the user  *)
(* takes it back first or the agent dies.  And a turn runs for the session *)
(* as the session took it to be, where only what the user types opens one. *)
(***************************************************************************)
EXTENDS CoreProofs

\* Of the members of P none is twice in a sequence.
Once(s, P) == \A i, j \in 1 .. Len(s) : s[i] \in P /\ s[i] = s[j] => i = j

-----------------------------------------------------------------------------
(* What channels and queues hold, as they grow, are read and are drained. *)

LEMMA Members ==
    ASSUME NEW S, NEW s \in Seq(S), NEW x
    PROVE  x \in Range(s) <=> \E i \in 1 .. Len(s) : s[i] = x
  BY RangeEquality

LEMMA EmptyOnce == ASSUME NEW P PROVE Once(<<>>, P) /\ Range(<<>>) = {}
  BY DEF Once, Range

LEMMA OnceInjective ==
    ASSUME NEW S, NEW s \in Seq(S), NEW P, S \subseteq P
    PROVE  IsInjective(s) <=> Once(s, P)
  BY DEF Once, IsInjective

LEMMA ConcatOnce ==
    ASSUME NEW S, NEW s \in Seq(S), NEW t \in Seq(S), NEW P
    PROVE  Once(s \o t, P)
             <=> Once(s, P) /\ Once(t, P) /\ Range(s) \cap Range(t) \cap P = {}
<1>1. Len(s \o t) = Len(s) + Len(t) /\ Len(s) \in Nat /\ Len(t) \in Nat
  OBVIOUS
<1>2. ASSUME NEW i \in 1 .. Len(s) PROVE (s \o t)[i] = s[i] /\ i \in 1 .. Len(s \o t)
  BY <1>1
<1>3. ASSUME NEW i \in 1 .. Len(t)
      PROVE  (s \o t)[Len(s) + i] = t[i] /\ Len(s) + i \in 1 .. Len(s \o t)
  BY <1>1
<1>4. ASSUME Once(s \o t, P)
      PROVE  Once(s, P) /\ Once(t, P) /\ Range(s) \cap Range(t) \cap P = {}
  <2>1. Once(s, P)
    BY <1>2, <1>4 DEF Once
  <2>2. ASSUME NEW i \in 1 .. Len(t), NEW j \in 1 .. Len(t), t[i] \in P, t[i] = t[j]
        PROVE  i = j
    <3>1. Len(s) + i = Len(s) + j
      BY <1>3, <1>4, <2>2 DEF Once
    <3> QED
      BY <1>1, <3>1
  <2>3. ASSUME NEW x \in Range(s) \cap Range(t) \cap P PROVE FALSE
    <3>1. PICK i \in 1 .. Len(s), j \in 1 .. Len(t) : s[i] = x /\ t[j] = x
      BY <2>3, Members
    <3>2. i = Len(s) + j
      BY <1>2, <1>3, <1>4, <2>3, <3>1 DEF Once
    <3> QED
      BY <1>1, <3>1, <3>2
  <2> QED
    BY <2>1, <2>2, <2>3 DEF Once
<1>5. ASSUME Once(s, P), Once(t, P), Range(s) \cap Range(t) \cap P = {},
             NEW i \in 1 .. Len(s \o t), NEW j \in 1 .. Len(s \o t),
             (s \o t)[i] \in P, (s \o t)[i] = (s \o t)[j]
      PROVE  i = j
  <2>1. ASSUME NEW k \in 1 .. Len(s \o t)
        PROVE  IF k <= Len(s) THEN k \in 1 .. Len(s) /\ (s \o t)[k] = s[k]
               ELSE k - Len(s) \in 1 .. Len(t) /\ (s \o t)[k] = t[k - Len(s)]
    BY <1>1
  <2>2. CASE i <= Len(s) /\ j <= Len(s)
    BY <1>5, <2>1, <2>2 DEF Once
  <2>3. CASE i > Len(s) /\ j > Len(s)
    <3>1. i - Len(s) = j - Len(s)
      BY <1>1, <1>5, <2>1, <2>3 DEF Once
    <3> QED
      BY <1>1, <3>1
  <2>4. CASE i <= Len(s) /\ j > Len(s)
    <3>1. (s \o t)[i] \in Range(s) /\ (s \o t)[j] \in Range(t)
      BY <1>1, <2>1, <2>4, Members
    <3> QED
      BY <1>5, <3>1
  <2>5. CASE i > Len(s) /\ j <= Len(s)
    <3>1. (s \o t)[j] \in Range(s) /\ (s \o t)[i] \in Range(t)
      BY <1>1, <2>1, <2>5, Members
    <3> QED
      BY <1>5, <3>1
  <2> QED
    BY <1>1, <2>2, <2>3, <2>4, <2>5
<1>6. Once(s, P) /\ Once(t, P) /\ Range(s) \cap Range(t) \cap P = {} => Once(s \o t, P)
  BY <1>5 DEF Once
<1> QED
  BY <1>4, <1>6

LEMMA OneRange == ASSUME NEW e PROVE Range(<<e>>) = {e}
<1>1. <<e>>[1] = e /\ DOMAIN <<e>> = 1 .. 1
  OBVIOUS
<1> QED
  BY <1>1 DEF Range

LEMMA OneOnce == ASSUME NEW e, NEW P PROVE Once(<<e>>, P)
<1>1. Len(<<e>>) = 1
  OBVIOUS
<1> QED
  BY <1>1 DEF Once

LEMMA AppendOnce ==
    ASSUME NEW S, NEW s \in Seq(S), NEW e \in S, NEW P
    PROVE  /\ Range(Append(s, e)) = Range(s) \cup {e}
           /\ Once(s, P) /\ (e \in P => e \notin Range(s)) => Once(Append(s, e), P)
<1> DEFINE last == <<e>>
<1>1. last \in Seq(S) /\ Append(s, e) = s \o last
  OBVIOUS
<1>2. Range(last) = {e} /\ Once(last, P)
  BY OneRange, OneOnce
<1> HIDE DEF last
<1> QED
  BY <1>1, <1>2, ConcatOnce, RangeConcatenation

LEMMA TailOnce ==
    ASSUME NEW S, NEW s \in Seq(S), s # <<>>, NEW P
    PROVE  /\ Range(s) = Range(Tail(s)) \cup {Head(s)}
           /\ Once(s, P) => Once(Tail(s), P) /\ ~(Head(s) \in P /\ Head(s) \in Range(Tail(s)))
<1> DEFINE first == <<Head(s)>>
           rest == Tail(s)
<1>1. first \in Seq(S) /\ rest \in Seq(S) /\ s = first \o rest
  OBVIOUS
<1>2. Range(first) = {Head(s)} /\ Once(first, P)
  BY OneRange, OneOnce
<1> HIDE DEF first, rest
<1>3. Range(first \o rest) = Range(first) \cup Range(rest)
  BY <1>1, RangeConcatenation
<1>4. Once(first \o rest, P)
        <=> Once(first, P) /\ Once(rest, P) /\ Range(first) \cap Range(rest) \cap P = {}
  BY <1>1, ConcatOnce
<1> QED
  BY <1>1, <1>2, <1>3, <1>4 DEF rest

LEMMA SplitOnce ==
    ASSUME NEW S, NEW s \in Seq(S), NEW n \in 0 .. Len(s), NEW P
    PROVE  /\ Range(s) = Range(SubSeq(s, 1, n)) \cup Range(SubSeq(s, n + 1, Len(s)))
           /\ Once(s, P) =>
                /\ Once(SubSeq(s, 1, n), P) /\ Once(SubSeq(s, n + 1, Len(s)), P)
                /\ Range(SubSeq(s, 1, n)) \cap Range(SubSeq(s, n + 1, Len(s))) \cap P = {}
<1> DEFINE first == SubSeq(s, 1, n)
           rest == SubSeq(s, n + 1, Len(s))
<1>1. first \in Seq(S) /\ rest \in Seq(S)
  OBVIOUS
<1>2. first \o rest = s
  <2>1. Len(s) \in Nat /\ 1 \in 1 .. Len(s) + 1 /\ n \in 1 - 1 .. Len(s) /\ Len(s) \in n .. Len(s)
    OBVIOUS
  <2>2. first \o rest = SubSeq(s, 1, Len(s))
    BY <2>1, ConcatAdjacentSubSeq
  <2>3. SubSeq(s, 1, Len(s)) = s
    OBVIOUS
  <2> QED
    BY <2>2, <2>3
<1> HIDE DEF first, rest
<1>3. Range(first \o rest) = Range(first) \cup Range(rest)
  BY <1>1, RangeConcatenation
<1>4. Once(first \o rest, P)
        <=> Once(first, P) /\ Once(rest, P) /\ Range(first) \cap Range(rest) \cap P = {}
  BY <1>1, ConcatOnce
<1> QED
  BY <1>2, <1>3, <1>4 DEF first, rest

-----------------------------------------------------------------------------
(* A child's report is landed once. *)

\* The inductive form of ReportKept: only a child that is gone has posted, so one about
\* to post has not (tools/agent.rs spawn, agent.rs land).
ReportInv ==
    /\ Once(results, Children) /\ Once(reported, Children)
    /\ Range(results) \cap Range(reported) = {}
    /\ \A c \in Range(results) \cup Range(reported) : childState[c] = "gone"
    /\ alive => \A c \in Children :
                    childState[c] = "gone" => c \in Range(results) \cup Range(reported)

LEMMA ReportsStay ==
    ASSUME ReportInv, UNCHANGED <<results, reported, childState>>, alive' => alive
    PROVE  ReportInv'
  BY DEF ReportInv

\* What is landed moves from one sequence to the other.
LEMMA ReportsLand ==
    ASSUME TypeOK, ReportInv, results' = <<>>, reported' = reported \o results,
           UNCHANGED <<childState, alive>>
    PROVE  ReportInv'
<1>1. results \in Seq(Children) /\ reported \in Seq(Children)
  BY DEF TypeOK, WireTypeOK, LoopTypeOK
<1>2. Once(reported', Children) /\ Range(reported') = Range(reported) \cup Range(results)
  BY <1>1, ConcatOnce, RangeConcatenation DEF ReportInv
<1>3. Once(results', Children) /\ Range(results') = {}
  BY EmptyOnce
<1> QED
  BY <1>2, <1>3 DEF ReportInv

LEMMA ReportsDropped ==
    ASSUME ReportInv, results' = <<>>, ~alive', UNCHANGED <<childState, reported>>
    PROVE  ReportInv'
<1>1. Once(results', Children) /\ Range(results') = {}
  BY EmptyOnce
<1> QED
  BY <1>1 DEF ReportInv

LEMMA LoopReports == ASSUME TypeOK, ReportInv, Loop PROVE ReportInv'
<1>1. CASE Opens
  <2>1. CASE TakePrompt \/ TakeRetry \/ TakeForked \/ TakeGoal
    <3>1. UNCHANGED <<results, reported, childState, alive>>
      BY <2>1 DEF TakePrompt, TakeRetry, TakeForked, TakeGoal, TakesControl, childVars
    <3> QED
      BY <3>1, ReportsStay
  <2>2. CASE TakeReport
    BY <2>2, ReportsLand DEF TakeReport, childVars
  <2> QED
    BY <1>1, <2>1, <2>2 DEF Opens
<1>2. CASE Ends
  BY <1>2, ReportsStay, ReportsDropped DEF Ends, EndTurn, Panic, childVars
<1>3. CASE Steers
  BY <1>3, ReportsStay DEF Steers, TakeGoalCommand, TakeClear, GoalTool, ControlMidTurn,
                           TakesControl, wireVars, childVars
<1>4. CASE Reads
  <2>1. PICK taken : Step(taken) \/ Answers(taken)
    BY <1>4 DEF Reads
  <2>2. UNCHANGED <<childState, alive>>
    BY <2>1 DEF Step, Answers, OffWire, childVars
  <2> QED
    BY <2>1, <2>2, ReportsLand, ReportsStay DEF Step, Answers
<1>5. CASE Works
  <2>1. CASE TakeCompact \/ TakeAside \/ TakeModel \/ StartFork \/ EndFork
    BY <2>1, ReportsStay DEF TakeCompact, TakeAside, TakeModel, StartFork, EndFork,
                             TakesControl, wireVars, childVars
  <2>2. CASE CallEnds \/ Ask \/ Answered \/ ToolsDone \/ After
    <3>1. UNCHANGED <<results, reported, childState, alive>>
      BY <2>2 DEF CallEnds, Ask, Answered, ToolsDone, After, OffWire, Returned, childVars
    <3> QED
      BY <3>1, ReportsStay
  <2>3. CASE Close \/ Mark \/ EndCompaction \/ Watch \/ ControlMidTurn
    <3>1. UNCHANGED <<results, reported, childState, alive>>
      BY <2>3 DEF Close, Mark, EndCompaction, Watch, ControlMidTurn, Ended, childVars
    <3> QED
      BY <3>1, ReportsStay
  <2>4. CASE \E c \in Children : Spawn(c) \/ Joins(c)
    <3>1. PICK c \in Children : Spawn(c) \/ Joins(c)
      BY <2>4
    <3>2. /\ childState[c] # "gone" /\ UNCHANGED <<results, reported, alive>>
          /\ \E state \in {"born", "spawned"} : childState' = [childState EXCEPT ![c] = state]
      BY <3>1 DEF Spawn, Joins, Born, OffWire
    <3>3. PICK state \in {"born", "spawned"} : childState' = [childState EXCEPT ![c] = state]
      BY <3>2
    <3>4. \A d \in Children : childState'[d] = "gone" <=> childState[d] = "gone"
      BY <3>2, <3>3 DEF TypeOK, WireTypeOK
    <3> QED
      BY <3>2, <3>4 DEF ReportInv
  <2> QED
    BY <1>5, <2>1, <2>2, <2>3, <2>4 DEF Works
<1> QED
  BY <1>1, <1>2, <1>3, <1>4, <1>5 DEF Loop

\* A child posts as it goes, and no other step of it makes it gone.
LEMMA ChildReports ==
    ASSUME TypeOK, ReportInv, NEW c \in Children, ChildWorks(c) PROVE ReportInv'
<1>1. /\ results \in Seq(Children) /\ childState \in [Children -> ChildStates]
      /\ Range(results) \subseteq Children /\ Range(reported) \subseteq Children
  BY RangeOfSeq DEF TypeOK, WireTypeOK, LoopTypeOK
<1>2. UNCHANGED <<reported, alive>>
  BY DEF ChildWorks, ChildStep, ChildStart, ChildAsk, ChildAnswered, ChildEnd, ChildReport,
         ChildOnly, loopVars
<1>3. CASE ChildReport(c)
  <2>1. /\ childState[c] = "reporting" /\ childState' = [childState EXCEPT ![c] = "gone"]
        /\ results' = IF alive THEN Append(results, c) ELSE results
    BY <1>3 DEF ChildReport, Becomes
  <2>2. c \notin Range(results) \cup Range(reported)
    BY <2>1 DEF ReportInv
  <2>3. /\ Range(Append(results, c)) = Range(results) \cup {c}
        /\ Once(Append(results, c), Children)
    BY <1>1, <2>2, AppendOnce DEF ReportInv
  <2> QED
    BY <1>1, <1>2, <2>1, <2>2, <2>3 DEF ReportInv
<1>4. CASE ChildStart(c) \/ ChildAsk(c) \/ ChildAnswered(c) \/ ChildEnd(c)
  <2>1. /\ childState[c] # "gone" /\ UNCHANGED results
        /\ \E state \in ChildStates \ {"gone"} : childState' = [childState EXCEPT ![c] = state]
    BY <1>4 DEF ChildStart, ChildAsk, ChildAnswered, ChildEnd, Becomes, ChildStates
  <2> QED
    BY <1>1, <1>2, <2>1 DEF ReportInv
<1> QED
  BY <1>3, <1>4 DEF ChildWorks, ChildStep

LEMMA HubReports ==
    ASSUME ReportInv, UserSends \/ UserDoes \/ UserInterrupts \/ Pumps PROVE ReportInv'
<1>1. UNCHANGED <<results, reported, childState, alive>>
  <2>1. CASE UserSends
    BY <2>1 DEF UserSends, Submit, SubmitAutomatic, SubmitReleased, Answer, RejectPending,
                wireVars, chanVars, childVars, loopVars
  <2>2. CASE UserDoes
    BY <2>2 DEF UserDoes, DropQueue, StartControl, SubmitForked, AskCompact, SetModel, Clear,
                SetGoal, InterruptChild, Interrupt, StartTurn, Post, wireVars, chanVars,
                childVars, loopVars
  <2>3. CASE UserInterrupts
    BY <2>3 DEF UserInterrupts, StopTurn, StopChildren, chanVars, childVars, loopVars
  <2>4. CASE Pumps
    BY <2>4 DEF Pumps, Pump, OnApproval, OnResumed, OnAuthFailed, OnTurnEnd, OnOther, Pumped,
                childVars, loopVars
  <2> QED
    BY <2>1, <2>2, <2>3, <2>4
<1> QED
  BY <1>1, ReportsStay

LEMMA ReportInvKept == ASSUME TypeOK, ReportInv, [Next]_vars PROVE ReportInv'
<1>1. CASE UNCHANGED vars
  BY <1>1, ReportsStay DEF vars, wireVars, loopVars
<1> QED
  BY <1>1, HubReports, LoopReports, ChildReports DEF Next

LEMMA ReportInvShows == ASSUME TypeOK, ReportInv PROVE ReportKept
<1>1. results \in Seq(Children) /\ reported \in Seq(Children)
  BY DEF TypeOK, WireTypeOK, LoopTypeOK
<1>2. IsInjective(results \o reported)
  <2>1. Once(results \o reported, Children) /\ results \o reported \in Seq(Children)
    BY <1>1, ConcatOnce DEF ReportInv
  <2> QED
    BY <2>1, OnceInjective
<1>3. Range(results \o reported) = Range(results) \cup Range(reported)
  BY <1>1, RangeConcatenation
<1> QED
  BY <1>2, <1>3 DEF ReportInv, ReportKept

\* No child's report is landed twice, and until the loop dies none is lost, whatever is
\* interrupted and however many children report between two steps of the loop.
THEOREM ReportsKept == Spec => []ReportKept
<1>1. Init => ReportInv
  BY EmptyOnce DEF Init, WireInit, LoopInit, ReportInv
<1>2. TypeOK /\ ReportInv /\ [Next]_vars => ReportInv'
  BY ReportInvKept
<1>3. TypeOK /\ ReportInv => ReportKept
  BY ReportInvShows
<1> QED
  BY <1>1, <1>2, <1>3, TypeCorrect, PTL DEF Spec

-----------------------------------------------------------------------------
(* Approvals and those who wait for them. *)

Approval(a) == SayOf("approval", a)
Approvals == {Approval(a) : a \in Askers}
Told(a) == Approval(a) \in Range(events)

\* An asker an approval may be shown for: it waits, or it died with the loop.
Owed(a) == replies[a] = "waiting" \/ (a = Main /\ ~alive)

\* The inductive form of ApprovalsMatch.  An approval is in one place and once, on its way
\* or parked, and who does not wait at one has no reply left over (agent.rs ask).
ApprovalInv ==
    /\ \A a \in Askers :
         /\ replies[a] = "waiting" => a \in Range(pending) \/ Told(a)
         /\ a \in Range(pending) \/ Told(a) => Owed(a)
         /\ ~(a \in Range(pending) /\ Told(a))
    /\ Once(pending, Askers) /\ Once(events, Approvals)
    /\ pc # "asking" => replies[Main] = "none"
    /\ \A c \in Children : childState[c] # "asking" => replies[c] = "none"

LEMMA ApprovalApart ==
    /\ \A a, b \in Askers : Approval(a) = Approval(b) => a = b
    /\ \A a \in Askers : Approval(a) \in Event
    /\ \A e \in Approvals : e.kind = "approval"
<1>1. \A a : Approval(a).who = a /\ Approval(a).kind = "approval"
  BY DEF Approval, SayOf
<1>2. \A a \in Askers : Approval(a) \in Event
  BY DEF Approval, SayOf, Event, EventKinds, ChildEvents
<1> QED
  BY <1>1, <1>2 DEF Approvals

\* Nothing of what is said is an approval.
Silent(said) == said \in Seq(Event) /\ Range(said) \cap Approvals = {}

LEMMA SilentSays ==
    /\ Silent(<<>>)
    /\ \A kind \in EventKinds \ (ChildEvents \cup {"approval"}) : Silent(<<Say(kind)>>)
    /\ \A kind \in ChildEvents, c \in Children : Silent(<<SayOf(kind, c)>>)
<1>1. Silent(<<>>)
  BY EmptyOnce DEF Silent
<1>2. ASSUME NEW kind \in EventKinds \ (ChildEvents \cup {"approval"})
      PROVE  Silent(<<Say(kind)>>)
  <2>1. <<Say(kind)>> \in Seq(Event) /\ Say(kind).kind = kind
    BY SayTyped DEF Say, Askers
  <2>2. Say(kind) \notin Approvals
    BY <2>1, ApprovalApart
  <2> QED
    BY <2>1, <2>2, OneRange DEF Silent
<1>3. ASSUME NEW kind \in ChildEvents, NEW c \in Children
      PROVE  Silent(<<SayOf(kind, c)>>)
  <2>1. <<SayOf(kind, c)>> \in Seq(Event) /\ SayOf(kind, c).kind = kind
    BY ChildSaysTyped DEF SayOf
  <2>2. SayOf(kind, c) \notin Approvals
    BY <2>1, ApprovalApart DEF ChildEvents
  <2> QED
    BY <2>1, <2>2, OneRange DEF Silent
<1> QED
  BY <1>1, <1>2, <1>3

LEMMA SilentConcat ==
    ASSUME NEW s, NEW t, Silent(s), Silent(t) PROVE Silent(s \o t)
<1>1. s \o t \in Seq(Event) /\ Range(s \o t) = Range(s) \cup Range(t)
  BY RangeConcatenation DEF Silent
<1> QED
  BY <1>1 DEF Silent

\* The event of a dropped copy.
LEMMA SilentFork == Silent(IF fork THEN <<Say("nofork")>> ELSE <<>>)
<1>1. Silent(<<Say("nofork")>>)
  BY SilentSays DEF EventKinds, ChildEvents
<1> QED
  BY <1>1, SilentSays

-----------------------------------------------------------------------------
(* The ways a step keeps the invariant. *)

\* Nobody asks and nobody answers.
LEMMA ApprovalsStay ==
    ASSUME TypeOK, ApprovalInv, UNCHANGED <<pending, replies, alive>>,
           NEW said, Silent(said), Says(said),
           pc = "asking" => pc' = "asking",
           \A c \in Children : childState[c] = "asking" => childState'[c] = "asking"
    PROVE  ApprovalInv'
<1>1. events \in Seq(Event)
  BY DEF TypeOK, WireTypeOK
<1>2. Range(events') \cap Approvals = Range(events) \cap Approvals
  BY <1>1, RangeConcatenation DEF Silent, Says
<1>3. Once(events', Approvals)
  <2>1. Once(said, Approvals)
    <3>1. \A i \in 1 .. Len(said) : said[i] \notin Approvals
      BY Members DEF Silent
    <3> QED
      BY <3>1 DEF Once
  <2> QED
    BY <1>1, <2>1, ConcatOnce DEF Silent, Says, ApprovalInv
<1>4. \A a \in Askers : Told(a)' <=> Told(a)
  BY <1>2 DEF Told, Approvals
<1> QED
  BY <1>3, <1>4 DEF ApprovalInv, Owed

LEMMA ApprovalsUntouched ==
    ASSUME TypeOK, ApprovalInv, UNCHANGED <<pending, replies, alive, events>>,
           pc = "asking" => pc' = "asking",
           \A c \in Children : childState[c] = "asking" => childState'[c] = "asking"
    PROVE  ApprovalInv'
  BY DEF ApprovalInv, Owed, Told

\* An asker to whom nothing is owed starts to wait.
LEMMA ApprovalAsked ==
    ASSUME TypeOK, ApprovalInv, NEW a \in Askers, ~Owed(a),
           replies' = [replies EXCEPT ![a] = "waiting"], Says(<<Approval(a)>>),
           UNCHANGED <<pending, alive>>,
           pc' # "asking" => pc # "asking" /\ a # Main,
           \A c \in Children : childState'[c] # "asking" => childState[c] # "asking" /\ a # c
    PROVE  ApprovalInv'
<1>1. /\ events \in Seq(Event) /\ replies \in [Askers -> {"none", "waiting", "accept", "reject"}]
      /\ Approval(a) \in Event
  BY ApprovalApart DEF TypeOK, WireTypeOK
<1>2. ~Told(a) /\ a \notin Range(pending)
  BY DEF ApprovalInv
<1>3. events' = Append(events, Approval(a))
  BY <1>1 DEF Says
<1>4. Range(events') = Range(events) \cup {Approval(a)} /\ Once(events', Approvals)
  BY <1>1, <1>2, <1>3, AppendOnce DEF ApprovalInv, Told
<1>5. \A b \in Askers : Told(b)' <=> Told(b) \/ b = a
  BY <1>4, ApprovalApart DEF Told
<1>6. \A b \in Askers : replies'[b] = IF b = a THEN "waiting" ELSE replies[b]
  BY <1>1
<1>7. /\ pc' # "asking" => replies'[Main] = "none"
      /\ \A c \in Children : childState'[c] # "asking" => replies'[c] = "none"
  BY <1>6 DEF ApprovalInv, Askers
<1> QED
  BY <1>2, <1>4, <1>5, <1>6, <1>7 DEF ApprovalInv, Owed

\* The one whose approval is on screen is answered.
LEMMA ApprovalSettled ==
    ASSUME TypeOK, ApprovalInv, pending # <<>>, NEW answer \in {"accept", "reject"},
           pending' = Tail(pending), replies' = Reply({Head(pending)}, answer),
           UNCHANGED <<events, alive, pc, childState>>
    PROVE  ApprovalInv'
<1>1. pending \in Seq(Askers)
  BY DEF TypeOK, HubTypeOK
<1>2. /\ Range(pending) = Range(pending') \cup {Head(pending)}
      /\ Once(pending', Askers) /\ Head(pending) \notin Range(pending')
      /\ Head(pending) \in Askers
  BY <1>1, TailOnce DEF ApprovalInv
<1>3. \A a \in Askers : replies'[a] = IF a = Head(pending) /\ replies[a] = "waiting"
                                      THEN answer ELSE replies[a]
  BY DEF Reply
<1>4. \A a \in Askers : Told(a)' <=> Told(a)
  BY DEF Told
<1>5. \A a \in Askers : replies[a] = "none" => replies'[a] = "none"
  BY <1>3
<1>6. /\ pc' # "asking" => replies'[Main] = "none"
      /\ \A c \in Children : childState'[c] # "asking" => replies'[c] = "none"
  BY <1>5 DEF ApprovalInv, Askers
<1>7. \A a \in Askers : a # Head(pending) => (Owed(a)' <=> Owed(a))
  BY <1>3 DEF Owed
<1>8. ASSUME NEW a \in Askers
      PROVE  /\ replies'[a] = "waiting" => a \in Range(pending') \/ Told(a)'
             /\ a \in Range(pending') \/ Told(a)' => Owed(a)'
             /\ ~(a \in Range(pending') /\ Told(a)')
  BY <1>2, <1>3, <1>4, <1>7 DEF ApprovalInv
<1> QED
  BY <1>2, <1>6, <1>8 DEF ApprovalInv

\* An asker answered takes its reply and goes on.
LEMMA ApprovalTaken ==
    ASSUME TypeOK, ApprovalInv, NEW a \in Askers, ~Owed(a),
           replies' = [replies EXCEPT ![a] = "none"],
           UNCHANGED <<pending, events, alive>>,
           pc' # "asking" => pc # "asking" \/ a = Main,
           \A c \in Children : childState'[c] # "asking" => childState[c] # "asking" \/ a = c
    PROVE  ApprovalInv'
<1>1. \A b \in Askers : replies'[b] = IF b = a THEN "none" ELSE replies[b]
  BY DEF TypeOK, WireTypeOK
<1>2. a \notin Range(pending) /\ ~Told(a)
  BY DEF ApprovalInv
<1>3. \A b \in Askers : Told(b)' <=> Told(b)
  BY DEF Told
<1>4. /\ pc' # "asking" => replies'[Main] = "none"
      /\ \A c \in Children : childState'[c] # "asking" => replies'[c] = "none"
  BY <1>1 DEF ApprovalInv, Askers
<1> QED
  BY <1>1, <1>2, <1>3, <1>4 DEF ApprovalInv, Owed

\* The loop dies: what was parked for it stays on screen, and its reply goes with it.
LEMMA PanicApprovals == ASSUME TypeOK, ApprovalInv, UNCHANGED pending, Panic PROVE ApprovalInv'
<1>1. \A b \in Askers : replies'[b] = IF b = Main THEN "none" ELSE replies[b]
  BY DEF TypeOK, WireTypeOK, Panic
<1>2. UNCHANGED <<events, childState>> /\ ~alive' /\ alive
  BY DEF Panic
<1>3. \A b \in Askers : Told(b)' <=> Told(b)
  BY <1>2 DEF Told
<1>4. \A c \in Children : childState'[c] # "asking" => replies'[c] = "none"
  BY <1>1, <1>2, WireAssumption DEF ApprovalInv, Askers
<1>5. replies'[Main] = "none"
  BY <1>1 DEF Askers
<1> QED
  BY <1>1, <1>2, <1>3, <1>4, <1>5 DEF ApprovalInv, Owed

\* An event that is no approval is pumped.
LEMMA OtherPumped ==
    ASSUME TypeOK, ApprovalInv, events # <<>>, Head(events).kind # "approval",
           events' = Tail(events), UNCHANGED <<pending, replies, alive, pc, childState>>
    PROVE  ApprovalInv'
<1>1. events \in Seq(Event) /\ Head(events) \notin Approvals
  BY ApprovalApart DEF TypeOK, WireTypeOK
<1>2. Range(events) = Range(events') \cup {Head(events)} /\ Once(events', Approvals)
  BY <1>1, TailOnce DEF ApprovalInv
<1>3. \A a \in Askers : Told(a)' <=> Told(a)
  BY <1>1, <1>2 DEF Told, Approvals
<1> QED
  BY <1>2, <1>3 DEF ApprovalInv, Owed

\* An approval is pumped, and parked.
LEMMA ApprovalPumped ==
    ASSUME TypeOK, ApprovalInv, OnApproval, UNCHANGED pc PROVE ApprovalInv'
<1>0. PICK a : a = Head(events).who
  OBVIOUS
<1>1. /\ events \in Seq(Event) /\ events # <<>> /\ events' = Tail(events)
      /\ pending \in Seq(Askers) /\ pending' = Append(pending, a)
      /\ UNCHANGED <<replies, alive, childState>>
  BY <1>0 DEF TypeOK, WireTypeOK, HubTypeOK, OnApproval, Heard, Pumped, childVars
<1>2. a \in Askers /\ Head(events) = Approval(a)
  <2>1. Head(events) \in Event /\ Head(events).kind = "approval"
    BY <1>1 DEF OnApproval, Heard
  <2>2. Head(events) \in [kind : EventKinds \ ChildEvents, who : Askers]
    BY <2>1 DEF Event, ChildEvents
  <2> QED
    BY <1>0, <2>1, <2>2 DEF Approval, SayOf
<1>3. /\ Range(events) = Range(events') \cup {Approval(a)}
      /\ Once(events', Approvals) /\ Approval(a) \notin Range(events')
  BY <1>1, <1>2, TailOnce DEF ApprovalInv, Approvals
<1>4. Told(a) /\ ~Told(a)' /\ \A b \in Askers : b # a => (Told(b)' <=> Told(b))
  BY <1>2, <1>3, ApprovalApart DEF Told
<1>5. a \notin Range(pending)
  BY <1>2, <1>4 DEF ApprovalInv
<1>6. Range(pending') = Range(pending) \cup {a} /\ Once(pending', Askers)
  BY <1>1, <1>2, <1>5, AppendOnce DEF ApprovalInv
<1>7. \A b \in Askers : Owed(b)' <=> Owed(b)
  BY <1>1 DEF Owed
<1>8. ASSUME NEW b \in Askers
      PROVE  /\ replies'[b] = "waiting" => b \in Range(pending') \/ Told(b)'
             /\ b \in Range(pending') \/ Told(b)' => Owed(b)'
             /\ ~(b \in Range(pending') /\ Told(b)')
  BY <1>1, <1>4, <1>6, <1>7 DEF ApprovalInv
<1>9. /\ pc' # "asking" => replies'[Main] = "none"
      /\ \A c \in Children : childState'[c] # "asking" => replies'[c] = "none"
  BY <1>1 DEF ApprovalInv
<1> QED
  BY <1>3, <1>6, <1>8, <1>9 DEF ApprovalInv

-----------------------------------------------------------------------------
(* The hub's steps. *)

LEMMA PumpsApprovals == ASSUME TypeOK, ApprovalInv, Pumps PROVE ApprovalInv'
<1>1. UNCHANGED pc
  BY DEF Pumps, loopVars
<1>2. CASE OnApproval
  BY <1>1, <1>2, ApprovalPumped
<1>3. CASE OnResumed \/ OnAuthFailed \/ OnTurnEnd \/ OnOther
  <2>1. /\ events # <<>> /\ Head(events).kind # "approval" /\ events' = Tail(events)
        /\ UNCHANGED <<pending, replies, alive, childState>>
    BY <1>3 DEF OnResumed, OnAuthFailed, OnTurnEnd, OnOther, Heard, Pumped, childVars
  <2> QED
    BY <1>1, <2>1, OtherPumped
<1> QED
  BY <1>2, <1>3 DEF Pumps, Pump

LEMMA UserApprovals ==
    ASSUME TypeOK, ApprovalInv, UserSends \/ UserDoes \/ UserInterrupts PROVE ApprovalInv'
<1>1. CASE \E answer \in {"accept", "reject"} :
             pending # <<>> /\ pending' = Tail(pending) /\ replies' = Reply({Head(pending)}, answer)
               /\ UNCHANGED <<events, alive, pc, childState>>
  BY <1>1, ApprovalSettled
<1>2. CASE UNCHANGED <<pending, replies, alive, events, pc, childState>>
  BY <1>2, ApprovalsUntouched
<1>3. CASE UserSends
  <2>1. CASE (\E p \in Prompts : Submit(p) \/ SubmitAutomatic(p)) \/ SubmitReleased
    BY <1>2, <1>3, <2>1 DEF UserSends, Submit, SubmitAutomatic, SubmitReleased, Kept, wireVars,
                            childVars, loopVars
  <2>2. CASE \E answer \in {"accept", "reject"} : Answer(answer)
    BY <1>1, <1>3, <2>2 DEF UserSends, Answer, chanVars, loopVars
  <2>3. CASE RejectPending
    BY <1>1, <1>2, <1>3, <2>3 DEF UserSends, RejectPending, chanVars, loopVars
  <2> QED
    BY <1>3, <2>1, <2>2, <2>3 DEF UserSends
<1>4. CASE UserDoes
  BY <1>2, <1>4 DEF UserDoes, DropQueue, StartControl, SubmitForked, AskCompact, SetModel,
                    Clear, SetGoal, InterruptChild, Interrupt, StartTurn, Post, HubRest,
                    wireVars, chanVars, childVars, loopVars, hubVars
<1>5. CASE UserInterrupts
  BY <1>2, <1>5 DEF UserInterrupts, StopTurn, StopChildren, chanVars, childVars, loopVars
<1> QED
  BY <1>3, <1>4, <1>5

-----------------------------------------------------------------------------
(* The loop's steps. *)

\* Between turns and past them nobody asks.
LEMMA QuietApprovals ==
    ASSUME TypeOK, ApprovalInv, UNCHANGED <<pending, replies, alive, childState>>,
           pc # "asking", NEW said, Silent(said), Says(said)
    PROVE  ApprovalInv'
  BY ApprovalsStay

LEMMA OpensApprovals == ASSUME TypeOK, ApprovalInv, Opens PROVE ApprovalInv'
<1>1. UNCHANGED <<pending, replies, alive, childState>> /\ pc = "idle"
  BY DEF Opens, hubVars, TakePrompt, TakeRetry, TakeForked, TakeReport, TakeGoal, Idle,
         TakesControl, childVars
<1>2. \E said : Silent(said) /\ Says(said)
  <2>1. Silent(<<Say("turnend")>>) /\ Silent(<<Say("resumed")>>)
    BY SilentSays DEF EventKinds, ChildEvents
  <2>2. CASE TakePrompt \/ TakeRetry
    BY <2>2, SilentFork DEF TakePrompt, TakeRetry, DropFork
  <2>3. CASE TakeForked
    BY <2>1, <2>3, SilentFork DEF TakeForked, DropFork
  <2>4. CASE TakeReport \/ TakeGoal
    <3>1. Silent((IF fork THEN <<Say("nofork")>> ELSE <<>>) \o <<Say("resumed")>>)
      BY <2>1, SilentFork, SilentConcat
    <3> QED
      BY <2>4, <3>1, SilentFork DEF TakeReport, TakeGoal
  <2> QED
    BY <2>2, <2>3, <2>4 DEF Opens
<1> QED
  BY <1>1, <1>2, QuietApprovals

LEMMA AskApprovals ==
    ASSUME TypeOK, MarkInv, ApprovalInv, UNCHANGED pending, Ask \/ Answered
    PROVE  ApprovalInv'
<1>1. alive /\ UNCHANGED <<alive, childState>>
  BY DEF MarkInv, Ask, Answered, OffWire
<1>2. Main \in Askers /\ Main \notin Children
  BY WireAssumption DEF Askers
<1>3. ~Owed(Main)
  BY <1>1 DEF Owed, Ask, Answered, ApprovalInv
<1>4. CASE Ask
  BY <1>1, <1>2, <1>3, <1>4, ApprovalAsked DEF Ask, Approval
<1>5. CASE Answered
  <2>1. CASE behind = 0
    <3>1. replies' = [replies EXCEPT ![Main] = "none"] /\ UNCHANGED events
      BY <1>5, <2>1 DEF Answered
    <3> QED
      BY <1>1, <1>2, <1>3, <3>1, ApprovalTaken
  <2>2. CASE behind # 0
    <3>1. /\ replies' = [replies EXCEPT ![Main] = "waiting"] /\ pc = "asking" /\ UNCHANGED pc
          /\ Says(<<Approval(Main)>>)
      BY <1>5, <2>2 DEF Answered, Approval
    <3> QED
      BY <1>1, <1>2, <1>3, <3>1, ApprovalAsked
  <2> QED
    BY <2>1, <2>2
<1> QED
  BY <1>4, <1>5

LEMMA LoopApprovals == ASSUME TypeOK, MarkInv, ApprovalInv, Loop PROVE ApprovalInv'
<1>1. UNCHANGED pending
  BY DEF Loop, Opens, Ends, Steers, Reads, Works, TakeQueued, hubVars
<1>2. CASE Opens
  BY <1>2, OpensApprovals
<1>3. CASE Ends
  <2>1. Silent(<<Say("turnend")>>)
    BY SilentSays DEF EventKinds, ChildEvents
  <2>2. CASE EndTurn
    BY <1>1, <2>1, <2>2, QuietApprovals DEF EndTurn, childVars
  <2> QED
    BY <1>1, <1>3, <2>2, PanicApprovals DEF Ends
<1>4. CASE ControlMidTurn
  <2>1. UNCHANGED <<replies, alive, childState, pc>>
    BY <1>4 DEF ControlMidTurn, childVars
  <2>2. Silent(<<Say("refused")>>)
    BY SilentSays DEF EventKinds, ChildEvents
  <2>3. CASE UNCHANGED events
    BY <1>1, <2>1, <2>3, ApprovalsUntouched
  <2> QED
    BY <1>1, <1>4, <2>1, <2>2, <2>3, ApprovalsStay DEF ControlMidTurn
<1>5. CASE TakeClear \/ TakeModel \/ TakeCompact
  BY <1>1, <1>5, SilentFork, QuietApprovals
     DEF TakeClear, TakeModel, TakeCompact, TakesControl, DropFork, childVars
<1>6. CASE \/ \E command \in GoalCommands : TakeGoalCommand(command)
           \/ GoalTool \/ Reads \/ TakeAside \/ StartFork
  <2>1. UNCHANGED <<replies, alive, childState, events>>
    BY <1>6 DEF TakeGoalCommand, GoalTool, Reads, Step, Answers, TakeAside, StartFork,
                TakesControl, OffWire, childVars, wireVars
  <2>2. pc # "asking"
    BY <1>6 DEF TakeGoalCommand, GoalTool, Reads, Step, Answers, TakeAside, StartFork,
                TakesControl, Idle
  <2> QED
    BY <1>1, <2>1, <2>2, ApprovalsUntouched
<1>7. CASE EndFork
  <2>1. Silent(<<Say("fork")>>)
    BY SilentSays DEF EventKinds, ChildEvents
  <2>2. UNCHANGED <<replies, alive, childState>> /\ pc # "asking"
    BY <1>7 DEF EndFork, childVars
  <2> QED
    BY <1>1, <1>7, <2>1, <2>2, QuietApprovals, ApprovalsUntouched DEF EndFork
<1>8. CASE CallEnds \/ ToolsDone \/ After \/ Close \/ EndCompaction
  <2>1. UNCHANGED <<replies, alive, childState, events>> /\ pc # "asking"
    BY <1>8 DEF CallEnds, ToolsDone, After, Close, EndCompaction, Returned, OffWire, Ended,
                childVars
  <2> QED
    BY <1>1, <2>1, ApprovalsUntouched
<1>9. CASE Ask \/ Answered
  BY <1>1, <1>9, AskApprovals
<1>10. CASE Mark \/ Watch
  <2>1. Silent(<<Say("authfailed")>>) /\ Silent(<<Say("turnend")>>) /\ Silent(<<>>)
    BY SilentSays DEF EventKinds, ChildEvents
  <2>2. UNCHANGED <<replies, alive, childState>> /\ pc # "asking"
    BY <1>10 DEF Mark, Watch, Ended, childVars
  <2> QED
    BY <1>1, <1>10, <2>1, <2>2, QuietApprovals DEF Mark, Watch
<1>11. CASE \E c \in Children : Spawn(c) \/ Joins(c)
  <2>1. PICK c \in Children : Spawn(c) \/ Joins(c)
    BY <1>11
  <2>2. /\ childState[c] \in {"new", "born"} /\ pc # "asking"
        /\ \/ childState' = [childState EXCEPT ![c] = "born"]
           \/ childState' = [childState EXCEPT ![c] = "spawned"]
        /\ UNCHANGED <<replies, alive, events>>
    BY <2>1 DEF Spawn, Joins, Born, OffWire
  <2>3. childState \in [Children -> ChildStates]
    BY DEF TypeOK, WireTypeOK
  <2> QED
    BY <1>1, <2>2, <2>3, ApprovalsUntouched
<1> QED
  BY <1>2, <1>3, <1>4, <1>5, <1>6, <1>7, <1>8, <1>9, <1>10, <1>11 DEF Loop, Steers, Works

-----------------------------------------------------------------------------
(* A child's steps. *)

LEMMA ChildApprovals ==
    ASSUME TypeOK, ApprovalInv, NEW c \in Children, ChildWorks(c) PROVE ApprovalInv'
<1>1. UNCHANGED <<pending, alive, pc>> /\ c \in Askers /\ c # Main
  BY WireAssumption DEF ChildWorks, ChildStep, ChildStart, ChildAsk, ChildAnswered, ChildEnd,
       ChildReport, ChildOnly, hubVars, loopVars, Askers
<1>2. childState \in [Children -> ChildStates]
  BY DEF TypeOK, WireTypeOK
<1>3. CASE ChildStart(c) \/ ChildEnd(c) \/ ChildReport(c)
  <2>1. UNCHANGED replies /\ childState[c] # "asking"
    BY <1>3 DEF ChildStart, ChildEnd, ChildReport
  <2>2. \A d \in Children : childState[d] = "asking" => childState'[d] = "asking"
    BY <1>2, <1>3, <2>1 DEF ChildStart, ChildEnd, ChildReport, Becomes
  <2>3. UNCHANGED events \/ \E kind \in ChildEvents : Says(<<SayOf(kind, c)>>)
    BY <1>3 DEF ChildStart, ChildEnd, ChildReport, ChildEvents
  <2> QED
    BY <1>1, <2>1, <2>2, <2>3, SilentSays, ApprovalsStay, ApprovalsUntouched
<1>4. CASE ChildAsk(c)
  <2>1. /\ childState[c] = "running" /\ childState' = [childState EXCEPT ![c] = "asking"]
        /\ replies' = [replies EXCEPT ![c] = "waiting"] /\ Says(<<Approval(c)>>)
    BY <1>4 DEF ChildAsk, Becomes, Approval
  <2>2. ~Owed(c)
    BY <1>1, <2>1 DEF ApprovalInv, Owed
  <2> QED
    BY <1>1, <1>2, <2>1, <2>2, ApprovalAsked DEF ApprovalInv
<1>5. CASE ChildAnswered(c)
  <2>1. /\ childState' = [childState EXCEPT ![c] = "running"]
        /\ replies' = [replies EXCEPT ![c] = "none"] /\ UNCHANGED events
        /\ replies[c] # "waiting"
    BY <1>5 DEF ChildAnswered, Becomes
  <2>2. ~Owed(c)
    BY <1>1, <2>1 DEF Owed
  <2> QED
    BY <1>1, <1>2, <2>1, <2>2, ApprovalTaken
<1> QED
  BY <1>3, <1>4, <1>5 DEF ChildWorks, ChildStep

LEMMA ApprovalInvKept == ASSUME TypeOK, MarkInv, ApprovalInv, [Next]_vars PROVE ApprovalInv'
<1>1. CASE UNCHANGED vars
  BY <1>1, ApprovalsUntouched DEF vars, wireVars, hubVars, loopVars
<1> QED
  BY <1>1, UserApprovals, PumpsApprovals, LoopApprovals, ChildApprovals DEF Next

LEMMA ApprovalInvStarts == Init => ApprovalInv
<1> SUFFICES ASSUME Init PROVE ApprovalInv
  OBVIOUS
<1>1. /\ events = <<>> /\ pending = <<>> /\ \A a \in Askers : replies[a] = "none"
  BY DEF Init, WireInit, HubInit
<1>2. Range(events) = {} /\ Range(pending) = {} /\ Once(events, Approvals) /\ Once(pending, Askers)
  BY <1>1, EmptyOnce
<1> QED
  BY <1>1, <1>2 DEF ApprovalInv, Told, Askers

LEMMA ApprovalInvShows == ASSUME TypeOK, ApprovalInv PROVE ApprovalsMatch
<1>1. pending \in Seq(Askers) /\ events \in Seq(Event)
  BY DEF TypeOK, HubTypeOK, WireTypeOK
<1>2. NoOrphanWait
  BY <1>1, Members DEF ApprovalInv, NoOrphanWait, Told, Approval
<1>3. NoStalePrompt
  <2>1. Range(pending) \subseteq Askers /\ IsInjective(pending)
    BY <1>1, RangeOfSeq, OnceInjective DEF ApprovalInv
  <2> QED
    BY <2>1 DEF ApprovalInv, NoStalePrompt, Owed
<1> QED
  BY <1>2, <1>3 DEF ApprovalsMatch

\* Whoever waits on an approval can be answered, and what is on screen is what somebody
\* waits for, once: through interrupts, batches, several children asking and a panic.
THEOREM ApprovalsAnswerable == Spec => []ApprovalsMatch
<1>1. Init => ApprovalInv
  BY ApprovalInvStarts
<1>2. TypeOK /\ MarkInv /\ ApprovalInv /\ [Next]_vars => ApprovalInv'
  BY ApprovalInvKept
<1>3. TypeOK /\ ApprovalInv => ApprovalsMatch
  BY ApprovalInvShows
<1> QED
  BY <1>1, <1>2, <1>3, TypeCorrect, Marked, PTL DEF Spec

-----------------------------------------------------------------------------
(* The delivery of messages.                                               *)

\* Where a message can be: queued behind a turn, handed to the loop, handed to it to be
\* put on the compacted copy, or read (landed), or taken back (withdrawn).
OnCopy(p) == [op |-> "forked", arg |-> p]
OnCopies == {OnCopy(p) : p \in Prompts}
Queued == Range(queue) \cap Prompts
Handed == Range(rxUser)
Copied == {p \in Prompts : OnCopy(p) \in Range(rxControl)}
Landed == Range(landed)

\* No two of these hold a message, none holds it twice, and all were accepted.
PlaceInv ==
    /\ Once(queue, Prompts) /\ Once(rxUser, Prompts)
    /\ Once(rxControl, OnCopies) /\ Once(landed, Prompts)
    /\ Queued \cap (Handed \cup Copied \cup Landed \cup withdrawn) = {}
    /\ Handed \cap (Copied \cup Landed \cup withdrawn) = {}
    /\ Copied \cap (Landed \cup withdrawn) = {}
    /\ Landed \cap withdrawn = {}
    /\ Queued \cup Handed \cup Copied \cup Landed \cup withdrawn \subseteq Range(accepted)
    /\ autoGo \notin Range(accepted)

\* A session in which nothing is sent onto a compacted copy.  A message that is may be
\* refused by a loop that has started a turn or dropped the copy meanwhile: the hub has
\* then accepted what no turn reads (session.rs submit_forked, agent.rs Control::Forked).
NoCopies == "forked" \notin Ops
CopyInv == NoCopies => Copied = {}

\* What every step is shown to do.
Delivers ==
    /\ PlaceInv' /\ CopyInv'
    /\ NoCopies => [Delivery!Next]_(Delivery!vars)

-----------------------------------------------------------------------------
(* What a step makes of the places, and of what is promised. *)

LEMMA WaitingOf ==
    ASSUME NEW u \in Seq(Prompts), NEW controls \in Seq(Control), NEW q
    PROVE  {p \in Prompts : \/ p \in q \cup Range(u)
                            \/ \E i \in 1 .. Len(controls) : controls[i] = OnCopy(p)}
             = (q \cap Prompts) \cup Range(u) \cup {p \in Prompts : OnCopy(p) \in Range(controls)}
<1>1. Range(u) \subseteq Prompts
  BY RangeOfSeq
<1>2. \A p \in Prompts : OnCopy(p) \in Range(controls)
                           <=> \E i \in 1 .. Len(controls) : controls[i] = OnCopy(p)
  BY Members
<1> QED
  BY <1>1, <1>2

LEMMA WaitingIs ==
    /\ TypeOK => Waiting = Queued \cup Handed \cup Copied
    /\ TypeOK' => Waiting' = Queued' \cup Handed' \cup Copied'
<1>1. ASSUME TypeOK PROVE Waiting = Queued \cup Handed \cup Copied
  <2>1. rxUser \in Seq(Prompts) /\ rxControl \in Seq(Control)
    BY <1>1 DEF TypeOK, WireTypeOK
  <2> QED
    BY <2>1, WaitingOf DEF Waiting, Queued, Handed, Copied, OnCopy
<1>2. ASSUME TypeOK' PROVE Waiting' = Queued' \cup Handed' \cup Copied'
  <2>1. rxUser' \in Seq(Prompts) /\ rxControl' \in Seq(Control)
    BY <1>2 DEF TypeOK, WireTypeOK
  <2> QED
    BY <2>1, WaitingOf DEF Waiting, Queued, Handed, Copied, OnCopy
<1> QED
  BY <1>1, <1>2

\* Nothing joins a place and nothing that was promised changes.
LEMMA PlacesStay ==
    ASSUME TypeOK, TypeOK', PlaceInv, CopyInv,
           UNCHANGED <<landed, withdrawn, accepted, alive>>,
           Queued' \cup Handed' = Queued \cup Handed, Queued' \subseteq Queued,
           Queued' \cap Handed' = {},
           Once(queue', Prompts), Once(rxUser', Prompts),
           Copied' \subseteq Copied, Once(rxControl', OnCopies),
           autoGo' \notin Range(accepted)
    PROVE  Delivers
<1>1. PlaceInv' /\ CopyInv'
  BY DEF PlaceInv, CopyInv, Landed
<1>2. ASSUME NoCopies PROVE Waiting' = Waiting
  BY <1>1, <1>2, WaitingIs DEF CopyInv
<1>3. NoCopies => UNCHANGED Delivery!vars
  BY <1>2 DEF Delivery!vars
<1> QED
  BY <1>1, <1>3 DEF Delivers

\* A fresh message joins one place.
LEMMA PlaceTaken ==
    ASSUME TypeOK, TypeOK', PlaceInv, CopyInv, NEW p \in Prompts, p \notin Range(accepted),
           accepted' = Append(accepted, p), autoGo' \notin Range(accepted) \cup {p},
           UNCHANGED <<landed, withdrawn, alive>>,
           Once(queue', Prompts), Once(rxUser', Prompts), Once(rxControl', OnCopies),
           \/ Queued' = Queued \cup {p} /\ Handed' = Handed /\ Copied' = Copied
           \/ Queued' = Queued /\ Handed' = Handed \cup {p} /\ Copied' = Copied
           \/ Queued' = Queued /\ Handed' = Handed /\ Copied' = Copied \cup {p} /\ ~NoCopies
    PROVE  Delivers
<1>1. Range(accepted') = Range(accepted) \cup {p}
  BY AppendOnce DEF TypeOK, HubTypeOK
<1>2. p \notin Queued \cup Handed \cup Copied \cup Landed \cup withdrawn
  BY DEF PlaceInv
<1>3. PlaceInv'
  <2>1. Landed' = Landed
    BY DEF Landed
  <2> QED
    BY <1>1, <1>2, <2>1 DEF PlaceInv
<1>4. CopyInv'
  BY DEF CopyInv, NoCopies
<1>5. ASSUME NoCopies PROVE Delivery!Accept(p)
  <2>1. Waiting' = Waiting \cup {p}
    BY <1>5, WaitingIs
  <2>2. \A i \in 1 .. Len(landed) : landed[i] # p
    BY <1>2, Members DEF TypeOK, LoopTypeOK, Landed
  <2>3. p \notin Waiting \cup withdrawn
    BY <1>2, WaitingIs
  <2> QED
    BY <2>1, <2>2, <2>3 DEF Delivery!Accept, Delivery!Known
<1>6. NoCopies => Delivery!Next
  BY <1>5 DEF Delivery!Next
<1> QED
  BY <1>3, <1>4, <1>6 DEF Delivers

\* The loop reads some of what waits: the sequence of it joins the history.
LEMMA PlacesRead ==
    ASSUME TypeOK, TypeOK', PlaceInv, CopyInv, NEW ps \in Seq(Prompts), Once(ps, Prompts),
           landed' = landed \o ps, UNCHANGED <<withdrawn, accepted, autoGo, alive>>,
           Once(queue', Prompts), Once(rxUser', Prompts), Once(rxControl', OnCopies),
           Range(ps) \subseteq Queued \cup Handed \cup Copied,
           Queued' = Queued \ Range(ps), Handed' = Handed \ Range(ps),
           Copied' = Copied \ Range(ps)
    PROVE  Delivers
<1>1. landed \in Seq(Prompts)
  BY DEF TypeOK, LoopTypeOK
<1>2. Landed' = Landed \cup Range(ps)
  BY <1>1, RangeConcatenation DEF Landed
<1>3. PlaceInv'
  <2>1. Range(landed) \cap Range(ps) = {}
    BY DEF PlaceInv, Landed
  <2>2. Once(landed', Prompts)
    BY <1>1, <2>1, ConcatOnce DEF PlaceInv
  <2> QED
    BY <1>2, <2>2 DEF PlaceInv
<1>4. CopyInv'
  BY DEF CopyInv
<1>5. Waiting' = Waiting \ Range(ps) /\ Range(ps) \subseteq Waiting
  BY WaitingIs
<1>6. CASE ps = <<>>
  <2>1. landed' = landed /\ Range(ps) = {}
    BY <1>1, <1>6, EmptyOnce
  <2> QED
    BY <1>3, <1>4, <1>5, <2>1 DEF Delivers, Delivery!vars
<1>7. CASE ps # <<>>
  <2>1. /\ Len(landed') = Len(landed) + Len(ps) /\ Len(landed) \in Nat /\ Len(ps) \in Nat \ {0}
        /\ \A i \in 1 .. Len(ps) : landed'[Len(landed) + i] = ps[i]
    BY <1>1, <1>7
  <2>2. Len(landed') >= Len(landed) /\ SubSeq(landed', 1, Len(landed)) = landed
    BY <1>1, <2>1
  <2>3. \A i \in Len(landed) + 1 .. Len(landed') :
          i - Len(landed) \in 1 .. Len(ps) /\ landed'[i] = ps[i - Len(landed)]
    BY <2>1
  <2>4. {landed'[i] : i \in Len(landed) + 1 .. Len(landed')} = Range(ps)
    <3>1. ASSUME NEW i \in Len(landed) + 1 .. Len(landed') PROVE landed'[i] \in Range(ps)
      BY <2>3, Members
    <3>2. ASSUME NEW p \in Range(ps)
          PROVE  \E i \in Len(landed) + 1 .. Len(landed') : landed'[i] = p
      <4>1. PICK i \in 1 .. Len(ps) : ps[i] = p
        BY Members
      <4>2. Len(landed) + i \in Len(landed) + 1 .. Len(landed')
        BY <2>1
      <4> QED
        BY <2>1, <4>1, <4>2
    <3> QED
      BY <3>1, <3>2
  <2>5. ASSUME NEW i \in Len(landed) + 1 .. Len(landed'),
               NEW j \in Len(landed) + 1 .. Len(landed'), i # j
        PROVE  landed'[i] # landed'[j]
    <3>1. i - Len(landed) # j - Len(landed)
      BY <2>1, <2>5
    <3>2. ps[i - Len(landed)] \in Prompts
      BY <2>3
    <3> QED
      BY <2>3, <3>1, <3>2 DEF Once
  <2>6. Range(ps) # {}
    <3>1. 1 \in 1 .. Len(ps)
      BY <2>1
    <3> QED
      BY <3>1, Members
  <2>7. Delivery!Read
    BY <1>5, <2>2, <2>4, <2>5, <2>6 DEF Delivery!Read
  <2> QED
    BY <1>3, <1>4, <2>7 DEF Delivers, Delivery!Next
<1> QED
  BY <1>6, <1>7

\* The user takes back all that is queued.
LEMMA PlacesDropped ==
    ASSUME TypeOK, TypeOK', PlaceInv, CopyInv, DropQueue, UNCHANGED landed PROVE Delivers
<1>1. /\ queue' = <<>> /\ withdrawn' = withdrawn \cup (Range(queue) \ {Compact})
      /\ UNCHANGED <<rxUser, rxControl, accepted, autoGo, alive>>
  BY DEF DropQueue, wireVars
<1>2. Range(queue) \ {Compact} = Queued
  <2>1. Range(queue) \subseteq Prompts \cup {Compact}
    BY RangeOfSeq DEF TypeOK, HubTypeOK
  <2> QED
    BY <2>1, WireAssumption DEF Queued
<1>3. Queued' = {} /\ Once(queue', Prompts)
  BY <1>1, EmptyOnce DEF Queued
<1>4. UNCHANGED <<Handed, Copied, Landed>>
  BY <1>1 DEF Handed, Copied, Landed
<1>5. PlaceInv' /\ CopyInv'
  BY <1>1, <1>2, <1>3, <1>4 DEF PlaceInv, CopyInv
<1>6. Delivery!TakeBack
  <2>1. Waiting' = Waiting \ Queued /\ Queued \subseteq Waiting
    BY <1>3, <1>4, WaitingIs DEF PlaceInv
  <2> QED
    BY <1>1, <1>2, <2>1 DEF Delivery!TakeBack
<1> QED
  BY <1>5, <1>6 DEF Delivers, Delivery!Next

\* A death of the loop loses what was handed to it, and nothing else.
LEMMA PlacesLost ==
    ASSUME TypeOK, TypeOK', PlaceInv, CopyInv, Panic, UNCHANGED hubVars PROVE Delivers
<1>1. /\ rxUser' = <<>> /\ rxControl' = <<>> /\ alive /\ ~alive'
      /\ UNCHANGED <<queue, landed, withdrawn, accepted, autoGo>>
  BY DEF Panic, hubVars
<1>2. /\ Handed' = {} /\ Once(rxUser', Prompts)
      /\ Copied' = {} /\ Once(rxControl', OnCopies)
  BY <1>1, EmptyOnce DEF Handed, Copied
<1>3. UNCHANGED <<Queued, Landed>>
  BY <1>1 DEF Queued, Landed
<1>4. PlaceInv' /\ CopyInv'
  BY <1>1, <1>2, <1>3 DEF PlaceInv, CopyInv
<1>5. Delivery!Crash
  <2>1. Waiting' \in SUBSET Waiting
    BY <1>2, <1>3, WaitingIs
  <2> QED
    BY <1>1, <2>1 DEF Delivery!Crash
<1> QED
  BY <1>4, <1>5 DEF Delivers, Delivery!Next

-----------------------------------------------------------------------------
(* What the sequences hold after a step. *)

LEMMA QueueGrows ==
    ASSUME TypeOK, PlaceInv, NEW w \in Prompts \cup {Compact}, w \notin Queued, Enqueue(w)
    PROVE  Queued' = Queued \cup ({w} \cap Prompts) /\ Once(queue', Prompts)
<1>1. queue \in Seq(Prompts \cup {Compact}) /\ queue' = Append(queue, w)
  BY DEF TypeOK, HubTypeOK, Enqueue
<1>2. Range(queue') = Range(queue) \cup {w}
  BY <1>1, AppendOnce
<1>3. Once(queue', Prompts)
  BY <1>1, AppendOnce DEF PlaceInv, Queued
<1> QED
  BY <1>2, <1>3 DEF Queued

LEMMA HandedGrows ==
    ASSUME TypeOK, PlaceInv, NEW p \in Prompts, p \notin Handed, rxUser' = Append(rxUser, p)
    PROVE  Handed' = Handed \cup {p} /\ Once(rxUser', Prompts)
<1>1. rxUser \in Seq(Prompts)
  BY DEF TypeOK, WireTypeOK
<1> QED
  BY <1>1, AppendOnce DEF PlaceInv, Handed

LEMMA ControlsGrow ==
    ASSUME TypeOK, PlaceInv, NEW control \in Control, control \notin Range(rxControl) \cap OnCopies,
           rxControl' = Append(rxControl, control)
    PROVE  /\ Range(rxControl') = Range(rxControl) \cup {control}
           /\ Once(rxControl', OnCopies)
           /\ control \notin OnCopies => Copied' = Copied
<1>1. rxControl \in Seq(Control)
  BY DEF TypeOK, WireTypeOK
<1>2. Range(rxControl') = Range(rxControl) \cup {control} /\ Once(rxControl', OnCopies)
  BY <1>1, AppendOnce DEF PlaceInv
<1> QED
  BY <1>2 DEF Copied, OnCopies

LEMMA ControlsShrink ==
    ASSUME TypeOK, PlaceInv, rxControl # <<>>, rxControl' = Tail(rxControl)
    PROVE  /\ Range(rxControl) = Range(rxControl') \cup {Head(rxControl)}
           /\ Once(rxControl', OnCopies) /\ Copied' \subseteq Copied
           /\ Head(rxControl) \in OnCopies => Head(rxControl) \notin Range(rxControl')
<1>1. rxControl \in Seq(Control)
  BY DEF TypeOK, WireTypeOK
<1> QED
  BY <1>1, TailOnce DEF PlaceInv, Copied

-----------------------------------------------------------------------------
(* The user's steps. *)

LEMMA SendDelivers ==
    ASSUME TypeOK, TypeOK', PlaceInv, CopyInv, NEW p \in Prompts, p \notin Range(accepted), Send(p),
           autoGo' \notin Range(accepted) \cup {p},
           UNCHANGED <<landed, withdrawn, alive, rxControl>>
    PROVE  Delivers
<1>1. UNCHANGED Copied /\ Once(rxControl', OnCopies)
  BY DEF Copied, PlaceInv
<1>2. p \notin Queued \cup Handed
  BY DEF PlaceInv
<1>3. CASE working
  <2>1. accepted' = Append(accepted, p) /\ Enqueue(p) /\ UNCHANGED rxUser
    BY <1>3 DEF Send
  <2>2. Queued' = Queued \cup {p} /\ Once(queue', Prompts)
    BY <1>2, <2>1, QueueGrows
  <2>3. UNCHANGED Handed /\ Once(rxUser', Prompts)
    BY <2>1 DEF Handed, PlaceInv
  <2> QED
    BY <1>1, <2>1, <2>2, <2>3, PlaceTaken
<1>4. CASE ~working /\ UserRoom
  <2>1. accepted' = Append(accepted, p) /\ rxUser' = Append(rxUser, p) /\ UNCHANGED queue
    BY <1>4 DEF Send
  <2>2. Handed' = Handed \cup {p} /\ Once(rxUser', Prompts)
    BY <1>2, <2>1, HandedGrows
  <2>3. UNCHANGED Queued /\ Once(queue', Prompts)
    BY <2>1 DEF Queued, PlaceInv
  <2> QED
    BY <1>1, <2>1, <2>2, <2>3, PlaceTaken
<1>5. CASE ~working /\ ~UserRoom
  <2>1. UNCHANGED <<queue, rxUser, accepted>>
    BY <1>5 DEF Send
  <2>2. UNCHANGED <<Queued, Handed>> /\ Once(queue', Prompts) /\ Once(rxUser', Prompts)
    BY <2>1 DEF Queued, Handed, PlaceInv
  <2>3. Queued' \cap Handed' = {}
    BY <2>2 DEF PlaceInv
  <2> QED
    BY <1>1, <2>1, <2>2, <2>3, PlacesStay
<1> QED
  BY <1>3, <1>4, <1>5

\* The common case: no channel, queue or history a message can be in changes.
LEMMA PlacesUntouched ==
    ASSUME TypeOK, TypeOK', PlaceInv, CopyInv,
           UNCHANGED <<queue, rxUser, landed, withdrawn, accepted, alive>>,
           autoGo' \notin Range(accepted),
           Copied' \subseteq Copied, Once(rxControl', OnCopies)
    PROVE  Delivers
<1>1. UNCHANGED <<Queued, Handed>> /\ Once(queue', Prompts) /\ Once(rxUser', Prompts)
  BY DEF Queued, Handed, PlaceInv
<1>2. Queued' \cap Handed' = {}
  BY <1>1 DEF PlaceInv
<1> QED
  BY <1>1, <1>2, PlacesStay

LEMMA NothingMoves ==
    ASSUME TypeOK, TypeOK', PlaceInv, CopyInv,
           UNCHANGED <<queue, rxUser, rxControl, landed, withdrawn, accepted, alive, autoGo>>
    PROVE  Delivers
<1>1. Copied' = Copied /\ Once(rxControl', OnCopies)
  BY DEF Copied, PlaceInv
<1> QED
  BY <1>1, PlacesUntouched DEF PlaceInv

\* A control joins the channel that is not a message.
LEMMA ControlPosted ==
    ASSUME TypeOK, TypeOK', PlaceInv, CopyInv, NEW control \in Control, control.op # "forked",
           rxControl' = rxControl \/ rxControl' = Append(rxControl, control),
           UNCHANGED <<queue, rxUser, landed, withdrawn, accepted, alive, autoGo>>
    PROVE  Delivers
<1>1. control \notin OnCopies
  BY DEF OnCopies, OnCopy
<1>2. CASE rxControl' = rxControl
  BY <1>2, NothingMoves
<1>3. CASE rxControl' = Append(rxControl, control)
  BY <1>1, <1>3, ControlsGrow, PlacesUntouched DEF PlaceInv
<1> QED
  BY <1>2, <1>3

LEMMA UserSendsDelivers ==
    ASSUME TypeOK, TypeOK', PlaceInv, CopyInv, UserSends PROVE Delivers
<1>1. UNCHANGED landed
  BY DEF UserSends, loopVars
<1>2. autoGo \notin Range(accepted)
  BY DEF PlaceInv
<1>3. ASSUME NEW p \in Prompts, Submit(p) PROVE Delivers
  BY <1>1, <1>2, <1>3, SendDelivers DEF Submit, Fresh, Kept
<1>4. ASSUME NEW p \in Prompts, SubmitAutomatic(p) PROVE Delivers
  <2>1. /\ p \notin Range(accepted) /\ autoGo = None
        /\ UNCHANGED <<rxUser, rxControl, withdrawn, alive>>
    BY <1>4 DEF SubmitAutomatic, Fresh, Kept, wireVars
  <2>2. UNCHANGED <<Handed, Copied>> /\ Once(rxUser', Prompts) /\ Once(rxControl', OnCopies)
    BY <2>1 DEF Handed, Copied, PlaceInv
  <2>3. CASE held
    <3>1. Enqueue(p) /\ accepted' = Append(accepted, p) /\ UNCHANGED autoGo
      BY <1>4, <2>3 DEF SubmitAutomatic
    <3>2. p \notin Queued
      BY <2>1 DEF PlaceInv
    <3>3. Queued' = Queued \cup {p} /\ Once(queue', Prompts)
      BY <3>1, <3>2, QueueGrows
    <3>4. autoGo' \notin Range(accepted) \cup {p}
      BY <1>2, <2>1, <3>1, WireAssumption
    <3> QED
      BY <1>1, <2>1, <2>2, <3>1, <3>3, <3>4, PlaceTaken
  <2>4. CASE ~held
    BY <1>1, <1>4, <2>1, <2>2, <2>4, PlacesUntouched DEF SubmitAutomatic
  <2> QED
    BY <2>3, <2>4
<1>5. ASSUME SubmitReleased PROVE Delivers
  <2>1. /\ autoGo \in Prompts /\ autoGo' = None /\ Send(autoGo)
        /\ UNCHANGED <<withdrawn, alive, rxControl>>
    BY <1>5, WireAssumption DEF SubmitReleased, Kept, TypeOK, HubTypeOK
  <2>2. Range(accepted) \subseteq Prompts
    BY RangeOfSeq DEF TypeOK, HubTypeOK
  <2>3. autoGo' \notin Range(accepted) \cup {autoGo}
    BY <2>1, <2>2, WireAssumption
  <2> QED
    BY <1>1, <1>2, <2>1, <2>3, SendDelivers
<1>6. ASSUME RejectPending \/ \E answer \in {"accept", "reject"} : Answer(answer)
      PROVE  Delivers
  BY <1>1, <1>6, NothingMoves DEF RejectPending, Answer, HubBut, chanVars
<1> QED
  BY <1>3, <1>4, <1>5, <1>6 DEF UserSends

LEMMA UserDoesDelivers ==
    ASSUME TypeOK, TypeOK', PlaceInv, CopyInv, UserDoes PROVE Delivers
<1>1. UNCHANGED landed
  BY DEF UserDoes, loopVars
<1>2. ASSUME DropQueue PROVE Delivers
  BY <1>1, <1>2, PlacesDropped
<1>3. ASSUME NEW op \in TurnControls, StartControl(op) PROVE Delivers
  <2>1. Plain(op) \in Control /\ Plain(op).op # "forked"
    BY PlainTyped DEF Plain, PlainControls, TurnControls
  <2> QED
    BY <1>1, <1>3, <2>1, ControlPosted DEF StartControl, StartTurn, HubRest
<1>4. ASSUME Does("forked"), NEW p \in Prompts, SubmitForked(p) PROVE Delivers
  <2>1. /\ p \notin Range(accepted) /\ p # autoGo /\ ~NoCopies
        /\ UNCHANGED <<queue, rxUser, withdrawn, alive, autoGo>>
    BY <1>4 DEF SubmitForked, StartTurn, HubRest, Fresh, Does, NoCopies
  <2>2. CASE ControlRoom
    <3>1. rxControl' = Append(rxControl, OnCopy(p)) /\ accepted' = Append(accepted, p)
      BY <1>4, <2>2 DEF SubmitForked, StartTurn, OnCopy
    <3>2. OnCopy(p) \in Control /\ OnCopy(p) \notin Range(rxControl)
      BY <2>1 DEF OnCopy, Control, PlaceInv, Copied
    <3>3. Range(rxControl') = Range(rxControl) \cup {OnCopy(p)} /\ Once(rxControl', OnCopies)
      BY <3>1, <3>2, ControlsGrow
    <3>4. Copied' = Copied \cup {p}
      BY <3>3 DEF Copied, OnCopy
    <3>5. UNCHANGED <<Queued, Handed>> /\ Once(queue', Prompts) /\ Once(rxUser', Prompts)
      BY <2>1 DEF Queued, Handed, PlaceInv
    <3>6. autoGo' \notin Range(accepted) \cup {p}
      BY <2>1 DEF PlaceInv
    <3> QED
      BY <1>1, <2>1, <3>1, <3>3, <3>4, <3>5, <3>6, PlaceTaken
  <2>3. CASE ~ControlRoom
    BY <1>1, <1>4, <2>1, <2>3, NothingMoves DEF SubmitForked, StartTurn
  <2> QED
    BY <2>2, <2>3
<1>5. ASSUME AskCompact PROVE Delivers
  <2>1. Plain("compact") \in Control /\ Plain("compact").op # "forked"
    BY PlainTyped DEF Plain, PlainControls
  <2>2. CASE Enqueue(Compact) /\ HubRest /\ UNCHANGED <<accepted, wireVars>>
    <3>1. UNCHANGED <<rxUser, rxControl, withdrawn, alive, autoGo, accepted>>
      BY <2>2 DEF HubRest, wireVars
    <3>2. Queued' = Queued /\ Once(queue', Prompts)
      BY <2>2, QueueGrows, WireAssumption DEF Queued
    <3>3. UNCHANGED <<Handed, Copied>> /\ Once(rxUser', Prompts) /\ Once(rxControl', OnCopies)
      BY <3>1 DEF Handed, Copied, PlaceInv
    <3>4. Queued' \cap Handed' = {}
      BY <3>2, <3>3 DEF PlaceInv
    <3> QED
      BY <1>1, <3>1, <3>2, <3>3, <3>4, PlacesStay DEF PlaceInv
  <2>3. CASE StartTurn(Plain("compact")) /\ UNCHANGED <<queue, accepted>>
    BY <1>1, <2>1, <2>3, ControlPosted DEF StartTurn, HubRest
  <2> QED
    BY <1>5, <2>2, <2>3 DEF AskCompact
<1>6. ASSUME NEW m \in Models, SetModel(m) PROVE Delivers
  <2>1. [op |-> "model", arg |-> m] \in Control
    BY DEF Control
  <2> QED
    BY <1>1, <1>6, <2>1, ControlPosted DEF SetModel, Post, HubRest
<1>7. ASSUME NEW op \in GoalCommands \cup {"clear"}, Post(Plain(op)), HubRest,
             UNCHANGED <<queue, accepted>>
      PROVE  Delivers
  <2>1. Plain(op) \in Control /\ Plain(op).op # "forked"
    BY PlainTyped DEF Plain, PlainControls, GoalCommands
  <2> QED
    BY <1>1, <1>7, <2>1, ControlPosted DEF Post, HubRest
<1>8. ASSUME Clear \/ \E command \in GoalCommands : SetGoal(command) PROVE Delivers
  BY <1>7, <1>8 DEF Clear, SetGoal
<1>9. ASSUME NEW c \in Children, InterruptChild(c) PROVE Delivers
  BY <1>1, <1>9, NothingMoves DEF InterruptChild, hubVars, chanVars
<1>10. ASSUME Interrupt PROVE Delivers
  BY <1>1, <1>10, NothingMoves DEF Interrupt, HubBut, wireVars
<1> QED
  BY <1>2, <1>3, <1>4, <1>5, <1>6, <1>8, <1>9, <1>10 DEF UserDoes

LEMMA UserInterruptsDelivers ==
    ASSUME TypeOK, TypeOK', PlaceInv, CopyInv, UserInterrupts PROVE Delivers
  BY NothingMoves DEF UserInterrupts, StopTurn, StopChildren, HubBut, chanVars, loopVars

-----------------------------------------------------------------------------
(* The pump. *)

\* The end of a turn hands the loop what waits behind it.
LEMMA OnTurnEndDelivers ==
    ASSUME TypeOK, TypeOK', PlaceInv, CopyInv, OnTurnEnd, UNCHANGED landed PROVE Delivers
<1>1. UNCHANGED <<withdrawn, accepted, autoGo, alive>> /\ autoGo \notin Range(accepted)
  BY DEF OnTurnEnd, Pumped, PlaceInv
<1>2. CASE UNCHANGED <<queue, rxUser, rxControl>>
  BY <1>1, <1>2, NothingMoves
<1>3. ASSUME queue # <<>>, queue' = Tail(queue)
      PROVE  /\ Range(queue) = Range(queue') \cup {Head(queue)} /\ Once(queue', Prompts)
             /\ Head(queue) \in Prompts \cup {Compact}
             /\ Head(queue) \in Prompts => Head(queue) \notin Queued'
  <2>1. queue \in Seq(Prompts \cup {Compact})
    BY DEF TypeOK, HubTypeOK
  <2> QED
    BY <1>3, <2>1, TailOnce DEF PlaceInv, Queued
<1>4. CASE /\ queue # <<>> /\ Head(queue) = Compact /\ queue' = Tail(queue)
           /\ rxControl' = Append(rxControl, Plain("compact")) /\ UNCHANGED rxUser
  <2>1. Plain("compact") \in Control /\ Plain("compact") \notin OnCopies
    BY PlainTyped DEF Plain, PlainControls, OnCopies, OnCopy
  <2>2. Copied' = Copied /\ Once(rxControl', OnCopies)
    BY <1>4, <2>1, ControlsGrow
  <2>3. Queued' = Queued /\ Once(queue', Prompts)
    BY <1>3, <1>4, WireAssumption DEF Queued
  <2>4. UNCHANGED Handed /\ Once(rxUser', Prompts)
    BY <1>4 DEF Handed, PlaceInv
  <2>5. Queued' \cap Handed' = {}
    BY <2>3, <2>4 DEF PlaceInv
  <2> QED
    BY <1>1, <2>2, <2>3, <2>4, <2>5, PlacesStay
<1>5. CASE /\ queue # <<>> /\ Head(queue) # Compact /\ queue' = Tail(queue)
           /\ rxUser' = Append(rxUser, Head(queue)) /\ UNCHANGED rxControl
  <2>1. PICK p \in Prompts : p = Head(queue)
    BY <1>3, <1>5
  <2>2. /\ Queued = Queued' \cup {p} /\ p \notin Queued' /\ Once(queue', Prompts)
    BY <1>3, <1>5, <2>1 DEF Queued
  <2>3. Handed' = Handed \cup {p} /\ Once(rxUser', Prompts)
    BY <1>5, <2>1, <2>2, HandedGrows DEF PlaceInv
  <2>4. UNCHANGED Copied /\ Once(rxControl', OnCopies)
    BY <1>5 DEF Copied, PlaceInv
  <2>5. Queued' \cap Handed' = {}
    BY <2>2, <2>3 DEF PlaceInv
  <2> QED
    BY <1>1, <2>2, <2>3, <2>4, <2>5, PlacesStay
<1> QED
  BY <1>2, <1>4, <1>5 DEF OnTurnEnd, Quiet

LEMMA PumpsDelivers ==
    ASSUME TypeOK, TypeOK', PlaceInv, CopyInv, Pumps PROVE Delivers
<1>1. UNCHANGED landed
  BY DEF Pumps, loopVars
<1>2. CASE OnTurnEnd
  BY <1>1, <1>2, OnTurnEndDelivers
<1>3. CASE OnApproval \/ OnResumed \/ OnAuthFailed \/ OnOther
  <2>1. UNCHANGED <<queue, rxUser, rxControl, withdrawn, accepted, alive, autoGo>>
    BY <1>3 DEF OnApproval, OnResumed, OnAuthFailed, OnOther, Pumped, Quiet, HubBut
  <2> QED
    BY <1>1, <2>1, NothingMoves
<1> QED
  BY <1>2, <1>3 DEF Pumps, Pump

-----------------------------------------------------------------------------
(* The loop's steps. *)

LEMMA TakePromptDelivers ==
    ASSUME TypeOK, TypeOK', PlaceInv, CopyInv, TakePrompt, UNCHANGED hubVars PROVE Delivers
<1>1. /\ rxUser \in Seq(Prompts) /\ rxUser # <<>> /\ rxUser' = Tail(rxUser)
      /\ landed \in Seq(Prompts) /\ landed' = Append(landed, Head(rxUser))
      /\ UNCHANGED <<queue, rxControl, withdrawn, accepted, autoGo, alive>>
  BY DEF TypeOK, WireTypeOK, LoopTypeOK, TakePrompt, hubVars
<1>2. PICK p \in Prompts : p = Head(rxUser)
  BY <1>1
<1>3. Handed = Handed' \cup {p} /\ p \notin Handed' /\ Once(rxUser', Prompts)
  BY <1>1, <1>2, TailOnce DEF PlaceInv, Handed
<1>4. /\ UNCHANGED <<Queued, Copied>> /\ Once(queue', Prompts) /\ Once(rxControl', OnCopies)
      /\ p \notin Queued \cup Copied
  BY <1>1, <1>3 DEF Queued, Copied, PlaceInv
<1>5. PICK ps \in Seq(Prompts) : ps = <<p>>
  <2>1. <<p>> \in Seq(Prompts)
    OBVIOUS
  <2> QED
    BY <2>1
<1>6. Range(ps) = {p} /\ Once(ps, Prompts)
  BY <1>5, OneRange, OneOnce
<1>7. landed' = landed \o ps
  BY <1>1, <1>2, <1>5
<1> QED
  BY <1>1, <1>3, <1>4, <1>6, <1>7, PlacesRead

LEMMA TakeForkedDelivers ==
    ASSUME TypeOK, TypeOK', PlaceInv, CopyInv, TakeForked, UNCHANGED hubVars PROVE Delivers
<1>1. /\ rxControl \in Seq(Control) /\ rxControl # <<>> /\ rxControl' = Tail(rxControl)
      /\ Head(rxControl) \in Control /\ Head(rxControl).op = "forked"
      /\ UNCHANGED <<queue, rxUser, withdrawn, accepted, autoGo, alive>>
  BY TakesControlTyped DEF TypeOK, WireTypeOK, TakeForked, TakesControl, hubVars
<1>2. PICK p \in Prompts : p = Head(rxControl).arg
  BY <1>1, ControlCarries
<1>3. Head(rxControl) = OnCopy(p)
  BY <1>1, <1>2 DEF Control, PlainControls, GoalCommands, TurnControls, OnCopy
<1>4. /\ Range(rxControl) = Range(rxControl') \cup {OnCopy(p)}
      /\ OnCopy(p) \notin Range(rxControl') /\ Once(rxControl', OnCopies)
  BY <1>1, <1>3, ControlsShrink DEF OnCopies
<1>5. Copied = Copied' \cup {p} /\ p \notin Copied'
  BY <1>4 DEF Copied, OnCopy
<1>6. /\ UNCHANGED <<Queued, Handed>> /\ Once(queue', Prompts) /\ Once(rxUser', Prompts)
      /\ p \notin Queued \cup Handed
  BY <1>1, <1>5 DEF Queued, Handed, PlaceInv
<1>7. CASE landed' = landed
  BY <1>1, <1>4, <1>5, <1>7, PlacesUntouched DEF PlaceInv
<1>8. CASE landed' = Append(landed, Head(rxControl).arg)
  <2>1. PICK ps \in Seq(Prompts) : ps = <<p>>
    <3>1. <<p>> \in Seq(Prompts)
      OBVIOUS
    <3> QED
      BY <3>1
  <2>2. Range(ps) = {p} /\ Once(ps, Prompts)
    BY <2>1, OneRange, OneOnce
  <2>3. landed' = landed \o ps
    <3>1. landed \in Seq(Prompts)
      BY DEF TypeOK, LoopTypeOK
    <3>2. landed' = Append(landed, p)
      BY <1>2, <1>8
    <3> QED
      BY <2>1, <3>1, <3>2
  <2> QED
    BY <1>1, <1>4, <1>5, <1>6, <2>2, <2>3, PlacesRead
<1> QED
  BY <1>7, <1>8 DEF TakeForked

LEMMA ReadsDelivers ==
    ASSUME TypeOK, TypeOK', PlaceInv, CopyInv, Reads PROVE Delivers
<1>1. PICK n \in 0 .. Len(queue) :
        TakeQueued(n) /\ (Step(SubSeq(queue, 1, n)) \/ Answers(SubSeq(queue, 1, n)))
  BY DEF Reads
<1>2. /\ queue' = SubSeq(queue, n + 1, Len(queue)) /\ landed' = landed \o SubSeq(queue, 1, n)
      /\ UNCHANGED <<rxUser, rxControl, withdrawn, accepted, autoGo, alive>>
  BY <1>1 DEF TakeQueued, Step, Answers, OffWire
<1>3. PICK ps \in Seq(Prompts) : ps = SubSeq(queue, 1, n)
  BY <1>1, TakeQueuedTyped DEF TypeOK
<1>4. queue \in Seq(Prompts \cup {Compact})
  BY DEF TypeOK, HubTypeOK
<1>5. /\ Range(queue) = Range(ps) \cup Range(queue')
      /\ Once(ps, Prompts) /\ Once(queue', Prompts)
      /\ Range(ps) \cap Range(queue') \cap Prompts = {}
  BY <1>2, <1>3, <1>4, SplitOnce DEF PlaceInv
<1>6. Range(ps) \subseteq Prompts
  BY <1>3, RangeOfSeq
<1>7. Queued' = Queued \ Range(ps) /\ Range(ps) \subseteq Queued
  BY <1>5, <1>6 DEF Queued
<1>8. /\ UNCHANGED <<Handed, Copied>> /\ Once(rxUser', Prompts) /\ Once(rxControl', OnCopies)
      /\ Handed \cap Range(ps) = {} /\ Copied \cap Range(ps) = {}
  BY <1>2, <1>7 DEF Handed, Copied, PlaceInv
<1> QED
  BY <1>2, <1>3, <1>5, <1>7, <1>8, PlacesRead

\* A control taken that is not a message, or a message refused mid-turn.
LEMMA ControlDelivers ==
    ASSUME TypeOK, TypeOK', PlaceInv, CopyInv, UNCHANGED hubVars,
           rxControl # <<>>, rxControl' = Tail(rxControl), UNCHANGED <<rxUser, landed, alive>>
    PROVE  Delivers
<1>1. Copied' \subseteq Copied /\ Once(rxControl', OnCopies)
  BY ControlsShrink
<1> QED
  BY <1>1, PlacesUntouched DEF PlaceInv, hubVars

LEMMA LoopDelivers == ASSUME TypeOK, TypeOK', PlaceInv, CopyInv, Loop PROVE Delivers
<1>1. CASE Reads
  BY <1>1, ReadsDelivers
<1>2. CASE ~Reads
  <2>1. UNCHANGED hubVars
    BY <1>2 DEF Loop, Opens, Ends, Steers, Works
  <2>2. CASE UNCHANGED <<rxUser, rxControl, landed, alive>>
    BY <2>1, <2>2, NothingMoves DEF hubVars
  <2>3. CASE rxControl # <<>> /\ rxControl' = Tail(rxControl) /\ UNCHANGED <<rxUser, landed, alive>>
    BY <2>1, <2>3, ControlDelivers
  <2>4. CASE Opens
    <3>1. CASE TakePrompt \/ TakeForked
      BY <2>1, <3>1, TakePromptDelivers, TakeForkedDelivers
    <3>2. CASE TakeRetry
      BY <2>3, <3>2 DEF TakeRetry, TakesControl
    <3>3. CASE TakeReport \/ TakeGoal
      BY <2>2, <3>3 DEF TakeReport, TakeGoal
    <3> QED
      BY <2>4, <3>1, <3>2, <3>3 DEF Opens
  <2>5. CASE Ends
    BY <2>1, <2>2, <2>5, PlacesLost DEF Ends, EndTurn
  <2>6. CASE Steers
    BY <2>2, <2>3, <2>6 DEF Steers, TakeGoalCommand, TakeClear, GoalTool, ControlMidTurn,
                            TakesControl, wireVars
  <2>7. CASE Works
    <3>1. CASE TakeCompact \/ TakeAside \/ TakeModel \/ ControlMidTurn
      BY <2>3, <3>1 DEF TakeCompact, TakeAside, TakeModel, ControlMidTurn, TakesControl
    <3>2. CASE StartFork \/ EndFork \/ CallEnds \/ Ask \/ Answered \/ ToolsDone \/ After
      BY <2>2, <3>2 DEF StartFork, EndFork, CallEnds, Ask, Answered, ToolsDone, After,
                        Returned, OffWire, wireVars
    <3>3. CASE Close \/ Mark \/ EndCompaction \/ Watch
      BY <2>2, <3>3 DEF Close, Mark, EndCompaction, Watch, Ended
    <3>4. CASE \E c \in Children : Spawn(c) \/ Joins(c)
      BY <2>2, <3>4 DEF Spawn, Joins, Born, OffWire
    <3> QED
      BY <2>7, <3>1, <3>2, <3>3, <3>4 DEF Works
  <2> QED
    BY <1>2, <2>4, <2>5, <2>6, <2>7 DEF Loop
<1> QED
  BY <1>1, <1>2

LEMMA ChildDelivers ==
    ASSUME TypeOK, TypeOK', PlaceInv, CopyInv, NEW c \in Children, ChildWorks(c) PROVE Delivers
<1>1. UNCHANGED hubVars /\ UNCHANGED <<rxUser, rxControl, landed, alive>>
  BY DEF ChildWorks, ChildStep, ChildStart, ChildAsk, ChildAnswered, ChildEnd, ChildReport,
         ChildOnly, loopVars
<1> QED
  BY <1>1, NothingMoves DEF hubVars

LEMMA StepDelivers == ASSUME TypeOK, PlaceInv, CopyInv, [Next]_vars PROVE Delivers
<1>1. TypeOK'
  BY NextTyped
<1>2. CASE UNCHANGED vars
  BY <1>1, <1>2, NothingMoves DEF vars, wireVars, hubVars, loopVars
<1> QED
  BY <1>1, <1>2, UserSendsDelivers, UserDoesDelivers, UserInterruptsDelivers, PumpsDelivers,
     LoopDelivers, ChildDelivers DEF Next

LEMMA DeliveryStarts == Init => PlaceInv /\ CopyInv /\ Delivery!Init
<1> SUFFICES ASSUME Init PROVE PlaceInv /\ CopyInv /\ Delivery!Init
  OBVIOUS
<1>1. /\ queue = <<>> /\ rxUser = <<>> /\ rxControl = <<>> /\ landed = <<>> /\ accepted = <<>>
      /\ withdrawn = {} /\ alive = TRUE
  BY DEF Init, WireInit, HubInit, LoopInit
<1>2. Queued = {} /\ Handed = {} /\ Copied = {} /\ Landed = {} /\ Range(accepted) = {}
  BY <1>1, EmptyOnce DEF Queued, Handed, Copied, Landed
<1>3. PlaceInv /\ CopyInv
  BY <1>1, <1>2, EmptyOnce DEF PlaceInv, CopyInv
<1>4. Delivery!Init
  BY <1>1, <1>2, InitTyped, WaitingIs DEF Delivery!Init
<1> QED
  BY <1>3, <1>4

\* No message is in two places at once, read twice, or read after it was taken back,
\* whatever is sent, queued, refused, taken back or lost: for every operation of the user,
\* those onto a compacted copy included (session.rs queue, take_queued, start_queued).
THEOREM OnePlaceEach == Spec => []PlaceInv
<1>1. Init => PlaceInv /\ CopyInv
  BY DeliveryStarts
<1>2. TypeOK /\ PlaceInv /\ CopyInv /\ [Next]_vars => PlaceInv' /\ CopyInv'
  BY StepDelivers DEF Delivers
<1> QED
  BY <1>1, <1>2, TypeCorrect, PTL DEF Spec

\* A session implements PromptDelivery: every message accepted is read exactly once, in a
\* step that reads it and no other, unless it is taken back first or the agent dies; for
\* every number of messages, children, models, crashes and every capacity, as long as none
\* is sent onto a compacted copy.
THEOREM Delivered == ASSUME NoCopies PROVE Spec => EveryPromptDelivered
<1>1. Init => PlaceInv /\ CopyInv /\ Delivery!Init
  BY DeliveryStarts
<1>2. TypeOK /\ PlaceInv /\ CopyInv /\ [Next]_vars => PlaceInv' /\ CopyInv'
  BY StepDelivers DEF Delivers
<1>3. TypeOK /\ PlaceInv /\ CopyInv /\ [Next]_vars => [Delivery!Next]_(Delivery!vars)
  BY StepDelivers DEF Delivers
<1> QED
  BY <1>1, <1>2, <1>3, TypeCorrect, PTL DEF Spec, EveryPromptDelivered, Delivery!Spec

-----------------------------------------------------------------------------
(* The turns.  There is never more than one turn asked for, run or to be ended, and the     *)
(* session is marked for it.                                                                 *)

\* Nothing opens a turn but what the user types: no child can report, no goal is set.
\* A turn that opens on its own is one the session hears of only later, so nothing it
\* refuses while it works is refused meanwhile (agent.rs Resumed, session.rs on_agent).
OnlyTyped == Children = {} /\ GoalCommands \cap Ops = {} /\ ~CanAdopt

\* What is said that neither marks nor unmarks the session.
Chats ==
    \/ events' = events
    \/ \E e \in Event : e.kind \notin {"turnend", "resumed"} /\ events' = events \o <<e>>
Hears == events # <<>> /\ events' = Tail(events)
EndSaid == Say("turnend") \in Range(events)

\* No goal, and none asked for.
QuietInv ==
    /\ goal = "none" /\ ~wake
    /\ Say("resumed") \notin Range(events)
    /\ \A control \in Range(rxControl) : control.op \notin GoalCommands

\* Of the turns asked of the loop, the one it runs and the ends it told there is at
\* most one, the last control asked for if it is one, and the session is marked for it.
TokenInv ==
    /\ LoopBusy \/ EndSaid => rxUser = <<>> /\ rxControl = <<>>
    /\ LoopBusy => ~EndSaid
    /\ Once(events, {Say("turnend")})
    /\ Len(rxUser) <= 1
    /\ rxUser # <<>> => ~AsksTurn(rxControl)
    /\ \A i \in 1 .. Len(rxControl) :
           rxControl[i].op \in TurnControls \cup {"compact", "forked"} => i = Len(rxControl)
    /\ LoopBusy \/ EndSaid \/ rxUser # <<>> \/ AsksTurn(rxControl) => working

\* The last switch asked for, and without one the model in force, is what is shown.
Switches(asked) == {i \in 1 .. Len(asked) : asked[i].op = "model"}
SwitchInv ==
    /\ Switches(rxControl) = {} => model = shownModel
    /\ \A i \in Switches(rxControl) :
           (\A j \in Switches(rxControl) : j <= i) => rxControl[i].arg = shownModel

\* What an interrupt was accepted for is still to run or runs, with the flag up.
CutInv ==
    /\ cut \subseteq Range(rxUser) \cup (IF LoopBusy THEN {Main} ELSE {})
    /\ cut # {} => stop

\* One message was accepted before another, and so were those of a sequence.
Before(given, p, q) ==
    \E k, l \in 1 .. Len(given) : k < l /\ given[k] = p /\ given[l] = q
Sorted(s, given) ==
    \A i, j \in 1 .. Len(s) :
        i < j /\ s[i] \in Prompts /\ s[j] \in Prompts => Before(given, s[i], s[j])

\* What was read was accepted before what is handed over, and that before what waits.
OrderInv ==
    /\ ~held
    /\ queue # <<>> => working
    /\ Sorted(queue, accepted)
    /\ \A p \in Landed, q \in Queued \cup Handed \cup Copied : Before(accepted, p, q)
    /\ \A p \in Handed \cup Copied, q \in Queued : Before(accepted, p, q)

TurnInv ==
    /\ wasHeld \/ Sorted(landed, accepted)
    /\ alive => TokenInv /\ SwitchInv /\ CutInv /\ (wasHeld \/ OrderInv)

-----------------------------------------------------------------------------
(* What is said. *)

LEMMA SaysKind ==
    ASSUME NEW kind \in EventKinds \ ChildEvents, NEW who \in Askers
    PROVE  SayOf(kind, who) \in Event /\ SayOf(kind, who).kind = kind
  BY DEF SayOf, Event

LEMMA SayChats ==
    ASSUME NEW kind \in EventKinds \ (ChildEvents \cup {"turnend", "resumed"}),
           Says(<<Say(kind)>>) \/ Says(<<SayOf(kind, Main)>>)
    PROVE  Chats
<1>1. /\ SayOf(kind, Main) \in Event /\ SayOf(kind, Main).kind = kind
      /\ Say(kind) = SayOf(kind, Main)
  BY SaysKind DEF Askers, Say, SayOf
<1> QED
  BY <1>1 DEF Says, Chats

LEMMA ForkChats == ASSUME events \in Seq(Event), DropFork PROVE Chats
<1>1. CASE fork
  BY <1>1, SayChats DEF DropFork, EventKinds, ChildEvents
<1>2. CASE ~fork
  BY <1>2 DEF DropFork, Says, Chats
<1> QED
  BY <1>1, <1>2

LEMMA ChatsTell ==
    ASSUME events \in Seq(Event), Chats
    PROVE  /\ Say("resumed") \in Range(events') <=> Say("resumed") \in Range(events)
           /\ EndSaid' <=> EndSaid
           /\ Once(events, {Say("turnend")}) => Once(events', {Say("turnend")})
<1>1. CASE events' = events
  BY <1>1 DEF EndSaid
<1>2. ASSUME NEW e \in Event, e.kind \notin {"turnend", "resumed"}, events' = events \o <<e>>
      PROVE  /\ Say("resumed") \in Range(events') <=> Say("resumed") \in Range(events)
             /\ EndSaid' <=> EndSaid
             /\ Once(events, {Say("turnend")}) => Once(events', {Say("turnend")})
  <2>1. e # Say("turnend") /\ e # Say("resumed")
    BY <1>2 DEF Say
  <2>2. events' = Append(events, e)
    BY <1>2
  <2>3. Range(events') = Range(events) \cup {e}
    BY <2>2, AppendOnce
  <2>4. Once(events, {Say("turnend")}) => Once(events', {Say("turnend")})
    BY <2>1, <2>2, AppendOnce
  <2> QED
    BY <2>1, <2>3, <2>4 DEF EndSaid
<1> QED
  BY <1>1, <1>2 DEF Chats

LEMMA HearsTell ==
    ASSUME events \in Seq(Event), Hears
    PROVE  /\ Say("resumed") \in Range(events') => Say("resumed") \in Range(events)
           /\ EndSaid' => EndSaid
           /\ Once(events, {Say("turnend")}) =>
                /\ Once(events', {Say("turnend")})
                /\ Head(events) = Say("turnend") => ~EndSaid'
           /\ Head(events) \in Range(events)
  BY TailOnce DEF Hears, EndSaid

LEMMA EndTells ==
    ASSUME events \in Seq(Event), Says(<<Say("turnend")>>), ~EndSaid,
           Once(events, {Say("turnend")})
    PROVE  /\ Say("resumed") \in Range(events') <=> Say("resumed") \in Range(events)
           /\ EndSaid' /\ Once(events', {Say("turnend")})
<1>1. Say("turnend") \in Event /\ Say("turnend") # Say("resumed")
  BY DEF Say, Event, EventKinds, ChildEvents, Askers
<1>2. events' = Append(events, Say("turnend"))
  BY <1>1 DEF Says
<1>3. /\ Range(events') = Range(events) \cup {Say("turnend")}
      /\ Once(events', {Say("turnend")})
  BY <1>1, <1>2, AppendOnce DEF EndSaid
<1> QED
  BY <1>1, <1>3 DEF EndSaid
\* With no children what is said names the main agent.
LEMMA HeadIs ==
    ASSUME TypeOK, OnlyTyped, events # <<>>
    PROVE  Head(events).kind \in {"turnend", "resumed"} => Head(events) = Say(Head(events).kind)
<1>1. Head(events) \in Event
  BY DEF TypeOK, WireTypeOK
<1> QED
  BY <1>1 DEF OnlyTyped, Event, Askers, Say, ChildEvents

LEMMA ControlsJoin ==
    ASSUME TypeOK, NEW control \in Control, rxControl' = Append(rxControl, control)
    PROVE  Range(rxControl') = Range(rxControl) \cup {control}
  BY AppendOnce DEF TypeOK, WireTypeOK

LEMMA ControlsLeave ==
    ASSUME TypeOK, rxControl # <<>>, rxControl' = Tail(rxControl)
    PROVE  Range(rxControl') \subseteq Range(rxControl) /\ Head(rxControl) \in Range(rxControl)
  BY TailOnce DEF TypeOK, WireTypeOK

-----------------------------------------------------------------------------
(* No goal is set, so none opens a turn, and no report does. *)

LEMMA NoReports == ASSUME TypeOK, OnlyTyped PROVE results = <<>> /\ ~TakeReport
<1>1. results \in Seq({})
  BY DEF TypeOK, WireTypeOK, OnlyTyped
<1>2. results = <<>>
  <2>1. SUFFICES ASSUME results # <<>> PROVE FALSE
    OBVIOUS
  <2>2. Head(results) \in {}
    BY <1>1, <2>1
  <2> QED
    BY <2>2
<1> QED
  BY <1>2 DEF TakeReport

LEMMA NoGoal ==
    ASSUME TypeOK, OnlyTyped, QuietInv
    PROVE  /\ ~TakeGoal /\ ~GoalTool
           /\ \A command \in GoalCommands : ~TakeGoalCommand(command)
           /\ ControlMidTurn => Head(rxControl).op \notin GoalCommands
<1>1. rxControl # <<>> => Head(rxControl).op \notin GoalCommands
  BY TailOnce DEF TypeOK, WireTypeOK, QuietInv
<1> QED
  BY <1>1 DEF QuietInv, OnlyTyped, TakeGoal, GoalTool, TakeGoalCommand, TakesControl,
              ControlMidTurn

LEMMA TopQuiet == ASSUME ToTop("none") PROVE ~wake'
<1>1. ~(~stop /\ "none" = "active")
  OBVIOUS
<1> QED
  BY <1>1, Zenon DEF ToTop

LEMMA QuietKept ==
    ASSUME TypeOK, QuietInv, goal' = "none", ~wake', Chats \/ Hears,
           Range(rxControl') \subseteq Range(rxControl)
    PROVE  QuietInv'
  BY ChatsTell, HearsTell DEF TypeOK, WireTypeOK, QuietInv

\* A step of the loop says nothing of a turn's end, or tells one.
LEMMA LoopQuiet == ASSUME TypeOK, OnlyTyped, QuietInv, Loop PROVE QuietInv'
<1> USE DEF QuietInv
<1>0. events \in Seq(Event)
  BY DEF TypeOK, WireTypeOK
<1>1. ASSUME NEW op, TakesControl(op) PROVE Range(rxControl') \subseteq Range(rxControl)
  BY <1>1, ControlsLeave DEF TakesControl
<1>2. ASSUME Says(<<Say("turnend")>>), ToTop(goal), UNCHANGED goal,
             Range(rxControl') \subseteq Range(rxControl)
      PROVE  QuietInv'
  <2>1. Say("turnend") \in Event /\ Say("turnend") # Say("resumed")
    BY DEF Say, Event, EventKinds, ChildEvents, Askers
  <2>2. Range(events') = Range(events) \cup {Say("turnend")}
    <3>1. events' = Append(events, Say("turnend"))
      BY <1>0, <1>2, <2>1 DEF Says
    <3> QED
      BY <1>0, <2>1, <3>1, AppendOnce
  <2> QED
    BY <1>2, <2>1, <2>2 DEF ToTop
<1>3. CASE TakePrompt \/ TakeRetry \/ TakeCompact \/ TakeAside \/ TakeModel \/ TakeClear
  <2>1. Chats
    BY <1>0, <1>3, ForkChats DEF TakePrompt, TakeRetry, TakeCompact, TakeAside, TakeModel,
                                 TakeClear, Chats
  <2>2. goal' = "none" /\ ~wake'
    <3>1. goal' = "none" /\ (UNCHANGED wake \/ ToTop("none"))
      BY <1>3 DEF TakePrompt, TakeRetry, TakeCompact, TakeAside, TakeModel, TakeClear
    <3> QED
      BY <3>1, TopQuiet
  <2>3. Range(rxControl') \subseteq Range(rxControl)
    BY <1>1, <1>3 DEF TakePrompt, TakeRetry, TakeCompact, TakeAside, TakeModel, TakeClear
  <2> QED
    BY <2>1, <2>2, <2>3, QuietKept
<1>4. CASE TakeForked
  <2>1. UNCHANGED goal /\ Range(rxControl') \subseteq Range(rxControl)
    BY <1>1, <1>4 DEF TakeForked
  <2>2. CASE DropFork /\ UNCHANGED wake
    BY <1>0, <2>1, <2>2, ForkChats, QuietKept
  <2>3. CASE Says(<<Say("turnend")>>) /\ ToTop(goal)
    BY <1>2, <2>1, <2>3
  <2> QED
    BY <1>4, <2>2, <2>3 DEF TakeForked
<1>5. CASE EndTurn
  BY <1>2, <1>5 DEF EndTurn
<1>6. CASE Panic
  BY <1>0, <1>6, EmptyOnce, QuietKept DEF Panic, Chats
<1>7. CASE StartFork \/ EndFork
  <2>1. Chats
    BY <1>7, SayChats DEF StartFork, EndFork, EventKinds, ChildEvents, Chats, wireVars
  <2>2. goal' = "none" /\ ~wake' /\ UNCHANGED rxControl
    <3>1. goal' = "none" /\ (UNCHANGED wake \/ ToTop("none")) /\ UNCHANGED rxControl
      BY <1>7 DEF StartFork, EndFork, wireVars
    <3> QED
      BY <3>1, TopQuiet
  <2> QED
    BY <2>1, <2>2, QuietKept
<1>8. CASE CallEnds \/ Ask \/ Answered \/ ToolsDone \/ After
  <2>1. Chats
    BY <1>8, SayChats DEF CallEnds, Ask, Answered, ToolsDone, After, Returned, EventKinds,
                          ChildEvents, Chats
  <2>2. goal' = "none" /\ UNCHANGED <<wake, rxControl>>
    BY <1>8 DEF CallEnds, Ask, Answered, ToolsDone, After, Returned, Carried, OffWire
  <2> QED
    BY <2>1, <2>2, QuietKept
<1>9. CASE Reads
  <2>1. UNCHANGED <<events, goal, wake, rxControl>>
    BY <1>9 DEF Reads, Step, Answers, Carried, OffWire
  <2> QED
    BY <2>1, QuietKept DEF Chats
<1>10. CASE Close \/ Mark \/ EndCompaction
  <2>1. Chats
    <3>1. events \o <<>> = events
      BY <1>0
    <3>2. ASSUME Says(IF outcome = "auth" THEN <<Say("authfailed")>> ELSE <<>>) PROVE Chats
      <4>1. CASE outcome = "auth"
        BY <3>2, <4>1, SayChats DEF EventKinds, ChildEvents
      <4>2. CASE outcome # "auth"
        BY <3>1, <3>2, <4>2 DEF Says, Chats
      <4> QED
        BY <4>1, <4>2
    <3> QED
      BY <1>10, <3>2 DEF Close, Mark, EndCompaction, Chats
  <2>2. goal' = "none" /\ UNCHANGED <<wake, rxControl>>
    BY <1>10 DEF Close, Mark, EndCompaction, Ended, Paused
  <2> QED
    BY <2>1, <2>2, QuietKept
<1>11. CASE Watch
  <2>1. Say("turnend") \in Event /\ Say("turnend") # Say("resumed")
    BY DEF Say, Event, EventKinds, ChildEvents, Askers
  <2>2. events' = Append(events, Say("turnend")) /\ UNCHANGED <<goal, wake, rxControl>>
    BY <1>0, <1>11, <2>1 DEF Watch, Says, Ended
  <2> QED
    BY <1>0, <2>1, <2>2, AppendOnce
<1>12. CASE ControlMidTurn
  <2>1. Chats
    BY <1>12, NoGoal, SayChats DEF ControlMidTurn, EventKinds, ChildEvents, Chats
  <2>2. UNCHANGED <<goal, wake>> /\ Range(rxControl') \subseteq Range(rxControl)
    BY <1>12, NoGoal, ControlsLeave DEF ControlMidTurn
  <2> QED
    BY <2>1, <2>2, QuietKept
<1> QED
  BY <1>3, <1>4, <1>5, <1>6, <1>7, <1>8, <1>9, <1>10, <1>11, <1>12, NoGoal, NoReports
     DEF Loop, Opens, Ends, Steers, Works, OnlyTyped

\* The hub asks for no goal.
LEMMA HubQuiet ==
    ASSUME TypeOK, OnlyTyped, QuietInv, UserSends \/ UserDoes \/ UserInterrupts \/ Pumps
    PROVE  QuietInv'
<1> USE DEF QuietInv
<1>1. UNCHANGED <<goal, wake>>
  BY DEF UserSends, UserDoes, UserInterrupts, Pumps, loopVars
<1>2. ASSUME NEW control \in Control, control.op \notin GoalCommands,
             \/ rxControl' = rxControl \/ rxControl' = Append(rxControl, control),
             Chats \/ Hears
      PROVE  QuietInv'
  <2>1. Say("resumed") \notin Range(events')
    BY <1>2, ChatsTell, HearsTell DEF TypeOK, WireTypeOK
  <2>2. Range(rxControl') \subseteq Range(rxControl) \cup {control}
    BY <1>2, ControlsJoin
  <2> QED
    BY <1>1, <1>2, <2>1, <2>2
<1>3. ASSUME NEW op \in TurnControls \cup {"compact", "clear"}
      PROVE  Plain(op) \in Control /\ Plain(op).op \notin GoalCommands
  BY PlainTyped DEF Plain, PlainControls, TurnControls, GoalCommands
<1>4. CASE UNCHANGED <<rxControl, events>>
  BY <1>4, QuietKept, <1>1 DEF Chats
<1>5. CASE UserSends
  BY <1>4, <1>5 DEF UserSends, Submit, SubmitAutomatic, SubmitReleased, Answer, RejectPending,
                    wireVars, chanVars
<1>6. CASE UserInterrupts
  BY <1>4, <1>6 DEF UserInterrupts, StopTurn, StopChildren, chanVars
<1>7. CASE UserDoes
  <2>1. CASE DropQueue \/ Interrupt \/ \E c \in Children : InterruptChild(c)
    BY <1>4, <2>1 DEF DropQueue, Interrupt, InterruptChild, wireVars, chanVars
  <2>2. ASSUME NEW op \in TurnControls \cup {"compact"}, StartTurn(Plain(op)) PROVE QuietInv'
    BY <1>2, <1>3, <2>2 DEF StartTurn, Chats
  <2>3. ASSUME NEW p \in Prompts, SubmitForked(p) PROVE QuietInv'
    <3>1. /\ [op |-> "forked", arg |-> p] \in Control
          /\ [op |-> "forked", arg |-> p].op \notin GoalCommands
      BY DEF Control, GoalCommands
    <3> QED
      BY <1>2, <2>3, <3>1 DEF SubmitForked, StartTurn, Chats
  <2>4. CASE AskCompact
    BY <1>4, <2>2, <2>4 DEF AskCompact, wireVars
  <2>5. ASSUME NEW m \in Models, SetModel(m) PROVE QuietInv'
    <3>1. /\ [op |-> "model", arg |-> m] \in Control
          /\ [op |-> "model", arg |-> m].op \notin GoalCommands
      BY DEF Control, GoalCommands
    <3> QED
      BY <1>2, <2>5, <3>1 DEF SetModel, Post, Chats
  <2>6. CASE Clear
    BY <1>2, <1>3, <2>6 DEF Clear, Post, Chats
  <2>7. ~\E command \in GoalCommands : Does(command) /\ SetGoal(command)
    BY DEF OnlyTyped, Does
  <2> QED
    BY <1>7, <2>1, <2>2, <2>3, <2>4, <2>5, <2>6, <2>7 DEF UserDoes, StartControl
<1>8. CASE Pumps
  <2>1. CASE OnApproval \/ OnResumed \/ OnAuthFailed \/ OnOther
    <3>1. UNCHANGED rxControl /\ Hears
      BY <2>1 DEF OnApproval, OnResumed, OnAuthFailed, OnOther, Quiet, Heard, Pumped, Hears
    <3> QED
      BY <1>1, <3>1, QuietKept
  <2>2. CASE OnTurnEnd
    <3>1. Hears /\ (rxControl' = rxControl \/ rxControl' = Append(rxControl, Plain("compact")))
      BY <2>2 DEF OnTurnEnd, Heard, Pumped, Hears, Quiet
    <3> QED
      BY <1>2, <1>3, <3>1
  <2> QED
    BY <1>8, <2>1, <2>2 DEF Pumps, Pump
<1> QED
  BY <1>5, <1>6, <1>7, <1>8

LEMMA StepQuiet == ASSUME TypeOK, OnlyTyped, QuietInv, [Next]_vars PROVE QuietInv'
<1>1. CASE UNCHANGED vars
  BY <1>1, QuietKept DEF vars, wireVars, loopVars, Chats, QuietInv
<1> QED
  BY <1>1, LoopQuiet, HubQuiet DEF Next, OnlyTyped
-----------------------------------------------------------------------------
(* Orders: a message accepted later comes after all accepted before it. *)

LEMMA BeforeKept ==
    ASSUME NEW given \in Seq(Prompts), NEW e \in Prompts, NEW p, NEW q, Before(given, p, q)
    PROVE  Before(Append(given, e), p, q)
<1>1. /\ Len(given) \in Nat /\ Len(Append(given, e)) = Len(given) + 1
      /\ \A i \in 1 .. Len(given) : Append(given, e)[i] = given[i]
  OBVIOUS
<1> QED
  BY <1>1 DEF Before

LEMMA BeforeNew ==
    ASSUME NEW given \in Seq(Prompts), NEW e \in Prompts, NEW p \in Range(given)
    PROVE  Before(Append(given, e), p, e)
<1>1. /\ Len(given) \in Nat /\ Len(Append(given, e)) = Len(given) + 1
      /\ \A i \in 1 .. Len(given) : Append(given, e)[i] = given[i]
      /\ Append(given, e)[Len(given) + 1] = e
  OBVIOUS
<1>2. PICK i \in 1 .. Len(given) : given[i] = p
  BY Members
<1> QED
  BY <1>1, <1>2 DEF Before

LEMMA SortedKept ==
    ASSUME NEW given \in Seq(Prompts), NEW e \in Prompts, NEW s, Sorted(s, given)
    PROVE  Sorted(s, Append(given, e))
  BY BeforeKept DEF Sorted

LEMMA SortedConcat ==
    ASSUME NEW S, NEW s \in Seq(S), NEW t \in Seq(S), NEW given
    PROVE  Sorted(s \o t, given)
             <=> /\ Sorted(s, given) /\ Sorted(t, given)
                 /\ \A p \in Range(s) \cap Prompts, q \in Range(t) \cap Prompts :
                        Before(given, p, q)
<1>1. Len(s \o t) = Len(s) + Len(t) /\ Len(s) \in Nat /\ Len(t) \in Nat
  OBVIOUS
<1>2. ASSUME NEW i \in 1 .. Len(s) PROVE (s \o t)[i] = s[i] /\ i \in 1 .. Len(s \o t)
  BY <1>1
<1>3. ASSUME NEW i \in 1 .. Len(t)
      PROVE  (s \o t)[Len(s) + i] = t[i] /\ Len(s) + i \in 1 .. Len(s \o t)
  BY <1>1
<1>4. ASSUME Sorted(s \o t, given)
      PROVE  /\ Sorted(s, given) /\ Sorted(t, given)
             /\ \A p \in Range(s) \cap Prompts, q \in Range(t) \cap Prompts :
                    Before(given, p, q)
  <2>1. Sorted(s, given)
    BY <1>2, <1>4 DEF Sorted
  <2>2. ASSUME NEW i \in 1 .. Len(t), NEW j \in 1 .. Len(t), i < j,
               t[i] \in Prompts, t[j] \in Prompts
        PROVE  Before(given, t[i], t[j])
    <3>1. Len(s) + i < Len(s) + j
      BY <1>1, <2>2
    <3> QED
      BY <1>3, <1>4, <2>2, <3>1 DEF Sorted
  <2>3. ASSUME NEW p \in Range(s) \cap Prompts, NEW q \in Range(t) \cap Prompts
        PROVE  Before(given, p, q)
    <3>1. PICK i \in 1 .. Len(s), j \in 1 .. Len(t) : s[i] = p /\ t[j] = q
      BY <2>3, Members
    <3>2. i < Len(s) + j
      BY <1>1, <3>1
    <3> QED
      BY <1>2, <1>3, <1>4, <3>1, <3>2 DEF Sorted
  <2> QED
    BY <2>1, <2>2, <2>3 DEF Sorted
<1>5. ASSUME Sorted(s, given), Sorted(t, given),
             \A p \in Range(s) \cap Prompts, q \in Range(t) \cap Prompts :
                 Before(given, p, q),
             NEW i \in 1 .. Len(s \o t), NEW j \in 1 .. Len(s \o t), i < j,
             (s \o t)[i] \in Prompts, (s \o t)[j] \in Prompts
      PROVE  Before(given, (s \o t)[i], (s \o t)[j])
  <2>1. ASSUME NEW k \in 1 .. Len(s \o t)
        PROVE  IF k <= Len(s) THEN k \in 1 .. Len(s) /\ (s \o t)[k] = s[k]
               ELSE k - Len(s) \in 1 .. Len(t) /\ (s \o t)[k] = t[k - Len(s)]
    BY <1>1
  <2>2. CASE j <= Len(s)
    <3>1. i <= Len(s)
      BY <1>1, <1>5, <2>2
    <3> QED
      BY <1>5, <2>1, <2>2, <3>1 DEF Sorted
  <2>3. CASE i > Len(s)
    <3>1. j > Len(s) /\ i - Len(s) < j - Len(s) /\ ~(i <= Len(s)) /\ ~(j <= Len(s))
      BY <1>1, <1>5, <2>3
    <3> QED
      BY <1>5, <2>1, <3>1 DEF Sorted
  <2>4. CASE i <= Len(s) /\ ~(j <= Len(s))
    <3>1. (s \o t)[i] \in Range(s) /\ (s \o t)[j] \in Range(t)
      BY <2>1, <2>4, Members
    <3> QED
      BY <1>5, <3>1
  <2> QED
    BY <1>1, <2>2, <2>3, <2>4
<1>6. /\ Sorted(s, given) /\ Sorted(t, given)
      /\ \A p \in Range(s) \cap Prompts, q \in Range(t) \cap Prompts : Before(given, p, q)
      => Sorted(s \o t, given)
  BY <1>5 DEF Sorted
<1> QED
  BY <1>4, <1>6

LEMMA SortedShort ==
    ASSUME NEW e, NEW given
    PROVE  Sorted(<<>>, given) /\ Sorted(<<e>>, given)
<1>1. Len(<<>>) = 0 /\ Len(<<e>>) = 1
  OBVIOUS
<1> QED
  BY <1>1 DEF Sorted

LEMMA SortedAppend ==
    ASSUME NEW S, NEW s \in Seq(S), NEW e \in S, NEW given, Sorted(s, given),
           e \in Prompts => \A p \in Range(s) \cap Prompts : Before(given, p, e)
    PROVE  Sorted(Append(s, e), given)
<1> DEFINE last == <<e>>
<1>1. last \in Seq(S) /\ Append(s, e) = s \o last
  OBVIOUS
<1>2. Range(last) = {e} /\ Sorted(last, given)
  BY OneRange, SortedShort
<1> HIDE DEF last
<1> QED
  BY <1>1, <1>2, SortedConcat

LEMMA SortedTail ==
    ASSUME NEW S, NEW s \in Seq(S), s # <<>>, NEW given, Sorted(s, given)
    PROVE  /\ Sorted(Tail(s), given)
           /\ Head(s) \in Prompts =>
                \A q \in Range(Tail(s)) \cap Prompts : Before(given, Head(s), q)
<1> DEFINE first == <<Head(s)>>
           rest == Tail(s)
<1>1. first \in Seq(S) /\ rest \in Seq(S) /\ s = first \o rest
  OBVIOUS
<1>2. Range(first) = {Head(s)}
  BY OneRange
<1> HIDE DEF first, rest
<1>3. /\ Sorted(rest, given)
      /\ \A p \in Range(first) \cap Prompts, q \in Range(rest) \cap Prompts :
             Before(given, p, q)
  BY <1>1, SortedConcat
<1> QED
  BY <1>2, <1>3 DEF rest

LEMMA SortedSplit ==
    ASSUME NEW S, NEW s \in Seq(S), NEW n \in 0 .. Len(s), NEW given, Sorted(s, given)
    PROVE  /\ Sorted(SubSeq(s, 1, n), given)
           /\ Sorted(SubSeq(s, n + 1, Len(s)), given)
           /\ \A p \in Range(SubSeq(s, 1, n)) \cap Prompts :
                \A q \in Range(SubSeq(s, n + 1, Len(s))) \cap Prompts : Before(given, p, q)
<1> DEFINE first == SubSeq(s, 1, n)
           rest == SubSeq(s, n + 1, Len(s))
<1>1. first \in Seq(S) /\ rest \in Seq(S)
  OBVIOUS
<1>2. first \o rest = s
  <2>1. Len(s) \in Nat /\ 1 \in 1 .. Len(s) + 1 /\ n \in 1 - 1 .. Len(s) /\ Len(s) \in n .. Len(s)
    OBVIOUS
  <2>2. first \o rest = SubSeq(s, 1, Len(s))
    BY <2>1, ConcatAdjacentSubSeq
  <2>3. SubSeq(s, 1, Len(s)) = s
    OBVIOUS
  <2> QED
    BY <2>2, <2>3
<1> HIDE DEF first, rest
<1>3. /\ Sorted(first, given) /\ Sorted(rest, given)
      /\ \A p \in Range(first) \cap Prompts, q \in Range(rest) \cap Prompts :
             Before(given, p, q)
  BY <1>1, <1>2, SortedConcat
<1> QED
  BY <1>3 DEF first, rest

\* A sequence of controls as it is posted to and taken from.
LEMMA SwitchPosted ==
    ASSUME NEW s \in Seq(Control), NEW control \in Control
    PROVE  /\ control.op # "model" => Switches(Append(s, control)) = Switches(s)
           /\ control.op = "model" =>
                Switches(Append(s, control)) = Switches(s) \cup {Len(s) + 1}
           /\ Append(s, control)[Len(s) + 1] = control
           /\ \A i \in Switches(s) : Append(s, control)[i] = s[i] /\ i <= Len(s)
           /\ Len(s) \in Nat /\ Switches(s) \subseteq Nat
<1>1. /\ Len(s) \in Nat /\ Len(Append(s, control)) = Len(s) + 1
      /\ Append(s, control)[Len(s) + 1] = control
      /\ \A i \in 1 .. Len(s) : Append(s, control)[i] = s[i]
      /\ 1 .. Len(s) + 1 = (1 .. Len(s)) \cup {Len(s) + 1}
  OBVIOUS
<1> QED
  BY <1>1 DEF Switches

LEMMA SwitchTaken ==
    ASSUME NEW s \in Seq(Control), s # <<>>
    PROVE  /\ \A i \in Switches(Tail(s)) : i + 1 \in Switches(s) /\ Tail(s)[i] = s[i + 1]
           /\ \A i \in Switches(s) : i # 1 => i - 1 \in Switches(Tail(s))
           /\ 1 \in Switches(s) <=> Head(s).op = "model"
           /\ Switches(s) \subseteq Nat \ {0} /\ Switches(Tail(s)) \subseteq Nat \ {0}
<1>1. Len(s) \in Nat \ {0} /\ Len(Tail(s)) = Len(s) - 1 /\ Head(s) = s[1]
  OBVIOUS
<1>2. ASSUME NEW i \in 1 .. Len(Tail(s)) PROVE Tail(s)[i] = s[i + 1] /\ i + 1 \in 1 .. Len(s)
  BY <1>1
<1>3. ASSUME NEW i \in 1 .. Len(s), i # 1
      PROVE  i - 1 \in 1 .. Len(Tail(s)) /\ Tail(s)[i - 1] = s[i]
  BY <1>1, <1>3
<1> QED
  BY <1>1, <1>2, <1>3 DEF Switches
-----------------------------------------------------------------------------
(* What a step may do with the turn and what waits for it. *)

\* What every step starts from, while the loop lives.
Ready == TypeOK /\ TypeOK' /\ OnlyTyped /\ QuietInv /\ PlaceInv /\ MarkInv /\ TurnInv /\ alive

\* The login that fails from now on is the business of no property.
HeldStays == wasHeld' \/ (UNCHANGED <<held, wasHeld>>)

LEMMA OrderStays ==
    ASSUME OrderInv, UNCHANGED <<held, queue, accepted, landed>>, queue # <<>> => working',
           Handed' \subseteq Handed, Copied' \subseteq Copied
    PROVE  OrderInv'
<1>1. UNCHANGED <<Queued, Landed>>
  BY DEF Queued, Landed
<1> QED
  BY <1>1 DEF OrderInv

\* Nothing is asked for, taken, read or ended.
Still ==
    /\ UNCHANGED <<rxUser, rxControl, working, queue, accepted, landed, model, shownModel>>
    /\ LoopBusy' <=> LoopBusy
    /\ Chats \/ (Hears /\ Head(events) # Say("turnend"))
    /\ HeldStays
    /\ cut' \subseteq cut \cup Range(rxUser) \cup (IF LoopBusy THEN {Main} ELSE {})
    /\ stop => stop'
    /\ cut' # {} => cut # {} \/ stop'

LEMMA StillKeeps == ASSUME Ready, Still PROVE TurnInv'
<1>1. TokenInv /\ SwitchInv /\ CutInv /\ (wasHeld \/ OrderInv)
  BY DEF Ready, TurnInv
<1>2. TokenInv'
  <2>1. /\ events \in Seq(Event) /\ events' \in Seq(Event)
        /\ UNCHANGED <<rxUser, rxControl, working>>
    BY DEF Ready, TypeOK, WireTypeOK, Still
  <2>2. EndSaid' => EndSaid
    BY <2>1, ChatsTell, HearsTell DEF Still
  <2>3. Once(events', {Say("turnend")})
    BY <1>1, <2>1, ChatsTell, HearsTell DEF Still, TokenInv
  <2> QED
    BY <1>1, <2>1, <2>2, <2>3 DEF Still, TokenInv
<1>3. SwitchInv'
  BY <1>1 DEF Still, SwitchInv
<1>4. CutInv'
  BY <1>1 DEF Still, CutInv
<1>5. wasHeld' \/ (OrderInv' /\ UNCHANGED wasHeld)
  <2>1. UNCHANGED <<Handed, Copied>>
    BY DEF Still, Handed, Copied
  <2> QED
    BY <1>1, <2>1, OrderStays DEF Still, HeldStays, OrderInv
<1>6. wasHeld' \/ Sorted(landed', accepted')
  BY <1>5 DEF Ready, TurnInv, Still
<1> QED
  BY <1>2, <1>3, <1>4, <1>5, <1>6 DEF TurnInv

LEMMA Alone ==
    ASSUME NEW S, NEW s \in Seq(S), s # <<>>, Len(s) <= 1
    PROVE  Len(s) = 1 /\ Tail(s) = <<>> /\ Range(s) = {Head(s)}
<1>1. Len(s) = 1
  <2>1. Len(s) \in Nat \ {0}
    BY EmptySeq
  <2> QED
    BY <2>1
<1>2. Tail(s) = <<>>
  <2>1. Tail(s) \in Seq(S) /\ Len(Tail(s)) = Len(s) - 1
    OBVIOUS
  <2>2. Len(Tail(s)) = 0
    BY <1>1, <2>1
  <2> QED
    BY <2>1, <2>2, EmptySeq
<1>3. Range(s) = Range(Tail(s)) \cup {Head(s)}
  BY TailOnce
<1> QED
  BY <1>1, <1>2, <1>3, EmptyOnce

\* The loop takes a message that was handed to it and runs a turn for it.
LEMMA TakePromptKeeps ==
    ASSUME Ready, TakePrompt, UNCHANGED hubVars,
           cut' = (cut \ {Head(rxUser), Main}) \cup (IF Head(rxUser) \in cut THEN {Main} ELSE {})
    PROVE  TurnInv'
<1>1. TokenInv /\ SwitchInv /\ CutInv /\ (wasHeld \/ OrderInv)
  BY DEF Ready, TurnInv
<1>2. /\ rxUser \in Seq(Prompts) /\ rxUser # <<>> /\ rxUser' = Tail(rxUser) /\ rxControl = <<>>
      /\ landed \in Seq(Prompts) /\ landed' = Append(landed, Head(rxUser))
      /\ UNCHANGED <<rxControl, stop, alive, model>>
      /\ UNCHANGED <<working, held, queue, accepted, shownModel, wasHeld>>
      /\ events \in Seq(Event) /\ DropFork /\ pc = "idle" /\ pc' = "step"
  BY DEF Ready, TypeOK, WireTypeOK, LoopTypeOK, TakePrompt, Open, hubVars, flagVars
<1>3. Len(rxUser) = 1 /\ rxUser' = <<>> /\ Range(rxUser) = {Head(rxUser)}
  BY <1>1, <1>2, Alone DEF TokenInv
<1>4. LoopBusy' /\ ~LoopBusy /\ ~EndSaid /\ working
  BY <1>1, <1>2 DEF LoopBusy, TokenInv
<1>5. TokenInv'
  <2>1. ~EndSaid' /\ Once(events', {Say("turnend")})
    BY <1>1, <1>2, <1>4, ForkChats, ChatsTell DEF TokenInv
  <2>2. ~AsksTurn(rxControl')
    BY <1>2 DEF AsksTurn
  <2>3. Len(rxUser') = 0 /\ Len(rxControl') = 0
    BY <1>2, <1>3
  <2> QED
    BY <1>2, <1>3, <1>4, <2>1, <2>2, <2>3 DEF TokenInv
<1>6. SwitchInv'
  BY <1>1, <1>2 DEF SwitchInv
<1>7. CutInv'
  <2>1. Range(rxUser') = {}
    BY <1>3, EmptyOnce
  <2> QED
    BY <1>1, <1>2, <1>3, <1>4, <2>1 DEF CutInv
<1>8. PICK p \in Prompts : p = Head(rxUser)
  BY <1>2
<1>9. Handed = {p} /\ Handed' = {} /\ Copied' = {} /\ Landed' = Landed \cup {p}
  <2>1. Range(rxUser') = {} /\ Range(rxControl') = {}
    BY <1>2, <1>3, EmptyOnce
  <2>2. Range(landed') = Range(landed) \cup {p}
    BY <1>2, <1>8, AppendOnce
  <2> QED
    BY <1>3, <1>8, <2>1, <2>2 DEF Handed, Copied, Landed
<1>10. ASSUME ~wasHeld PROVE OrderInv' /\ Sorted(landed', accepted')
  <2>1. OrderInv /\ Sorted(landed, accepted)
    BY <1>1, <1>10 DEF Ready, TurnInv
  <2>2. \A q \in Landed : Before(accepted, q, p)
    BY <1>9, <2>1 DEF OrderInv
  <2>3. Sorted(landed', accepted')
    BY <1>2, <1>8, <2>1, <2>2, SortedAppend DEF Landed
  <2>4. Queued' = Queued
    BY <1>2 DEF Queued
  <2> QED
    BY <1>2, <1>9, <2>1, <2>3, <2>4 DEF OrderInv
<1> QED
  BY <1>2, <1>5, <1>6, <1>7, <1>10 DEF TurnInv
\* A control that is a turn of its own is the last one asked for, and nothing else is.
LEMMA TurnAlone ==
    ASSUME Ready, NEW op \in TurnControls \cup {"compact", "forked"}, TakesControl(op)
    PROVE  /\ rxControl' = <<>> /\ rxUser = <<>> /\ rxUser' = <<>>
           /\ Range(rxControl) = {Head(rxControl)}
           /\ ~LoopBusy /\ ~EndSaid /\ working /\ cut = {} /\ model = shownModel
<1>1. TokenInv /\ SwitchInv /\ CutInv
  BY DEF Ready, TurnInv
<1>2. /\ rxControl \in Seq(Control) /\ rxControl # <<>> /\ rxControl' = Tail(rxControl)
      /\ Head(rxControl).op = op /\ rxUser' = rxUser /\ pc = "idle"
  BY DEF Ready, TypeOK, WireTypeOK, TakesControl
<1>3. Len(rxControl) \in Nat \ {0} /\ 1 \in 1 .. Len(rxControl) /\ Head(rxControl) = rxControl[1]
  BY <1>2
<1>4. Len(rxControl) = 1 /\ AsksTurn(rxControl)
  BY <1>1, <1>2, <1>3 DEF TokenInv, AsksTurn
<1>5. Tail(rxControl) = <<>> /\ Range(rxControl) = {Head(rxControl)}
  BY <1>2, <1>4, Alone
<1>6. rxUser = <<>> /\ ~LoopBusy /\ ~EndSaid /\ working
  BY <1>1, <1>2, <1>4 DEF TokenInv, LoopBusy
<1>7. cut = {}
  BY <1>1, <1>6, EmptyOnce DEF CutInv
<1>8. model = shownModel
  <2>1. op # "model"
    BY DEF TurnControls
  <2>2. Switches(rxControl) = {}
    BY <1>2, <1>3, <1>4, <2>1 DEF Switches
  <2> QED
    BY <1>1, <2>2 DEF SwitchInv
<1> QED
  BY <1>2, <1>5, <1>6, <1>7, <1>8

\* It runs, or tells its end at once.
LEMMA TurnTaken ==
    ASSUME Ready, NEW op \in TurnControls \cup {"compact", "forked"}, TakesControl(op),
           UNCHANGED hubVars, UNCHANGED model, cut' \subseteq cut,
           \/ LoopBusy' /\ Chats
           \/ ~LoopBusy' /\ Says(<<Say("turnend")>>),
           \/ landed' = landed
           \/ op = "forked" /\ landed' = Append(landed, Head(rxControl).arg)
    PROVE  TurnInv'
<1>1. TokenInv /\ SwitchInv /\ CutInv /\ (wasHeld \/ OrderInv)
  BY DEF Ready, TurnInv
<1>2. /\ rxControl' = <<>> /\ rxUser = <<>> /\ rxUser' = <<>>
      /\ Range(rxControl) = {Head(rxControl)}
      /\ ~LoopBusy /\ ~EndSaid /\ working /\ cut = {} /\ model = shownModel
  BY TurnAlone
<1>3. /\ UNCHANGED <<working, held, queue, accepted, shownModel, wasHeld>>
      /\ events \in Seq(Event) /\ landed \in Seq(Prompts) /\ accepted \in Seq(Prompts)
      /\ rxControl # <<>> /\ Head(rxControl) \in Control /\ Head(rxControl).op = op
  BY TakesControlTyped DEF Ready, TypeOK, WireTypeOK, LoopTypeOK, HubTypeOK, hubVars,
                           TakesControl
<1>4. Len(rxUser') = 0 /\ Len(rxControl') = 0 /\ Range(rxUser') = {} /\ Range(rxControl') = {}
  BY <1>2, EmptyOnce
<1>5. TokenInv'
  <2>1. Once(events', {Say("turnend")}) /\ ~(LoopBusy' /\ EndSaid')
    BY <1>1, <1>2, <1>3, ChatsTell, EndTells DEF TokenInv
  <2>2. ~AsksTurn(rxControl')
    BY <1>4 DEF AsksTurn
  <2> QED
    BY <1>2, <1>3, <1>4, <2>1, <2>2 DEF TokenInv
<1>6. SwitchInv'
  <2>1. Switches(rxControl') = {}
    BY <1>4 DEF Switches
  <2> QED
    BY <1>2, <1>3, <2>1 DEF SwitchInv
<1>7. CutInv'
  BY <1>2 DEF CutInv
<1>8. ASSUME ~wasHeld PROVE OrderInv' /\ Sorted(landed', accepted')
  <2>1. OrderInv /\ Sorted(landed, accepted)
    BY <1>1, <1>8 DEF Ready, TurnInv
  <2>2. Handed' = {} /\ Copied' = {} /\ Queued' = Queued
    BY <1>3, <1>4 DEF Handed, Copied, Queued
  <2>3. CASE landed' = landed
    BY <1>2, <1>3, <2>1, <2>2, <2>3, OrderStays
  <2>4. CASE op = "forked" /\ landed' = Append(landed, Head(rxControl).arg)
    <3>1. PICK p \in Prompts : p = Head(rxControl).arg
      BY <1>3, <2>4, ControlCarries
    <3>2. Head(rxControl) = OnCopy(p)
      BY <1>3, <2>4, <3>1 DEF Control, PlainControls, GoalCommands, TurnControls, OnCopy
    <3>3. p \in Copied
      BY <1>2, <3>2 DEF Copied
    <3>4. Landed' = Landed \cup {p}
      BY <1>3, <2>4, <3>1, AppendOnce DEF Landed
    <3>5. \A q \in Landed : Before(accepted, q, p)
      BY <2>1, <3>3 DEF OrderInv
    <3>6. Sorted(landed', accepted')
      BY <1>3, <2>1, <2>4, <3>1, <3>5, SortedAppend DEF Landed
    <3> QED
      BY <1>2, <1>3, <2>1, <2>2, <3>3, <3>4, <3>6 DEF OrderInv
  <2> QED
    BY <2>3, <2>4
<1> QED
  BY <1>3, <1>5, <1>6, <1>7, <1>8 DEF TurnInv

\* A switch or a clear is taken while the loop is idle, and runs nothing.
LEMMA SwitchKept ==
    ASSUME Ready, rxControl # <<>>, rxControl' = Tail(rxControl), UNCHANGED shownModel,
           IF Head(rxControl).op = "model" THEN model' = Head(rxControl).arg
                                           ELSE UNCHANGED model
    PROVE  SwitchInv'
<1>1. SwitchInv /\ rxControl \in Seq(Control) /\ Head(rxControl) = rxControl[1]
  BY DEF Ready, TurnInv, TypeOK, WireTypeOK
<1>2. /\ \A i \in Switches(rxControl') : i + 1 \in Switches(rxControl)
                                            /\ rxControl'[i] = rxControl[i + 1]
      /\ \A i \in Switches(rxControl) : i # 1 => i - 1 \in Switches(rxControl')
      /\ 1 \in Switches(rxControl) <=> Head(rxControl).op = "model"
      /\ Switches(rxControl) \subseteq Nat \ {0} /\ Switches(rxControl') \subseteq Nat \ {0}
  BY <1>1, SwitchTaken
<1>3. ASSUME Switches(rxControl') = {} PROVE model' = shownModel'
  <2>1. \A i \in Switches(rxControl) : i = 1
    BY <1>2, <1>3
  <2>2. CASE Head(rxControl).op = "model"
    <3>1. \A j \in Switches(rxControl) : j <= 1
      BY <2>1
    <3> QED
      BY <1>1, <1>2, <2>2, <3>1 DEF SwitchInv
  <2>3. CASE Head(rxControl).op # "model"
    BY <1>1, <1>2, <2>1, <2>3 DEF SwitchInv
  <2> QED
    BY <2>2, <2>3
<1>4. ASSUME NEW i \in Switches(rxControl'), \A j \in Switches(rxControl') : j <= i
      PROVE  rxControl'[i].arg = shownModel'
  <2>1. i + 1 \in Switches(rxControl) /\ i \in Nat \ {0}
    BY <1>2
  <2>2. ASSUME NEW j \in Switches(rxControl) PROVE j <= i + 1
    BY <1>2, <1>4, <2>1
  <2> QED
    BY <1>1, <1>2, <2>1, <2>2 DEF SwitchInv
<1> QED
  BY <1>3, <1>4 DEF SwitchInv

LEMMA PlainTaken ==
    ASSUME Ready, NEW op \in {"model", "clear"}, TakesControl(op), UNCHANGED hubVars,
           IF op = "model" THEN model' = Head(rxControl).arg ELSE UNCHANGED model,
           ~LoopBusy', Chats, UNCHANGED <<landed, cut>>
    PROVE  TurnInv'
<1>1. TokenInv /\ SwitchInv /\ CutInv /\ (wasHeld \/ OrderInv)
  BY DEF Ready, TurnInv
<1>2. /\ UNCHANGED <<rxUser, stop, working, held, queue, accepted, shownModel, wasHeld>>
      /\ events \in Seq(Event) /\ rxControl \in Seq(Control) /\ rxControl' \in Seq(Control)
      /\ rxControl # <<>> /\ Head(rxControl).op = op
      /\ rxControl' = Tail(rxControl) /\ pc = "idle"
  BY DEF Ready, TypeOK, WireTypeOK, HubTypeOK, hubVars, TakesControl, flagVars
<1>3. ~LoopBusy /\ ~EndSaid
  BY <1>1, <1>2 DEF LoopBusy, TokenInv
<1>4. TokenInv'
  <2>1. ~EndSaid' /\ Once(events', {Say("turnend")})
    BY <1>1, <1>2, <1>3, ChatsTell DEF TokenInv
  <2>2. /\ Len(rxControl) \in Nat \ {0} /\ Len(rxControl') = Len(rxControl) - 1
        /\ \A i \in 1 .. Len(rxControl') :
               rxControl'[i] = rxControl[i + 1] /\ i + 1 \in 1 .. Len(rxControl)
    BY <1>2
  <2>3. \A i \in 1 .. Len(rxControl') :
            rxControl'[i].op \in TurnControls \cup {"compact", "forked"} => i = Len(rxControl')
    BY <1>1, <2>2 DEF TokenInv
  <2>4. AsksTurn(rxControl') => AsksTurn(rxControl)
    BY <2>2 DEF AsksTurn
  <2> QED
    BY <1>1, <1>2, <2>1, <2>3, <2>4 DEF TokenInv
<1>5. SwitchInv'
  BY <1>2, SwitchKept
<1>6. CutInv'
  BY <1>1, <1>2, <1>3 DEF CutInv
<1>7. wasHeld \/ OrderInv'
  <2>1. Handed' = Handed /\ Copied' \subseteq Copied
    BY <1>2, ControlsLeave DEF Handed, Copied, Ready
  <2> QED
    BY <1>1, <1>2, <2>1, OrderStays DEF OrderInv
<1> QED
  BY <1>2, <1>4, <1>5, <1>6, <1>7 DEF TurnInv, Ready
\* A turn reads from the head of the queue.
LEMMA ReadsKeep == ASSUME Ready, Reads PROVE TurnInv'
<1>1. TokenInv /\ SwitchInv /\ CutInv /\ (wasHeld \/ OrderInv)
  BY DEF Ready, TurnInv
<1>2. PICK n \in 0 .. Len(queue) :
        TakeQueued(n) /\ (Step(SubSeq(queue, 1, n)) \/ Answers(SubSeq(queue, 1, n)))
  BY DEF Reads
<1>3. /\ queue' = SubSeq(queue, n + 1, Len(queue)) /\ landed' = landed \o SubSeq(queue, 1, n)
      /\ pc \in {"step", "calling"} /\ pc' \in {"step", "calling", "closing"}
      /\ UNCHANGED <<rxUser, rxControl, stop, alive, model, events>>
      /\ UNCHANGED <<working, held, accepted, shownModel, wasHeld, cut>>
      /\ queue \in Seq(Prompts \cup {Compact}) /\ landed \in Seq(Prompts)
  <2>1. UNCHANGED <<working, held, accepted, shownModel, wasHeld, cut>>
    BY <1>2 DEF TakeQueued, Reads, ghostVars
  <2>2. UNCHANGED <<rxUser, rxControl, stop, alive, model, events>>
    BY <1>2 DEF Step, Answers, Carried, OffWire, flagVars
  <2>3. /\ queue' = SubSeq(queue, n + 1, Len(queue)) /\ landed' = landed \o SubSeq(queue, 1, n)
        /\ pc \in {"step", "calling"} /\ pc' \in {"step", "calling", "closing"}
    BY <1>2 DEF TakeQueued, Step, Answers
  <2> QED
    BY <2>1, <2>2, <2>3 DEF Ready, TypeOK, HubTypeOK, LoopTypeOK
<1>4. LoopBusy /\ LoopBusy'
  BY <1>3 DEF LoopBusy
<1>5. TokenInv' /\ SwitchInv' /\ CutInv'
  BY <1>1, <1>3, <1>4 DEF TokenInv, SwitchInv, CutInv, EndSaid
<1>6. Handed = {} /\ Copied = {} /\ Handed' = {} /\ Copied' = {} /\ working
  BY <1>1, <1>3, <1>4, EmptyOnce DEF TokenInv, Handed, Copied
<1>7. PICK ps \in Seq(Prompts) : ps = SubSeq(queue, 1, n)
  BY <1>2, TakeQueuedTyped DEF Ready, TypeOK
<1>8. /\ Range(queue) = Range(ps) \cup Range(queue') /\ Range(ps) \subseteq Prompts
      /\ Range(landed') = Range(landed) \cup Range(ps)
  <2>1. Range(queue) = Range(ps) \cup Range(queue')
    BY <1>3, <1>7, SplitOnce
  <2>2. Range(ps) \subseteq Prompts
    BY RangeOfSeq
  <2>3. landed \in Seq(Prompts) /\ landed' = landed \o ps
    BY <1>3, <1>7
  <2>4. Range(landed') = Range(landed) \cup Range(ps)
    BY <2>3, RangeConcatenation
  <2> QED
    BY <2>1, <2>2, <2>4
<1>9. ASSUME ~wasHeld PROVE OrderInv' /\ Sorted(landed', accepted')
  <2>1. OrderInv /\ Sorted(landed, accepted)
    BY <1>1, <1>9 DEF Ready, TurnInv
  <2>2. /\ Sorted(ps, accepted) /\ Sorted(queue', accepted)
        /\ \A p \in Range(ps) \cap Prompts :
             \A q \in Range(queue') \cap Prompts : Before(accepted, p, q)
    BY <1>3, <1>7, <2>1, SortedSplit DEF OrderInv
  <2>3. \A p \in Range(landed) \cap Prompts, q \in Range(ps) \cap Prompts :
          Before(accepted, p, q)
    BY <1>8, <2>1 DEF OrderInv, Landed, Queued
  <2>4. Sorted(landed', accepted')
    BY <1>3, <1>7, <2>1, <2>2, <2>3, SortedConcat
  <2>5. Landed' = Landed \cup (Range(ps) \cap Prompts) /\ Queued' \subseteq Queued
        /\ Queued' = Range(queue') \cap Prompts
    BY <1>8 DEF Landed, Queued
  <2>6. \A p \in Landed', q \in Queued' : Before(accepted, p, q)
    BY <2>1, <2>2, <2>5 DEF OrderInv
  <2> QED
    BY <1>3, <1>6, <2>1, <2>2, <2>4, <2>6 DEF OrderInv
<1> QED
  BY <1>3, <1>5, <1>9 DEF TurnInv

\* The end of a turn is told: the session is still marked for it.
LEMMA EndTurnKeeps ==
    ASSUME Ready, EndTurn, UNCHANGED hubVars, cut' = cut \ {Main} PROVE TurnInv'
<1>1. TokenInv /\ SwitchInv /\ CutInv /\ (wasHeld \/ OrderInv)
  BY DEF Ready, TurnInv
<1>2. /\ UNCHANGED <<rxUser, rxControl, stop, model, landed, alive>>
      /\ UNCHANGED <<working, held, queue, accepted, shownModel, wasHeld>>
      /\ events \in Seq(Event) /\ Says(<<Say("turnend")>>)
  BY DEF Ready, TypeOK, WireTypeOK, EndTurn, hubVars, flagVars
<1>3. LoopBusy /\ ~LoopBusy'
  BY DEF EndTurn, LoopBusy, ToTop
<1>4. rxUser = <<>> /\ rxControl = <<>> /\ ~EndSaid /\ working
  BY <1>1, <1>3 DEF TokenInv
<1>5. TokenInv'
  <2>1. EndSaid' /\ Once(events', {Say("turnend")})
    BY <1>1, <1>2, <1>4, EndTells DEF TokenInv
  <2>2. ~AsksTurn(rxControl)
    BY <1>4 DEF AsksTurn
  <2> QED
    BY <1>1, <1>2, <1>3, <1>4, <2>1, <2>2 DEF TokenInv
<1>6. SwitchInv' /\ CutInv'
  BY <1>1, <1>2, <1>3 DEF SwitchInv, CutInv
<1>7. wasHeld \/ OrderInv'
  <2>1. UNCHANGED <<Handed, Copied>>
    BY <1>2 DEF Handed, Copied
  <2> QED
    BY <1>1, <1>2, <2>1, OrderStays DEF OrderInv
<1> QED
  BY <1>2, <1>5, <1>6, <1>7 DEF TurnInv, Ready

-----------------------------------------------------------------------------
(* What the user asks for. *)

\* Nothing is under way in a session that is not marked.
LEMMA Unmarked ==
    ASSUME Ready, ~working
    PROVE  /\ ~LoopBusy /\ ~EndSaid /\ rxUser = <<>> /\ ~AsksTurn(rxControl) /\ cut = {}
           /\ wasHeld \/ queue = <<>>
<1>1. TokenInv /\ CutInv /\ (wasHeld \/ OrderInv)
  BY DEF Ready, TurnInv
<1>2. ~LoopBusy /\ ~EndSaid /\ rxUser = <<>> /\ ~AsksTurn(rxControl)
  BY <1>1 DEF TokenInv
<1>3. cut = {}
  BY <1>1, <1>2, EmptyOnce DEF CutInv
<1> QED
  BY <1>1, <1>2, <1>3 DEF OrderInv

\* A fresh message is accepted after every other.
LEMMA AcceptedLast ==
    ASSUME Ready, NEW p \in Prompts, accepted' = Append(accepted, p), Sorted(landed, accepted)
    PROVE  /\ Sorted(landed, accepted')
           /\ \A a, b : Before(accepted, a, b) => Before(accepted', a, b)
           /\ \A q \in Queued \cup Handed \cup Copied \cup Landed : Before(accepted', q, p)
<1>1. accepted \in Seq(Prompts)
  BY DEF Ready, TypeOK, HubTypeOK
<1>2. Queued \cup Handed \cup Copied \cup Landed \subseteq Range(accepted)
  BY DEF Ready, PlaceInv
<1> QED
  BY <1>1, <1>2, BeforeKept, BeforeNew, SortedKept

LEMMA SendKeeps ==
    ASSUME Ready, NEW p \in Prompts, Send(p), UNCHANGED loopVars,
           UNCHANGED <<rxControl, events, alive, shownModel, wasHeld, cut>>
    PROVE  TurnInv'
<1>1. TokenInv /\ SwitchInv /\ CutInv /\ (wasHeld \/ OrderInv)
  BY DEF Ready, TurnInv
<1>2. UNCHANGED <<LoopBusy, EndSaid, model, landed, Copied, Landed>>
  BY DEF LoopBusy, EndSaid, loopVars, Copied, Landed
<1>3. accepted \in Seq(Prompts) /\ rxUser \in Seq(Prompts) /\ queue \in Seq(Prompts \cup {Compact})
  BY DEF Ready, TypeOK, HubTypeOK, WireTypeOK
<1>4. SwitchInv'
  BY <1>1, <1>2 DEF SwitchInv
<1>5. CASE working
  <2>1. /\ accepted' = Append(accepted, p) /\ queue' = Append(queue, p) /\ held' = FALSE
        /\ UNCHANGED <<working, rxUser, stop>>
    BY <1>5 DEF Send, Enqueue
  <2>2. TokenInv' /\ CutInv'
    BY <1>1, <1>2, <2>1 DEF TokenInv, CutInv
  <2>3. ASSUME ~wasHeld PROVE OrderInv' /\ Sorted(landed', accepted')
    <3>1. OrderInv /\ Sorted(landed, accepted)
      BY <1>1, <2>3 DEF Ready, TurnInv
    <3>2. /\ Sorted(landed, accepted')
          /\ \A a, b : Before(accepted, a, b) => Before(accepted', a, b)
          /\ \A q \in Queued \cup Handed \cup Copied \cup Landed : Before(accepted', q, p)
      BY <2>1, <3>1, AcceptedLast
    <3>3. Queued' = Queued \cup {p} /\ Handed' = Handed
      <4>1. Range(queue') = Range(queue) \cup {p}
        BY <1>3, <2>1, AppendOnce
      <4> QED
        BY <2>1, <4>1 DEF Queued, Handed
    <3>4. Sorted(queue, accepted')
      BY <1>3, <2>1, <3>1, SortedKept DEF OrderInv
    <3>5. Sorted(queue', accepted')
      BY <1>3, <2>1, <3>2, <3>4, SortedAppend DEF Queued
    <3> QED
      BY <1>2, <1>5, <2>1, <3>1, <3>2, <3>3, <3>5 DEF OrderInv
  <2> QED
    BY <1>4, <2>2, <2>3 DEF TurnInv
<1>6. CASE ~working
  <2>1. /\ rxUser' = IF UserRoom THEN Append(rxUser, p) ELSE rxUser
        /\ accepted' = IF UserRoom THEN Append(accepted, p) ELSE accepted
        /\ held' = FALSE /\ queue' = queue /\ working' = UserRoom
    BY <1>6 DEF Send
  <2>2. /\ ~LoopBusy /\ ~EndSaid /\ rxUser = <<>> /\ ~AsksTurn(rxControl) /\ cut = {}
        /\ wasHeld \/ queue = <<>>
    BY <1>6, Unmarked
  <2>3. UserRoom
    BY <2>2, WireAssumption DEF UserRoom, Ready
  <2>4. rxUser' = Append(rxUser, p) /\ Len(rxUser') = 1 /\ working' = TRUE
    BY <1>3, <2>1, <2>2, <2>3
  <2>5. TokenInv'
    BY <1>1, <1>2, <2>2, <2>4 DEF TokenInv
  <2>6. CutInv'
    BY <2>2 DEF CutInv
  <2>7. ASSUME ~wasHeld PROVE OrderInv' /\ Sorted(landed', accepted')
    <3>1. OrderInv /\ Sorted(landed, accepted)
      BY <1>1, <2>7 DEF Ready, TurnInv
    <3>2. /\ Sorted(landed, accepted')
          /\ \A q \in Queued \cup Handed \cup Copied \cup Landed : Before(accepted', q, p)
          /\ \A a, b : Before(accepted, a, b) => Before(accepted', a, b)
      BY <2>1, <2>3, <3>1, AcceptedLast
    <3>3. Handed' = Handed \cup {p} /\ Queued' = {} /\ queue' = <<>>
      <4>1. Range(rxUser') = Range(rxUser) \cup {p}
        BY <1>3, <2>4, AppendOnce
      <4> QED
        BY <2>1, <2>2, <2>7, <4>1, EmptyOnce DEF Queued, Handed
    <3> QED
      BY <1>2, <2>1, <3>1, <3>2, <3>3, SortedShort DEF OrderInv
  <2> QED
    BY <1>4, <2>5, <2>6, <2>7 DEF TurnInv
<1> QED
  BY <1>5, <1>6
\* A control joins the channel of a session with no turn: a turn, which marks it, or
\* a switch or a clear, which does not.
LEMMA SwitchJoins ==
    ASSUME Ready, NEW control \in Control, rxControl' = Append(rxControl, control),
           UNCHANGED model,
           IF control.op = "model" THEN shownModel' = control.arg ELSE UNCHANGED shownModel
    PROVE  SwitchInv'
<1>1. SwitchInv /\ rxControl \in Seq(Control)
  BY DEF Ready, TurnInv, TypeOK, WireTypeOK
<1>2. /\ control.op # "model" => Switches(rxControl') = Switches(rxControl)
      /\ control.op = "model" =>
           Switches(rxControl') = Switches(rxControl) \cup {Len(rxControl) + 1}
      /\ rxControl'[Len(rxControl) + 1] = control
      /\ \A i \in Switches(rxControl) : rxControl'[i] = rxControl[i] /\ i <= Len(rxControl)
      /\ Len(rxControl) \in Nat /\ Switches(rxControl) \subseteq Nat
  BY <1>1, SwitchPosted
<1>3. CASE control.op # "model"
  BY <1>1, <1>2, <1>3 DEF SwitchInv
<1>4. CASE control.op = "model"
  <2>1. Switches(rxControl') # {}
    BY <1>2, <1>4
  <2>2. ASSUME NEW i \in Switches(rxControl'), \A j \in Switches(rxControl') : j <= i
        PROVE  rxControl'[i].arg = shownModel'
    <3>1. Len(rxControl) + 1 <= i
      BY <1>2, <1>4, <2>2
    <3>2. i = Len(rxControl) + 1
      BY <1>2, <1>4, <2>2, <3>1
    <3> QED
      BY <1>2, <1>4, <3>2
  <2> QED
    BY <2>1, <2>2 DEF SwitchInv
<1> QED
  BY <1>3, <1>4

LEMMA TurnAsked ==
    ASSUME Ready, NEW control \in Control, StartTurn(control), UNCHANGED loopVars,
           control.op \in TurnControls \cup {"compact", "forked"},
           UNCHANGED <<queue, shownModel, cut>>,
           \/ UNCHANGED accepted /\ control.op # "forked"
           \/ \E p \in Prompts :
                /\ control = OnCopy(p)
                /\ accepted' = IF ControlRoom THEN Append(accepted, p) ELSE accepted
    PROVE  TurnInv'
<1>1. TokenInv /\ SwitchInv /\ CutInv /\ (wasHeld \/ OrderInv)
  BY DEF Ready, TurnInv
<1>2. /\ ~working /\ working' = ControlRoom
      /\ rxControl' = IF ControlRoom THEN Append(rxControl, control) ELSE rxControl
      /\ UNCHANGED <<rxUser, events, alive, held, wasHeld>>
      /\ rxControl \in Seq(Control) /\ accepted \in Seq(Prompts)
  BY DEF StartTurn, HubRest, Ready, TypeOK, WireTypeOK, HubTypeOK
<1>3. UNCHANGED <<LoopBusy, EndSaid, model, landed, Landed, Queued, Handed>>
  BY <1>2 DEF LoopBusy, EndSaid, loopVars, Landed, Queued, Handed
<1>4. /\ ~LoopBusy /\ ~EndSaid /\ rxUser = <<>> /\ ~AsksTurn(rxControl) /\ cut = {}
      /\ wasHeld \/ queue = <<>>
  BY <1>2, Unmarked
<1>5. TokenInv'
  <2>1. CASE ~ControlRoom
    BY <1>1, <1>2, <1>3, <1>4, <2>1 DEF TokenInv
  <2>2. CASE ControlRoom
    <3>1. rxControl' = Append(rxControl, control) /\ working'
      BY <1>2, <2>2
    <3>2. /\ Len(rxControl) \in Nat /\ Len(rxControl') = Len(rxControl) + 1
          /\ \A i \in 1 .. Len(rxControl) : rxControl'[i] = rxControl[i]
      BY <1>2, <3>1
    <3>3. \A i \in 1 .. Len(rxControl) :
            rxControl[i].op \notin TurnControls \cup {"compact", "forked"}
      BY <1>4 DEF AsksTurn
    <3>4. \A i \in 1 .. Len(rxControl') :
            rxControl'[i].op \in TurnControls \cup {"compact", "forked"} => i = Len(rxControl')
      BY <3>2, <3>3
    <3> QED
      BY <1>1, <1>2, <1>3, <1>4, <3>1, <3>4 DEF TokenInv
  <2> QED
    BY <2>1, <2>2
<1>6. SwitchInv'
  <2>1. control.op # "model"
    BY DEF TurnControls
  <2>2. CASE ~ControlRoom
    BY <1>1, <1>2, <1>3, <2>2 DEF SwitchInv
  <2>3. CASE ControlRoom
    BY <1>2, <1>3, <2>1, <2>3, SwitchJoins
  <2> QED
    BY <2>2, <2>3
<1>7. CutInv'
  BY <1>4 DEF CutInv
<1>8. ASSUME ~wasHeld PROVE OrderInv' /\ Sorted(landed', accepted')
  <2>1. OrderInv /\ Sorted(landed, accepted) /\ queue = <<>> /\ Queued = {} /\ Handed = {}
    BY <1>1, <1>4, <1>8, EmptyOnce DEF Ready, TurnInv, Queued, Handed
  <2>2. CASE UNCHANGED accepted /\ (control.op # "forked" \/ ~ControlRoom)
    <3>1. Copied' \subseteq Copied
      <4>1. ASSUME control.op # "forked", ControlRoom PROVE Copied' \subseteq Copied
        <5>1. Range(rxControl') = Range(rxControl) \cup {control}
          BY <1>2, <4>1, ControlsJoin DEF Ready
        <5> QED
          BY <4>1, <5>1 DEF Copied, OnCopy
      <4>2. ASSUME ~ControlRoom PROVE Copied' = Copied
        BY <1>2, <4>2 DEF Copied
      <4> QED
        BY <2>2, <4>1, <4>2
    <3> QED
      BY <1>2, <1>3, <2>1, <2>2, <3>1, OrderStays
  <2>3. ASSUME ControlRoom, NEW p \in Prompts, control = OnCopy(p),
               accepted' = Append(accepted, p)
        PROVE  OrderInv' /\ Sorted(landed', accepted')
    <3>1. /\ Sorted(landed, accepted')
          /\ \A q \in Queued \cup Handed \cup Copied \cup Landed : Before(accepted', q, p)
          /\ \A a, b : Before(accepted, a, b) => Before(accepted', a, b)
      BY <2>1, <2>3, AcceptedLast
    <3>2. Copied' = Copied \cup {p}
      <4>1. Range(rxControl') = Range(rxControl) \cup {control}
        BY <1>2, <2>3, ControlsJoin DEF Ready
      <4> QED
        BY <2>3, <4>1 DEF Copied, OnCopy
    <3> QED
      BY <1>2, <1>3, <2>1, <3>1, <3>2, SortedShort DEF OrderInv
  <2> QED
    BY <2>2, <2>3
<1> QED
  BY <1>2, <1>5, <1>6, <1>7, <1>8 DEF TurnInv

LEMMA PostKeeps ==
    ASSUME Ready, ~working, NEW control \in Control, Post(control), HubRest,
           control.op \in {"model", "clear"},
           IF control.op = "model" THEN shownModel' = control.arg ELSE UNCHANGED shownModel,
           UNCHANGED loopVars, UNCHANGED <<working, queue, accepted, cut>>
    PROVE  TurnInv'
<1>1. TokenInv /\ SwitchInv /\ CutInv /\ (wasHeld \/ OrderInv)
  BY DEF Ready, TurnInv
<1>2. /\ rxControl' = Append(rxControl, control) /\ rxControl \in Seq(Control)
      /\ UNCHANGED <<rxUser, events, alive, held, wasHeld>>
      /\ control.op \notin TurnControls \cup {"compact", "forked"}
  BY DEF Post, HubRest, Ready, TypeOK, WireTypeOK, TurnControls
<1>3. UNCHANGED <<LoopBusy, EndSaid, model, landed, Handed>>
  BY <1>2 DEF LoopBusy, EndSaid, loopVars, Handed
<1>4. /\ ~LoopBusy /\ ~EndSaid /\ rxUser = <<>> /\ ~AsksTurn(rxControl) /\ cut = {}
  BY Unmarked
<1>5. TokenInv'
  <2>1. ~AsksTurn(rxControl')
    BY <1>2, <1>4, AsksTurnAppend
  <2> QED
    BY <1>1, <1>2, <1>3, <1>4, <2>1 DEF TokenInv, AsksTurn
<1>6. SwitchInv'
  BY <1>2, <1>3, SwitchJoins
<1>7. CutInv'
  BY <1>4 DEF CutInv
<1>8. wasHeld \/ OrderInv'
  <2>1. Copied' \subseteq Copied
    <3>1. Range(rxControl') = Range(rxControl) \cup {control}
      BY <1>2, ControlsJoin DEF Ready
    <3> QED
      BY <1>2, <3>1 DEF Copied, OnCopy
  <2> QED
    BY <1>1, <1>2, <1>3, <2>1, OrderStays DEF OrderInv
<1> QED
  BY <1>2, <1>3, <1>5, <1>6, <1>7, <1>8 DEF TurnInv, Ready

\* The queue is given back, or gets a /compact behind what it holds.
LEMMA QueueKeeps ==
    ASSUME Ready, UNCHANGED loopVars, UNCHANGED wireVars,
           UNCHANGED <<working, held, shownModel, accepted, wasHeld, cut>>,
           queue' = <<>> \/ (working /\ queue' = Append(queue, Compact))
    PROVE  TurnInv'
<1>1. TokenInv /\ SwitchInv /\ CutInv /\ (wasHeld \/ OrderInv)
  BY DEF Ready, TurnInv
<1>2. /\ UNCHANGED <<rxUser, rxControl, events, stop, alive, model, landed>>
      /\ UNCHANGED <<LoopBusy, EndSaid, Landed, Handed, Copied>>
      /\ queue \in Seq(Prompts \cup {Compact})
  BY DEF wireVars, loopVars, LoopBusy, EndSaid, Landed, Handed, Copied, Ready, TypeOK, HubTypeOK
<1>3. TokenInv' /\ SwitchInv' /\ CutInv'
  BY <1>1, <1>2 DEF TokenInv, SwitchInv, CutInv
<1>4. ASSUME OrderInv PROVE OrderInv'
  <2>1. CASE queue' = <<>>
    <3>1. Queued' = {} /\ Sorted(queue', accepted')
      BY <2>1, EmptyOnce, SortedShort DEF Queued
    <3> QED
      BY <1>2, <1>4, <2>1, <3>1 DEF OrderInv
  <2>2. CASE working /\ queue' = Append(queue, Compact)
    <3>1. Range(queue') = Range(queue) \cup {Compact} /\ Sorted(queue', accepted)
      BY <1>2, <1>4, <2>2, AppendOnce, SortedAppend, WireAssumption DEF OrderInv
    <3>2. Queued' = Queued
      BY <3>1, WireAssumption DEF Queued
    <3> QED
      BY <1>2, <1>4, <2>2, <3>1, <3>2 DEF OrderInv
  <2> QED
    BY <2>1, <2>2
<1> QED
  BY <1>1, <1>2, <1>3, <1>4 DEF TurnInv, Ready
-----------------------------------------------------------------------------
(* The pump: the end of a turn starts what waits behind it. *)

LEMMA OnTurnEndKeeps ==
    ASSUME Ready, OnTurnEnd, UNCHANGED loopVars, UNCHANGED cut PROVE TurnInv'
<1>1. TokenInv /\ SwitchInv /\ CutInv /\ (wasHeld \/ OrderInv)
  BY DEF Ready, TurnInv
<1>2. /\ Hears /\ Head(events) = Say("turnend") /\ events \in Seq(Event)
      /\ UNCHANGED <<alive, held, shownModel, accepted, wasHeld>>
  <2>1. Head(events).kind = "turnend" /\ Hears
    BY DEF OnTurnEnd, Heard, Pumped, Hears
  <2>2. Head(events) = Say("turnend")
    BY <2>1, HeadIs DEF Hears, Ready
  <2> QED
    BY <2>1, <2>2 DEF OnTurnEnd, Pumped, Ready, TypeOK, WireTypeOK
<1>3. UNCHANGED <<LoopBusy, model, landed, Landed>>
  BY DEF LoopBusy, loopVars, Landed
<1>4. EndSaid /\ ~EndSaid' /\ Once(events', {Say("turnend")})
  BY <1>1, <1>2, HearsTell DEF TokenInv, EndSaid
<1>5. ~LoopBusy /\ rxUser = <<>> /\ rxControl = <<>>
  BY <1>1, <1>4 DEF TokenInv
<1>6. cut = {} /\ Handed = {} /\ Copied = {} /\ model = shownModel
  <2>1. Range(rxUser) = {} /\ Range(rxControl) = {} /\ Switches(rxControl) = {}
    BY <1>5, EmptyOnce DEF Switches
  <2> QED
    BY <1>1, <1>5, <2>1 DEF CutInv, SwitchInv, Handed, Copied
<1>7. UserRoom /\ ControlRoom
  BY <1>5, WireAssumption DEF UserRoom, ControlRoom, Ready
<1>8. CutInv'
  BY <1>6 DEF CutInv
<1>9. /\ queue \in Seq(Prompts \cup {Compact})
      /\ queue # <<>> => Head(queue) \in Prompts \cup {Compact}
  BY DEF Ready, TypeOK, HubTypeOK
<1>10. CASE /\ UNCHANGED <<queue, rxUser, rxControl>> /\ working' = FALSE
            /\ held \/ queue = <<>>
  <2>1. TokenInv'
    <3>1. ~AsksTurn(rxControl') /\ Len(rxUser') = 0 /\ Len(rxControl') = 0
      BY <1>5, <1>10 DEF AsksTurn
    <3> QED
      BY <1>3, <1>4, <1>5, <1>10, <3>1 DEF TokenInv
  <2>2. SwitchInv'
    BY <1>1, <1>2, <1>3, <1>10 DEF SwitchInv
  <2>3. wasHeld \/ OrderInv'
    <3>1. UNCHANGED <<Handed, Copied>>
      BY <1>10 DEF Handed, Copied
    <3>2. OrderInv => queue = <<>>
      BY <1>10 DEF OrderInv
    <3> QED
      BY <1>1, <1>2, <1>3, <1>10, <3>1, <3>2, OrderStays
  <2> QED
    BY <1>2, <1>3, <1>8, <2>1, <2>2, <2>3 DEF TurnInv, Ready
<1>11. CASE /\ queue # <<>> /\ Head(queue) = Compact /\ queue' = Tail(queue)
            /\ rxControl' = Append(rxControl, Plain("compact")) /\ rxUser' = rxUser
            /\ working' = TRUE
  <2>1. Plain("compact") \in Control /\ Plain("compact").op = "compact"
    BY PlainTyped DEF Plain, PlainControls
  <2>2. Len(rxControl') = 1 /\ Len(rxUser') = 0
    BY <1>5, <1>11
  <2>3. TokenInv'
    BY <1>3, <1>4, <1>5, <1>11, <2>2 DEF TokenInv
  <2>4. SwitchInv'
    BY <1>2, <1>3, <1>11, <2>1, SwitchJoins
  <2>5. ASSUME OrderInv PROVE OrderInv'
    <3>1. Sorted(queue', accepted) /\ Range(queue) = Range(queue') \cup {Compact}
      BY <1>9, <1>11, <2>5, SortedTail, TailOnce DEF OrderInv
    <3>2. Queued' = Queued
      BY <3>1, WireAssumption DEF Queued
    <3>3. Range(rxControl') = Range(rxControl) \cup {Plain("compact")}
      BY <1>11, <2>1, ControlsJoin DEF Ready
    <3>4. Copied' = Copied /\ Handed' = Handed
      BY <1>11, <2>1, <3>3 DEF Copied, Handed, OnCopy
    <3> QED
      BY <1>2, <1>3, <1>11, <2>5, <3>1, <3>2, <3>4 DEF OrderInv
  <2> QED
    BY <1>1, <1>2, <1>3, <1>8, <2>3, <2>4, <2>5 DEF TurnInv, Ready
<1>12. CASE /\ queue # <<>> /\ Head(queue) # Compact /\ queue' = Tail(queue)
            /\ rxUser' = Append(rxUser, Head(queue)) /\ rxControl' = rxControl
            /\ working' = TRUE
  <2>1. PICK p \in Prompts : p = Head(queue)
    BY <1>9, <1>12
  <2>2. Len(rxControl') = 0 /\ Len(rxUser') = 1 /\ rxControl' = <<>> /\ rxUser' = <<p>>
    BY <1>5, <1>12, <2>1
  <2>3. TokenInv'
    <3>1. ~AsksTurn(rxControl')
      BY <2>2 DEF AsksTurn
    <3> QED
      BY <1>3, <1>4, <1>5, <1>12, <2>2, <3>1 DEF TokenInv
  <2>4. SwitchInv'
    BY <1>1, <1>2, <1>3, <1>12 DEF SwitchInv
  <2>5. ASSUME OrderInv PROVE OrderInv'
    <3>1. /\ Sorted(queue', accepted)
          /\ \A q \in Range(queue') \cap Prompts : Before(accepted, p, q)
          /\ Range(queue) = Range(queue') \cup {p}
      BY <1>9, <1>12, <2>1, <2>5, SortedTail, TailOnce DEF OrderInv
    <3>2. Queued = Queued' \cup {p}
      BY <3>1 DEF Queued
    <3>3. Handed' = {p} /\ Copied' = {}
      BY <1>6, <1>12, <2>2, OneRange DEF Copied, Handed
    <3> QED
      BY <1>2, <1>3, <1>12, <2>5, <3>1, <3>2, <3>3 DEF OrderInv, Queued
  <2> QED
    BY <1>1, <1>2, <1>3, <1>8, <2>3, <2>4, <2>5 DEF TurnInv, Ready
<1> QED
  BY <1>7, <1>10, <1>11, <1>12 DEF OnTurnEnd, Quiet
-----------------------------------------------------------------------------
(* The steps of the composition. *)

LEMMA UserSendsKeeps == ASSUME Ready, UserSends PROVE TurnInv'
<1>1. UNCHANGED loopVars /\ UNCHANGED <<cut, LoopBusy>>
  BY DEF UserSends, ghostVars, LoopBusy, loopVars
<1>2. ASSUME NEW p \in Prompts, Submit(p) PROVE TurnInv'
  BY <1>1, <1>2, SendKeeps DEF Submit, Kept
<1>3. ASSUME SubmitReleased PROVE TurnInv'
  <2>1. autoGo \in Prompts
    BY <1>3, WireAssumption DEF SubmitReleased, Ready, TypeOK, HubTypeOK
  <2> QED
    BY <1>1, <1>3, <2>1, SendKeeps DEF SubmitReleased, Kept
<1>4. ASSUME NEW p \in Prompts, SubmitAutomatic(p) PROVE TurnInv'
  <2>1. CASE held
    <3>1. /\ UNCHANGED <<rxUser, rxControl, events, stop, alive, model, shownModel, working>>
          /\ accepted' = Append(accepted, p) /\ UNCHANGED <<landed, wasHeld, cut, EndSaid>>
      BY <1>1, <1>4, <2>1 DEF SubmitAutomatic, Kept, wireVars, loopVars, EndSaid
    <3>2. wasHeld
      BY <2>1 DEF Ready, TurnInv, OrderInv
    <3> QED
      BY <1>1, <3>1, <3>2 DEF Ready, TurnInv, TokenInv, SwitchInv, CutInv
  <2>2. CASE ~held
    <3>1. Still
      BY <1>1, <1>4, <2>2 DEF SubmitAutomatic, Kept, wireVars, loopVars, Still, Chats,
                              HeldStays
    <3> QED
      BY <3>1, StillKeeps
  <2> QED
    BY <2>1, <2>2
<1>5. ASSUME RejectPending \/ \E answer \in {"accept", "reject"} : Answer(answer)
      PROVE  TurnInv'
  <2>1. Still
    BY <1>1, <1>5 DEF RejectPending, Answer, HubBut, chanVars, flagVars, loopVars, Still,
                      Chats, HeldStays
  <2> QED
    BY <2>1, StillKeeps
<1> QED
  BY <1>2, <1>3, <1>4, <1>5 DEF UserSends

LEMMA UserDoesKeeps == ASSUME Ready, UserDoes PROVE TurnInv'
<1>1. UNCHANGED loopVars /\ UNCHANGED cut
  BY DEF UserDoes, Uncut
<1>2. ASSUME NEW op \in TurnControls \cup {"compact"}, StartTurn(Plain(op)),
             UNCHANGED <<queue, accepted, shownModel>>
      PROVE  TurnInv'
  <2>1. /\ Plain(op) \in Control /\ Plain(op).op = op
        /\ op \in TurnControls \cup {"compact", "forked"} /\ op # "forked"
    BY PlainTyped DEF Plain, PlainControls, TurnControls
  <2> QED
    BY <1>1, <1>2, <2>1, TurnAsked
<1>3. ASSUME NEW p \in Prompts, SubmitForked(p) PROVE TurnInv'
  <2>1. OnCopy(p) \in Control /\ OnCopy(p).op = "forked"
    BY DEF OnCopy, Control
  <2>2. /\ StartTurn(OnCopy(p)) /\ UNCHANGED <<queue, shownModel>>
        /\ accepted' = IF ControlRoom THEN Append(accepted, p) ELSE accepted
    BY <1>3 DEF SubmitForked, OnCopy
  <2> QED
    BY <1>1, <2>1, <2>2, TurnAsked
<1>4. ASSUME DropQueue PROVE TurnInv'
  BY <1>1, <1>4, QueueKeeps DEF DropQueue
<1>5. ASSUME AskCompact PROVE TurnInv'
  <2>1. ASSUME working, Enqueue(Compact), HubRest,
               UNCHANGED <<working, shownModel, accepted, wireVars>>
        PROVE  TurnInv'
    BY <1>1, <2>1, QueueKeeps DEF Enqueue, HubRest
  <2> QED
    BY <1>2, <1>5, <2>1 DEF AskCompact
<1>6. ASSUME NEW m \in Models, SetModel(m) PROVE TurnInv'
  <2>1. /\ [op |-> "model", arg |-> m] \in Control
        /\ [op |-> "model", arg |-> m].op = "model" /\ [op |-> "model", arg |-> m].arg = m
    BY DEF Control
  <2> QED
    BY <1>1, <1>6, <2>1, PostKeeps DEF SetModel
<1>7. ASSUME Clear PROVE TurnInv'
  <2>1. Plain("clear") \in Control /\ Plain("clear").op = "clear"
    BY PlainTyped DEF Plain, PlainControls
  <2> QED
    BY <1>1, <1>7, <2>1, PostKeeps DEF Clear
<1>8. /\ ~\E command \in GoalCommands : Does(command) /\ SetGoal(command)
      /\ ~\E c \in Children : InterruptChild(c)
  BY DEF Ready, OnlyTyped, Does
<1>9. ASSUME Interrupt PROVE TurnInv'
  <2>1. UNCHANGED LoopBusy
    BY <1>1 DEF loopVars, LoopBusy
  <2>2. Still
    BY <1>1, <1>9, <2>1 DEF Interrupt, HubBut, wireVars, chanVars, flagVars, loopVars, Still,
                            Chats, HeldStays
  <2> QED
    BY <2>2, StillKeeps
<1> QED
  BY <1>2, <1>3, <1>4, <1>5, <1>6, <1>7, <1>8, <1>9 DEF UserDoes, StartControl

LEMMA UserInterruptsKeeps == ASSUME Ready, UserInterrupts PROVE TurnInv'
<1>1. Busy => LoopBusy
  BY DEF Busy, LoopBusy, InTurn, Wrapping
<1>2. UNCHANGED LoopBusy
  BY DEF UserInterrupts, loopVars, LoopBusy
<1>3. Still
  <2>1. CASE StopTurn
    BY <1>1, <1>2, <2>1 DEF UserInterrupts, StopTurn, StopChildren, HubBut, chanVars, loopVars,
                            Still, Chats, HeldStays
  <2>2. CASE StopChildren
    BY <1>2, <2>2 DEF UserInterrupts, StopTurn, StopChildren, HubBut, chanVars, loopVars,
                      Still, Chats, HeldStays
  <2> QED
    BY <2>1, <2>2 DEF UserInterrupts
<1> QED
  BY <1>3, StillKeeps

LEMMA PumpsKeep == ASSUME Ready, Pumps PROVE TurnInv'
<1>1. UNCHANGED loopVars /\ UNCHANGED <<cut, LoopBusy>>
  BY DEF Pumps, ghostVars, LoopBusy, loopVars
<1>2. ASSUME OnTurnEnd PROVE TurnInv'
  BY <1>1, <1>2, OnTurnEndKeeps
<1>3. ASSUME OnResumed PROVE FALSE
  <2>1. Head(events) = Say("resumed") /\ Head(events) \in Range(events)
    BY <1>3, HeadIs, HearsTell DEF OnResumed, Heard, Pumped, Hears, Ready, TypeOK, WireTypeOK
  <2> QED
    BY <2>1 DEF Ready, QuietInv
<1>4. ASSUME OnApproval \/ OnAuthFailed \/ OnOther PROVE TurnInv'
  <2>1. Hears /\ Head(events).kind # "turnend"
    BY <1>4 DEF OnApproval, OnAuthFailed, OnOther, Heard, Pumped, Hears
  <2>2. Head(events) # Say("turnend")
    BY <2>1 DEF Say
  <2>3. UNCHANGED <<rxUser, rxControl, working, queue, accepted, shownModel, stop>> /\ HeldStays
    BY <1>4 DEF OnApproval, OnAuthFailed, OnOther, Quiet, HubBut, HeldStays
  <2>4. Still
    BY <1>1, <2>1, <2>2, <2>3 DEF Still, loopVars
  <2> QED
    BY <2>4, StillKeeps
<1> QED
  BY <1>2, <1>3, <1>4 DEF Pumps, Pump

\* A step inside a turn, or between turns, that takes nothing.
LEMMA WorkKeeps ==
    ASSUME Ready, UNCHANGED hubVars, LoopBusy' <=> LoopBusy, Chats,
           UNCHANGED <<rxUser, rxControl, landed, model, stop, cut>>
    PROVE  TurnInv'
<1>1. Still
  BY DEF hubVars, Still, HeldStays
<1> QED
  BY <1>1, StillKeeps

LEMMA NoMidTurn == ASSUME Ready PROVE ~ControlMidTurn
  BY DEF Ready, TurnInv, TokenInv, ControlMidTurn, LoopBusy, InTurn

LEMMA WorksKeep == ASSUME Ready, Works PROVE TurnInv'
<1>1. UNCHANGED hubVars /\ UNCHANGED cut /\ events \in Seq(Event)
  BY DEF Works, ghostVars, Ready, TypeOK, WireTypeOK
<1>2. CASE TakeCompact \/ TakeAside
  <2>1. PICK op \in {"compact", "btw", "workflow"} : TakesControl(op)
    BY <1>2 DEF TakeCompact, TakeAside
  <2>2. LoopBusy' /\ Chats /\ UNCHANGED <<model, landed>>
    BY <1>1, <1>2, ForkChats DEF TakeCompact, TakeAside, LoopBusy, Chats
  <2>3. op \in TurnControls \cup {"compact", "forked"}
    BY DEF TurnControls
  <2> QED
    BY <1>1, <2>1, <2>2, <2>3, TurnTaken
<1>3. CASE TakeModel
  <2>1. ~LoopBusy' /\ Chats
    BY <1>1, <1>3, ForkChats DEF TakeModel, ToTop, LoopBusy
  <2> QED
    BY <1>1, <1>3, <2>1, PlainTaken DEF TakeModel
<1>4. CASE StartFork \/ EndFork
  <2>1. LoopBusy' <=> LoopBusy
    BY <1>4 DEF StartFork, EndFork, Idle, ToTop, LoopBusy
  <2>2. Chats
    BY <1>4, SayChats DEF StartFork, EndFork, EventKinds, ChildEvents, Chats, wireVars
  <2>3. UNCHANGED <<rxUser, rxControl, landed, model, stop>>
    BY <1>4 DEF StartFork, EndFork, wireVars, flagVars
  <2> QED
    BY <1>1, <2>1, <2>2, <2>3, WorkKeeps
<1>5. CASE CallEnds \/ Ask \/ Answered \/ ToolsDone \/ After
  <2>1. LoopBusy' /\ LoopBusy
    BY <1>5 DEF CallEnds, Ask, Answered, ToolsDone, After, LoopBusy
  <2>2. Chats
    BY <1>5, SayChats DEF CallEnds, Ask, Answered, ToolsDone, After, Returned, EventKinds,
                          ChildEvents, Chats
  <2>3. UNCHANGED <<rxUser, rxControl, landed, model, stop>>
    BY <1>5 DEF CallEnds, Ask, Answered, ToolsDone, After, Returned, Carried, OffWire, flagVars
  <2> QED
    BY <1>1, <2>1, <2>2, <2>3, WorkKeeps
<1>6. CASE Close \/ Mark \/ EndCompaction
  <2>1. LoopBusy' /\ LoopBusy
    BY <1>6 DEF Close, Mark, EndCompaction, Open, LoopBusy
  <2>2. Chats
    <3>1. events \o <<>> = events
      BY <1>1
    <3>2. ASSUME Says(IF outcome = "auth" THEN <<Say("authfailed")>> ELSE <<>>) PROVE Chats
      <4>1. CASE outcome = "auth"
        BY <3>2, <4>1, SayChats DEF EventKinds, ChildEvents
      <4>2. CASE outcome # "auth"
        BY <3>1, <3>2, <4>2 DEF Says, Chats
      <4> QED
        BY <4>1, <4>2
    <3> QED
      BY <1>6, <3>2 DEF Close, Mark, EndCompaction, Chats
  <2>3. UNCHANGED <<rxUser, rxControl, landed, model, stop>>
    BY <1>6 DEF Close, Mark, EndCompaction, Ended, flagVars
  <2> QED
    BY <1>1, <2>1, <2>2, <2>3, WorkKeeps
<1>7. ~Watch /\ ~ControlMidTurn /\ ~\E c \in Children : Spawn(c) \/ Joins(c)
  BY NoMidTurn DEF Ready, MarkInv, Watch, OnlyTyped
<1> QED
  BY <1>2, <1>3, <1>4, <1>5, <1>6, <1>7 DEF Works

LEMMA OpensKeep == ASSUME Ready, Opens PROVE TurnInv'
<1>1. UNCHANGED hubVars /\ events \in Seq(Event)
  BY DEF Opens, Ready, TypeOK, WireTypeOK
<1>2. CASE TakePrompt
  <2>1. cut' = (cut \ {Head(rxUser), Main}) \cup (IF Head(rxUser) \in cut THEN {Main} ELSE {})
        \/ cut' = cut \ {Main}
    BY DEF Opens
  <2>2. ~TakeRetry /\ ~TakeForked /\ ~TakeReport /\ ~TakeGoal
    BY <1>2 DEF TakePrompt, TakeRetry, TakeForked, TakesControl, TakeReport, TakeGoal, Idle
  <2> QED
    BY <1>1, <1>2, <2>2, TakePromptKeeps DEF Opens
<1>3. CASE TakeRetry
  <2>1. cut' \subseteq cut
    <3>1. ~TakePrompt
      BY <1>3 DEF TakePrompt, TakeRetry, TakesControl
    <3> QED
      BY <3>1 DEF Opens
  <2>2. LoopBusy' /\ Chats /\ UNCHANGED <<model, landed>> /\ TakesControl("retry")
    BY <1>1, <1>3, ForkChats DEF TakeRetry, Open, LoopBusy
  <2>3. "retry" \in TurnControls \cup {"compact", "forked"}
    BY DEF TurnControls
  <2> QED
    BY <1>1, <2>1, <2>2, <2>3, TurnTaken
<1>4. CASE TakeForked
  <2>1. cut' \subseteq cut
    <3>1. ~TakePrompt
      BY <1>4 DEF TakePrompt, TakeForked, TakesControl
    <3> QED
      BY <3>1 DEF Opens
  <2>2. /\ UNCHANGED model /\ TakesControl("forked")
        /\ \/ LoopBusy' /\ Chats
           \/ ~LoopBusy' /\ Says(<<Say("turnend")>>)
        /\ landed' = landed \/ landed' = Append(landed, Head(rxControl).arg)
    BY <1>1, <1>4, ForkChats DEF TakeForked, Open, ToTop, LoopBusy
  <2> QED
    BY <1>1, <2>1, <2>2, TurnTaken
<1> QED
  BY <1>2, <1>3, <1>4, NoReports, NoGoal DEF Opens, Ready

LEMMA SteersKeep == ASSUME Ready, Steers PROVE TurnInv'
<1>1. UNCHANGED hubVars /\ UNCHANGED cut /\ events \in Seq(Event)
  BY DEF Steers, ghostVars, Ready, TypeOK, WireTypeOK
<1>2. TakeClear
  BY NoGoal, NoMidTurn DEF Steers, Ready
<1>3. ~LoopBusy' /\ Chats /\ UNCHANGED <<landed, model>> /\ TakesControl("clear")
  BY <1>1, <1>2, ForkChats DEF TakeClear, ToTop, LoopBusy
<1> QED
  BY <1>1, <1>3, PlainTaken

\* Of a loop that is dead or dies nothing is owed but what was read.
LEMMA DeadKeeps ==
    ASSUME TypeOK, MarkInv, TurnInv, Next, ~alive \/ Panic
    PROVE  TurnInv'
<1>1. UNCHANGED landed /\ ~alive'
  <2>1. CASE ~alive
    <3>1. pc \in {"panicked", "dead"}
      BY <2>1 DEF MarkInv, TypeOK, LoopTypeOK, WireTypeOK
    <3>2. CASE Loop
      <4>1. ~Opens
        BY <3>1 DEF Opens, TakePrompt, TakeRetry, TakeForked, TakeReport, TakeGoal,
                    TakesControl, Idle
      <4>2. ~Ends /\ ~Steers
        BY <2>1, <3>1 DEF Ends, EndTurn, Panic, Steers, TakeGoalCommand, TakeClear, GoalTool,
                    ControlMidTurn, TakesControl, InTurn
      <4>3. ~Reads
        BY <3>1 DEF Reads, Step, Answers
      <4>4. Works => Watch
        BY <3>1 DEF Works, TakeCompact, TakeAside, TakeModel, StartFork, EndFork, CallEnds, Ask,
                    Answered, ToolsDone, After, Close, Mark, EndCompaction, ControlMidTurn,
                    Spawn, Joins, Born, TakesControl, Idle, InTurn
      <4> QED
        BY <2>1, <3>2, <4>1, <4>2, <4>3, <4>4 DEF Loop, Watch, Ended
    <3>3. CASE UserSends
      BY <2>1, <3>3 DEF UserSends, Submit, SubmitAutomatic, SubmitReleased, Answer,
                        RejectPending, wireVars, loopVars
    <3>4. CASE UserDoes
      <4>1. UNCHANGED alive
        BY <3>4 DEF UserDoes, DropQueue, StartControl, SubmitForked, AskCompact, SetModel,
                    Clear, SetGoal, InterruptChild, Interrupt, StartTurn, Post, wireVars,
                    childVars
      <4>2. UNCHANGED landed
        BY <3>4 DEF UserDoes, loopVars
      <4> QED
        BY <2>1, <4>1, <4>2
    <3>5. CASE UserInterrupts \/ Pumps
      <4>1. UNCHANGED alive
        BY <3>5 DEF UserInterrupts, StopTurn, StopChildren, Pumps, Pump, OnApproval,
                    OnResumed, OnAuthFailed, OnTurnEnd, OnOther, Pumped
      <4>2. UNCHANGED landed
        BY <3>5 DEF UserInterrupts, Pumps, loopVars
      <4> QED
        BY <2>1, <4>1, <4>2
    <3>6. CASE \E c \in Children : ChildWorks(c)
      BY <2>1, <3>6 DEF ChildWorks, ChildStep, ChildStart, ChildAsk, ChildAnswered, ChildEnd,
                        ChildReport, ChildOnly, loopVars
    <3> QED
      BY <3>2, <3>3, <3>4, <3>5, <3>6 DEF Next
  <2>2. CASE Panic
    BY <2>2 DEF Panic
  <2> QED
    BY <2>1, <2>2
<1>2. /\ wasHeld => wasHeld'
      /\ accepted' = accepted \/ \E p \in Prompts : accepted' = Append(accepted, p)
  <2>1. CASE UserSends
    <3>1. autoGo # None => autoGo \in Prompts
      BY WireAssumption DEF TypeOK, HubTypeOK
    <3>2. ASSUME NEW p \in Prompts, Send(p)
          PROVE  accepted' = accepted \/ accepted' = Append(accepted, p)
      BY <3>2 DEF Send
    <3>3. CASE \E p \in Prompts : Submit(p) \/ SubmitAutomatic(p)
      BY <3>2, <3>3 DEF Submit, SubmitAutomatic, Kept
    <3>4. CASE SubmitReleased
      BY <3>1, <3>2, <3>4 DEF SubmitReleased, Kept
    <3>5. CASE RejectPending \/ \E answer \in {"accept", "reject"} : Answer(answer)
      BY <3>5 DEF RejectPending, Answer, HubBut
    <3> QED
      BY <2>1, <3>3, <3>4, <3>5 DEF UserSends
  <2>2. CASE UserDoes
    <3>1. ASSUME NEW p \in Prompts, SubmitForked(p)
          PROVE  /\ UNCHANGED wasHeld
                 /\ accepted' = accepted \/ accepted' = Append(accepted, p)
      BY <3>1 DEF SubmitForked, StartTurn, HubRest
    <3>2. ASSUME ~\E p \in Prompts : SubmitForked(p) PROVE UNCHANGED <<wasHeld, accepted>>
      <4>1. CASE DropQueue \/ \E c \in Children : InterruptChild(c)
        BY <4>1 DEF DropQueue, InterruptChild, hubVars
      <4>2. CASE AskCompact \/ \E op \in TurnControls : StartControl(op)
        BY <4>2 DEF AskCompact, StartControl, StartTurn, HubRest
      <4>3. CASE \/ Clear \/ \E m \in Models : SetModel(m)
                 \/ \E command \in GoalCommands : SetGoal(command)
        BY <4>3 DEF Clear, SetModel, SetGoal, HubRest
      <4>4. CASE Interrupt
        BY <4>4 DEF Interrupt, HubBut
      <4> QED
        BY <2>2, <3>2, <4>1, <4>2, <4>3, <4>4 DEF UserDoes
    <3> QED
      BY <3>1, <3>2
  <2>3. CASE UserInterrupts \/ Pumps
    <3>1. UNCHANGED accepted /\ (UNCHANGED wasHeld \/ wasHeld' = TRUE)
      BY <2>3 DEF UserInterrupts, StopTurn, StopChildren, HubBut, Pumps, Pump, OnApproval,
                  OnResumed, OnAuthFailed, OnTurnEnd, OnOther
    <3> QED
      BY <3>1
  <2>4. CASE \E c \in Children : ChildWorks(c)
    BY <2>4 DEF ChildWorks, hubVars
  <2>5. CASE Loop
    BY <2>5 DEF Loop, Opens, Ends, Steers, Works, Reads, TakeQueued, hubVars
  <2> QED
    BY <2>1, <2>2, <2>3, <2>4, <2>5 DEF Next
<1>3. accepted \in Seq(Prompts)
  BY DEF TypeOK, HubTypeOK
<1>4. wasHeld' \/ Sorted(landed', accepted')
  BY <1>1, <1>2, <1>3, SortedKept DEF TurnInv
<1> QED
  BY <1>1, <1>4 DEF TurnInv

LEMMA StepTurns ==
    ASSUME TypeOK, OnlyTyped, QuietInv, PlaceInv, MarkInv, TurnInv, [Next]_vars
    PROVE  TurnInv'
<1>1. TypeOK'
  BY NextTyped
<1>2. CASE UNCHANGED vars
  <2>1. UNCHANGED <<landed, accepted, wasHeld, alive>>
    BY <1>2 DEF vars, wireVars, hubVars, loopVars
  <2>2. CASE ~alive
    BY <2>1, <2>2 DEF TurnInv
  <2>3. CASE alive
    <3>1. Ready
      BY <1>1, <2>3 DEF Ready
    <3>2. Still
      <4>1. UNCHANGED LoopBusy
        BY <1>2 DEF vars, loopVars, LoopBusy
      <4> QED
        BY <1>2, <4>1 DEF vars, wireVars, hubVars, loopVars, ghostVars, Still, Chats, HeldStays
    <3> QED
      BY <3>1, <3>2, StillKeeps
  <2> QED
    BY <2>2, <2>3
<1>3. CASE Next /\ (~alive \/ Panic)
  BY <1>3, DeadKeeps
<1>4. CASE Next /\ alive /\ ~Panic
  <2>1. Ready
    BY <1>1, <1>4 DEF Ready
  <2>2. CASE Ends
    BY <1>4, <2>1, <2>2, EndTurnKeeps DEF Ends
  <2>3. ~\E c \in Children : ChildWorks(c)
    BY DEF OnlyTyped
  <2> QED
    BY <1>4, <2>1, <2>2, <2>3, UserSendsKeeps, UserDoesKeeps, UserInterruptsKeeps, PumpsKeep,
       OpensKeep, SteersKeep, ReadsKeep, WorksKeep DEF Next, Loop
<1> QED
  BY <1>2, <1>3, <1>4

LEMMA TurnStarts == Init => QuietInv /\ TurnInv
<1> SUFFICES ASSUME Init PROVE QuietInv /\ TurnInv
  OBVIOUS
<1>1. /\ queue = <<>> /\ rxUser = <<>> /\ rxControl = <<>> /\ events = <<>>
      /\ landed = <<>> /\ accepted = <<>> /\ cut = {} /\ held = FALSE /\ model = shownModel
      /\ pc = "idle" /\ goal = "none" /\ wake = FALSE
  BY DEF Init, WireInit, HubInit, LoopInit
<1>2. /\ Range(queue) = {} /\ Range(rxUser) = {} /\ Range(rxControl) = {}
      /\ Range(events) = {} /\ Range(landed) = {}
      /\ Once(events, {Say("turnend")})
  BY <1>1, EmptyOnce
<1>3. /\ Len(rxUser) = 0 /\ Len(rxControl) = 0
      /\ Sorted(queue, accepted) /\ Sorted(landed, accepted)
  BY <1>1, SortedShort
<1>4. QuietInv
  BY <1>1, <1>2 DEF QuietInv
<1>5. TokenInv
  BY <1>1, <1>2, <1>3 DEF TokenInv, LoopBusy, EndSaid, AsksTurn
<1>6. SwitchInv
  BY <1>1, <1>3 DEF SwitchInv, Switches
<1>7. CutInv
  BY <1>1 DEF CutInv
<1>8. OrderInv
  BY <1>1, <1>2, <1>3 DEF OrderInv, Queued, Handed, Copied, Landed
<1> QED
  BY <1>3, <1>4, <1>5, <1>6, <1>7, <1>8 DEF TurnInv

LEMMA TurnShows ==
    ASSUME TypeOK, MarkInv, TurnInv
    PROVE  TurnIsTheSessions
<1>1. ASSUME Busy PROVE working /\ model = shownModel
  <2>1. LoopBusy /\ alive
    BY <1>1 DEF MarkInv, Busy, LoopBusy, InTurn, Wrapping
  <2>2. working /\ rxControl = <<>>
    BY <2>1 DEF TurnInv, TokenInv
  <2>3. Len(rxControl) = 0
    BY <2>2
  <2>4. Switches(rxControl) = {}
    BY <2>3 DEF Switches
  <2> QED
    BY <2>1, <2>2, <2>4 DEF TurnInv, SwitchInv
<1>2. InterruptSticks
  <2>1. pc \in InTurn => alive
    BY DEF MarkInv, InTurn
  <2> QED
    BY <2>1 DEF InterruptSticks, TurnInv, CutInv
<1>3. ReadInOrder
  <2>1. ASSUME NEW i \in 1 .. Len(landed) PROVE landed[i] \in Prompts
    BY DEF TypeOK, LoopTypeOK
  <2>2. Sorted(landed, accepted) => InOrder(landed, accepted)
    BY <2>1 DEF Sorted, InOrder, Before
  <2> QED
    BY <2>2 DEF TurnInv, ReadInOrder
<1> QED
  BY <1>1, <1>2, <1>3 DEF TurnIsTheSessions, TurnsAreMarked, TurnOnShownModel

\* A turn runs for the session as the session took it to be: it is marked as working for as
\* long as one runs, on the model it shows; what it interrupted stays interrupted; and what
\* was sent is read in the order it was accepted.  For every number of messages and models,
\* every capacity, retries, /btw, workflows, copies, compactions, switches and crashes; of a
\* session in which nothing but what the user types opens a turn.
THEOREM TurnsAreTheSessions == ASSUME OnlyTyped PROVE Spec => []TurnIsTheSessions
<1>1. Init => QuietInv /\ TurnInv
  BY TurnStarts
<1>2. TypeOK /\ PlaceInv /\ MarkInv /\ QuietInv /\ TurnInv /\ [Next]_vars
        => QuietInv' /\ TurnInv'
  BY StepQuiet, StepTurns
<1>3. TypeOK /\ MarkInv /\ TurnInv => TurnIsTheSessions
  BY TurnShows
<1> QED
  BY <1>1, <1>2, <1>3, TypeCorrect, Marked, OnePlaceEach, PTL DEF Spec
=============================================================================
