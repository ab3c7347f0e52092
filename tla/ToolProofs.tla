----------------------------- MODULE ToolProofs -----------------------------
(***************************************************************************)
(* Deny and ask rules stand, no rule of a repository counts unasked, and a *)
(* call starts on a word that still held: for every set of rules, every    *)
(* call, any number of agents, judges and front ends, and whatever the     *)
(* mode and the trust are changed to meanwhile.                            *)
(***************************************************************************)
EXTENDS ToolProperties, TLAPS

Shaped(k) ==
    k.commands = <<>> \/ k.tool \in {"bash", "write_stdin"} \/ (k.tool = "monitor" /\ k.needs)

-----------------------------------------------------------------------------
(* What the answer of the rules says of what they match. *)

LEMMA NoCommands == ASSUME NEW k, k.commands = <<>> PROVE Commands(k) = {}
<1>1. Len(k.commands) = 0
  OBVIOUS
<1> QED
  BY <1>1 DEF Commands

LEMMA PathAnswer ==
    ASSUME NEW p, NEW s, NEW needs
    PROVE  /\ CheckPath(p, s, needs) # "deny" => ~Hits(p.deny, s)
           /\ CheckPath(p, s, needs) = "allow" => ~Hits(p.ask, s)
  BY DEF CheckPath

LEMMA OtherAnswer ==
    ASSUME NEW p, NEW s, NEW needs
    PROVE  /\ CheckOther(p, s, needs) # "deny" => ~Hits(p.deny, s)
           /\ CheckOther(p, s, needs) = "allow" => ~Hits(p.ask, s)
  BY DEF CheckOther

LEMMA BashAnswer ==
    ASSUME NEW p, NEW k
    PROVE  /\ CheckBash(p, k) # "deny" => \A c \in Commands(k) : ~Hits(p.deny, c)
           /\ CheckBash(p, k) = "allow" => \A c \in Commands(k) : ~Hits(p.ask, c)
  BY DEF CheckBash

\* A call that is not denied has nothing a deny rule matches, and one that is allowed
\* nothing an ask rule matches, but a monitor's command.
LEMMA Answer ==
    ASSUME NEW p, NEW k, Shaped(k)
    PROVE  /\ Check(p, k) # "deny" => ~Matched(p.deny, k)
           /\ Check(p, k) = "allow" /\ k.tool # "monitor" => ~Matched(p.ask, k)
<1>1. CASE k.tool = "bash"
  BY <1>1, BashAnswer DEF Check, Matched, Subjects
<1>2. CASE k.tool = "path"
  <2>1. Commands(k) = {}
    BY <1>2, NoCommands DEF Shaped
  <2> QED
    BY <1>2, <2>1, PathAnswer DEF Check, Matched, Subjects
<1>3. CASE k.tool = "patch"
  <2>1. Commands(k) = {}
    BY <1>3, NoCommands DEF Shaped
  <2>2. /\ CheckPatch(p, k) # "deny" =>
              ~Hits(p.deny, k.self) /\ \A s \in k.paths : CheckPath(p, s, k.needs) # "deny"
        /\ CheckPatch(p, k) = "allow" =>
              ~Hits(p.ask, k.self) /\ \A s \in k.paths : CheckPath(p, s, k.needs) = "allow"
    <3>1. \A s : CheckPath(p, s, k.needs) \in {"deny", "ask", "allow"}
      BY DEF CheckPath, Fallback
    <3> QED
      BY <3>1 DEF CheckPatch
  <2> QED
    BY <1>3, <2>1, <2>2, PathAnswer DEF Check, Matched, Subjects
<1>4. CASE k.tool = "write_stdin"
  <2>1. /\ CheckTyping(p, k) # "deny" =>
              /\ CheckOther(p, k.self, k.needs) # "deny"
              /\ k.commands = <<>> \/ CheckBash(p, k) # "deny"
        /\ CheckTyping(p, k) = "allow" =>
              /\ CheckOther(p, k.self, k.needs) = "allow"
              /\ k.commands = <<>> \/ CheckBash(p, k) = "allow"
    <3>1. CheckOther(p, k.self, k.needs) \in {"deny", "ask", "allow"}
      BY DEF CheckOther, Fallback
    <3>2. CheckBash(p, k) \in {"deny", "ask", "allow"}
      BY DEF CheckBash, Fallback
    <3> QED
      BY <3>1, <3>2 DEF CheckTyping
  <2> QED
    BY <1>4, <2>1, OtherAnswer, BashAnswer, NoCommands DEF Check, Matched, Subjects
<1>5. CASE k.tool = "monitor"
  <2>1. CheckMonitor(p, k) # "deny" =>
            CheckOther(p, k.self, k.needs) # "deny" /\ (k.needs => CheckBash(p, k) # "deny")
    BY DEF CheckMonitor
  <2> QED
    BY <1>5, <2>1, OtherAnswer, BashAnswer, NoCommands DEF Check, Matched, Subjects, Shaped
<1>6. CASE k.tool \notin {"bash", "path", "patch", "write_stdin", "monitor"}
  <2>1. Commands(k) = {}
    BY <1>6, NoCommands DEF Shaped
  <2> QED
    BY <1>6, <2>1, OtherAnswer DEF Check, Matched, Subjects
<1> QED
  BY <1>1, <1>2, <1>3, <1>4, <1>5, <1>6

-----------------------------------------------------------------------------
(* What is known of a call, by where it has come. *)

Places == {"idle", "hook", "noting", "verdict", "asking", "saving", "running"}
Sayers == {"nobody", "rules", "judge", "you"}

\* Past the rules nothing a deny rule matches is left; what may be put to the judge, and
\* what ran without the user, has nothing an ask rule matches.
Clean(at, k, who) ==
    /\ at # "idle" => k \in Calls
    /\ at \notin {"idle", "hook"} => ~Matched(Deny, Is[k])
    /\ at \in {"noting", "verdict"} => ~Matched(Asks, Is[k])
    /\ at = "running" /\ who # "you" /\ Is[k].tool # "monitor" => ~Matched(Asks, Is[k])

Stands ==
    /\ pc \in [Callers -> Places]
    /\ call \in [Callers -> Calls \cup {NoCall}]
    /\ by \in [Callers -> Sayers]
    /\ \A c \in Callers : Clean(pc[c], call[c], by[c])

LEMMA Shape == ASSUME NEW k \in Calls PROVE Shaped(Is[k])
  BY CallsAssumption DEF Shaped

LEMMA Moves ==
    ASSUME Stands, NEW c \in Callers,
           NEW at \in Places, NEW k \in Calls \cup {NoCall}, NEW who \in Sayers,
           pc' = [pc EXCEPT ![c] = at],
           call' = [call EXCEPT ![c] = k],
           by' = [by EXCEPT ![c] = who],
           Clean(at, k, who)
    PROVE  Stands'
<1>1. /\ pc' \in [Callers -> Places]
      /\ call' \in [Callers -> Calls \cup {NoCall}]
      /\ by' \in [Callers -> Sayers]
  BY DEF Stands
<1>2. ASSUME NEW d \in Callers PROVE Clean(pc'[d], call'[d], by'[d])
  <2>1. CASE d = c
    BY <2>1 DEF Stands
  <2>2. CASE d # c
    <3>1. pc'[d] = pc[d] /\ call'[d] = call[d] /\ by'[d] = by[d]
      BY <2>2 DEF Stands
    <3> QED
      BY <3>1 DEF Stands
  <2> QED
    BY <2>1, <2>2
<1> QED
  BY <1>1, <1>2 DEF Stands, Clean

LEMMA Stays == ASSUME Stands, UNCHANGED <<pc, call, by>> PROVE Stands'
  BY DEF Stands, Clean

LEMMA Finishes == ASSUME Stands, NEW c \in Callers, Over(c) PROVE Stands'
<1>1. Clean("idle", NoCall, "nobody")
  BY DEF Clean
<1> QED
  BY <1>1, Moves DEF Over, Places, Sayers

LEMMA Begun ==
    ASSUME Stands, NEW c \in Callers, NEW who \in Sayers, Starts(c, who),
           Clean("running", call[c], who)
    PROVE  Stands'
<1>1. call' = [call EXCEPT ![c] = call[c]] /\ call[c] \in Calls \cup {NoCall}
  BY DEF Starts, Stands
<1>2. pc' = [pc EXCEPT ![c] = "running"] /\ by' = [by EXCEPT ![c] = who] /\ "running" \in Places
  BY DEF Starts, Places
<1> QED
  BY <1>1, <1>2, Moves

LEMMA Proceeds ==
    ASSUME Stands, NEW c \in Callers, NEW at \in Places, Goto(c, at), UNCHANGED <<call, by>>,
           Clean(at, call[c], by[c])
    PROVE  Stands'
<1>1. call' = [call EXCEPT ![c] = call[c]] /\ call[c] \in Calls \cup {NoCall}
  BY DEF Stands
<1>2. by' = [by EXCEPT ![c] = by[c]] /\ by[c] \in Sayers
  BY DEF Stands
<1> QED
  BY <1>1, <1>2, Moves DEF Goto

LEMMA BegunUnlessCut ==
    ASSUME Stands, NEW c \in Callers, NEW who \in Sayers, RunsUnlessCut(c, who),
           Clean("running", call[c], who)
    PROVE  Stands'
  BY Finishes, Begun DEF RunsUnlessCut

LEMMA LeftUndecided ==
    ASSUME Stands, NEW c \in Callers, Undecided(c), Clean("asking", call[c], by[c])
    PROVE  Stands'
<1>1. CASE Over(c)
  BY <1>1, Finishes
<1>2. CASE Goto(c, "asking") /\ UNCHANGED <<call, by>>
  BY <1>2, Proceeds DEF Places
<1> QED
  BY <1>1, <1>2 DEF Undecided

-----------------------------------------------------------------------------
(* Every step of a call. *)

LEMMA MakeStands ==
    ASSUME Stands, NEW c \in Callers, NEW k \in Calls, Make(c, k) PROVE Stands'
<1>1. by' = [by EXCEPT ![c] = by[c]] /\ by[c] \in Sayers
  BY DEF Make, Stands
<1>2. Clean("hook", k, by[c])
  BY DEF Clean
<1>3. pc' = [pc EXCEPT ![c] = "hook"] /\ call' = [call EXCEPT ![c] = k] /\ "hook" \in Places
  BY DEF Make, Goto, Places
<1> QED
  BY <1>1, <1>2, <1>3, Moves

\* What the rules said, as they stood when the hook was back.
LEMMA Decided ==
    ASSUME NEW c, NEW hook, call[c] \in Calls
    PROVE  /\ Decision(c, hook) # "deny" => ~Matched(Deny, K(c))
           /\ Decision(c, hook) = "allow" /\ K(c).tool # "monitor" => ~Matched(Asks, K(c))
<1>1. Shaped(K(c))
  BY Shape DEF K
<1>2. Policy.deny = Deny /\ Policy.ask = Asks
  BY DEF Policy
<1>3. /\ Check(Policy, K(c)) # "deny" => ~Matched(Policy.deny, K(c))
      /\ Check(Policy, K(c)) = "allow" /\ K(c).tool # "monitor" => ~Matched(Policy.ask, K(c))
  BY <1>1, Answer
<1>4. /\ Decision(c, hook) # "deny" => Check(Policy, K(c)) # "deny"
      /\ Decision(c, hook) = "allow" => Check(Policy, K(c)) = "allow"
  BY DEF Decision
<1> QED
  BY <1>2, <1>3, <1>4

LEMMA Judged ==
    ASSUME NEW c, Judgeable(Policy, K(c)) PROVE ~Matched(Asks, K(c))
<1>1. Policy.ask = Asks
  BY DEF Policy
<1> QED
  BY <1>1 DEF Judgeable, Matched

LEMMA DecideStands ==
    ASSUME Stands, NEW c \in Callers, NEW hook, Decide(c, hook) PROVE Stands'
<1>1. pc[c] = "hook" /\ call[c] \in Calls
  BY DEF Decide, Stands, Clean
<1> DEFINE said == Decision(c, hook)
<1>2. /\ said # "deny" => ~Matched(Deny, K(c))
      /\ said = "allow" /\ K(c).tool # "monitor" => ~Matched(Asks, K(c))
  BY <1>1, Decided
<1>3. \/ Over(c)
      \/ said = "allow" /\ Starts(c, "rules")
      \/ said = "ask" /\ Undecided(c)
      \/ said = "ask" /\ Judgeable(Policy, K(c)) /\ Goto(c, "noting") /\ UNCHANGED <<call, by>>
  BY DEF Decide
<1>4. CASE Over(c)
  BY <1>4, Finishes
<1>5. CASE said = "allow" /\ Starts(c, "rules")
  <2>1. Clean("running", call[c], "rules")
    BY <1>1, <1>2, <1>5 DEF Clean, K
  <2> QED
    BY <1>5, <2>1, Begun DEF Sayers
<1>6. CASE said = "ask" /\ Undecided(c)
  <2>1. Clean("asking", call[c], by[c])
    BY <1>1, <1>2, <1>6 DEF Clean, K
  <2> QED
    BY <1>6, <2>1, LeftUndecided
<1>7. CASE said = "ask" /\ Judgeable(Policy, K(c)) /\ Goto(c, "noting") /\ UNCHANGED <<call, by>>
  <2>1. Clean("noting", call[c], by[c])
    BY <1>1, <1>2, <1>7, Judged DEF Clean, K
  <2> QED
    BY <1>7, <2>1, Proceeds DEF Places
<1> QED
  BY <1>3, <1>4, <1>5, <1>6, <1>7

LEMMA AskStepStands ==
    ASSUME Stands, NEW c \in Callers, Ask(c) PROVE Stands'
<1>1. pc[c] = "noting" /\ Clean("noting", call[c], by[c])
  BY DEF Ask, Stands
<1>2. /\ Clean("running", call[c], "judge")
      /\ Clean("asking", call[c], by[c])
      /\ Clean("verdict", call[c], by[c])
  BY <1>1 DEF Clean
<1>3. \/ RunsUnlessCut(c, "judge")
      \/ Over(c)
      \/ Undecided(c)
      \/ Goto(c, "verdict") /\ UNCHANGED <<call, by>>
  BY DEF Ask
<1> QED
  BY <1>2, <1>3, BegunUnlessCut, Finishes, LeftUndecided, Proceeds DEF Places, Sayers

LEMMA VerdictStands ==
    ASSUME Stands, NEW c \in Callers, Verdict(c) PROVE Stands'
<1>1. pc[c] = "verdict" /\ Clean("verdict", call[c], by[c])
  BY DEF Verdict, Stands
<1>2. Clean("running", call[c], "judge") /\ Clean("asking", call[c], by[c])
  BY <1>1 DEF Clean
<1>3. RunsUnlessCut(c, "judge") \/ Over(c) \/ Undecided(c)
  BY DEF Verdict
<1> QED
  BY <1>2, <1>3, BegunUnlessCut, Finishes, LeftUndecided DEF Sayers

\* What is asked of the user, and what follows their answer.
LEMMA AnswerStands ==
    ASSUME Stands, NEW c \in Callers,
           Accept(c) \/ Saved(c) \/ Reject(c) \/ Ends(c) \/ Cut(c)
               \/ \E text \in Texts : AcceptAlways(c, text)
    PROVE  Stands'
<1>1. CASE Accept(c) \/ Saved(c)
  <2>1. pc[c] \in {"asking", "saving"} /\ Clean(pc[c], call[c], by[c]) /\ RunsUnlessCut(c, "you")
    BY <1>1 DEF Accept, Saved, Stands
  <2>2. Clean("running", call[c], "you")
    BY <2>1 DEF Clean
  <2> QED
    BY <2>1, <2>2, BegunUnlessCut DEF Sayers
<1>2. CASE Reject(c) \/ Ends(c) \/ Cut(c)
  BY <1>2, Finishes DEF Reject, Ends, Cut
<1>3. CASE \E text \in Texts : AcceptAlways(c, text)
  <2>1. pc[c] = "asking" /\ Clean("asking", call[c], by[c])
        /\ Goto(c, "saving") /\ UNCHANGED <<call, by>>
    BY <1>3 DEF AcceptAlways, Stands
  <2>2. Clean("saving", call[c], by[c])
    BY <2>1 DEF Clean
  <2> QED
    BY <2>1, <2>2, Proceeds DEF Places
<1> QED
  BY <1>1, <1>2, <1>3

LEMMA RestartStands == ASSUME Restart PROVE Stands'
<1>1. /\ pc' = [c \in Callers |-> "idle"]
      /\ call' = [c \in Callers |-> NoCall]
      /\ by' = [c \in Callers |-> "nobody"]
  BY DEF Restart
<1>2. Clean("idle", NoCall, "nobody")
  BY DEF Clean
<1>3. \A c \in Callers : Clean(pc'[c], call'[c], by'[c])
  BY <1>1, <1>2
<1> QED
  BY <1>1, <1>3 DEF Stands, Clean, Places, Sayers

\* The steps that leave every call where it is.
LEMMA ElsewhereStands ==
    ASSUME Stands,
           \/ \E c \in Callers, k \in Calls, p \in Calls : AppealCall(c, k, p)
           \/ \E d \in Doers : (PolicyStep(d) \/ Change(d)) /\ UNCHANGED <<judgeVars, callVars>>
           \/ Ship /\ UNCHANGED <<judgeVars, callVars>>
           \/ \E j \in Judges : Hears(j) \/ Wakes(j)
           \/ Interrupt \/ Goal
           \/ UNCHANGED allVars
    PROVE  Stands'
<1>1. UNCHANGED <<pc, call, by>>
  BY DEF AppealCall, Hears, Wakes, Interrupt, Goal, callVars, allVars, vars
<1> QED
  BY <1>1, Stays

LEMMA InitStands == ASSUME Init PROVE Stands
<1>1. /\ pc = [c \in Callers |-> "idle"]
      /\ call = [c \in Callers |-> NoCall]
      /\ by = [c \in Callers |-> "nobody"]
  BY DEF Init
<1> QED
  BY <1>1 DEF Stands, Clean, Places, Sayers

LEMMA NextStands == ASSUME Stands, [WatchedNext]_allVars PROVE Stands'
<1>1. CASE \E c \in Callers, k \in Calls : Make(c, k)
  BY <1>1, MakeStands
<1>2. CASE \E c \in Callers, hook \in Hooks : Decide(c, hook)
  BY <1>2, DecideStands
<1>3. CASE \E c \in Callers : Ask(c) \/ Verdict(c)
  BY <1>3, AskStepStands, VerdictStands
<1>4. CASE \E c \in Callers : \/ Accept(c) \/ Saved(c) \/ Reject(c) \/ Ends(c) \/ Cut(c)
                             \/ \E text \in Texts : AcceptAlways(c, text)
  BY <1>4, AnswerStands
<1>5. CASE Restart
  BY <1>5, RestartStands
<1>6. CASE \/ \E c \in Callers, k \in Calls, p \in Calls : AppealCall(c, k, p)
           \/ \E d \in Doers : (PolicyStep(d) \/ Change(d)) /\ UNCHANGED <<judgeVars, callVars>>
           \/ Ship /\ UNCHANGED <<judgeVars, callVars>>
           \/ \E j \in Judges : Hears(j) \/ Wakes(j)
           \/ Interrupt \/ Goal
           \/ UNCHANGED allVars
  BY <1>6, ElsewhereStands
<1> QED
  BY <1>1, <1>2, <1>3, <1>4, <1>5, <1>6 DEF WatchedNext, Next

LEMMA AlwaysStands == Watched => []Stands
  BY InitStands, NextStands, PTL DEF Watched, WatchedInit

\* What a deny rule matches never runs, in any mode and on anybody's word, while the rules,
\* the mode, the trust and the user's words change meanwhile (agent.rs execute).
THEOREM DenialStands == Watched => []DenyStands
<1>1. Stands => DenyStands
  BY DEF Stands, DenyStands, Clean, K
<1> QED
  BY <1>1, AlwaysStands, PTL

\* What an ask rule matches runs on the user's answer alone, but a monitor's command
\* (permissions/mod.rs check and judgeable, agent.rs execute).
THEOREM AskingStands == Watched => []AskStands
<1>1. Stands => AskStands
  BY DEF Stands, AskStands, Clean, K
<1> QED
  BY <1>1, AlwaysStands, PTL
-----------------------------------------------------------------------------
(* The project's rules: what the user has let in. *)

\* What is in the middle of a change is known to be let in where it will count: the files
\* that are being recorded or honoured, and those as they are while a rule remembered by a
\* trusted project is written to them.
Sane(o, files, let) ==
    /\ o.at \in {"keep", "read", "save"} => o.text \in Texts
    /\ o.at \in {"record", "honour"} => o.snap \subseteq let
    /\ o.at \in {"read", "save", "again"} /\ o.keep => files \subseteq let
    /\ o.at = "again" => o.keep

OpsSane == op \in [Doers -> Op] /\ \A d \in Doers : Sane(op[d], file, vouched)
FilesLet == /\ file \in SUBSET Texts
            /\ store \in (SUBSET Texts) \cup {None}
            /\ store = None \/ store \subseteq vouched
ModesKept == mode \in Modes /\ wanted \in Modes
LetIn == OpsSane /\ FilesLet /\ ModesKept /\ RulesVouched

LEMMA Widens ==
    ASSUME Vouches
    PROVE  /\ vouched \subseteq vouched'
           /\ Saving => file' \ file \subseteq vouched'
           /\ \A d \in Doers : op[d].at = "idle" /\ op'[d].at = "record" => op'[d].snap \subseteq vouched'
<1>1. /\ vouched \subseteq vouched'
      /\ Saving => file' \ file \subseteq vouched'
  BY DEF Vouches
<1>2. ASSUME NEW d \in Doers, op[d].at = "idle" /\ op'[d].at = "record"
      PROVE  op'[d].snap \subseteq vouched'
  <2>1. d \in {e \in Doers : op[e].at = "idle" /\ op'[e].at = "record"}
    BY <1>2
  <2>2. op'[d].snap \subseteq UNION {op'[x].snap : x \in {e \in Doers : op[e].at = "idle" /\ op'[e].at = "record"}}
    BY <2>1
  <2> QED
    BY <2>2 DEF Vouches
<1> QED
  BY <1>1, <1>2

\* Whoever writes a rule meanwhile lets in what lands in the file.
LEMMA StillSane ==
    ASSUME OpsSane, Vouches, NEW e \in Doers
    PROVE  Sane(op[e], file', vouched')
<1>1. op[e].at \in {"read", "save", "again"} => Saving
  BY DEF Saving
<1> QED
  BY <1>1, Widens DEF OpsSane, Sane

LEMMA Puts ==
    ASSUME OpsSane, Vouches, NEW d \in Doers, NEW o \in Op, op' = [op EXCEPT ![d] = o],
           Sane(o, file', vouched')
    PROVE  OpsSane'
<1>1. op' \in [Doers -> Op]
  BY DEF OpsSane
<1>2. ASSUME NEW e \in Doers PROVE Sane(op'[e], file', vouched')
  <2>1. CASE e = d
    BY <2>1 DEF OpsSane
  <2>2. CASE e # d
    <3>1. op'[e] = op[e]
      BY <2>2 DEF OpsSane
    <3> QED
      BY <3>1, StillSane
  <2> QED
    BY <2>1, <2>2
<1> QED
  BY <1>1, <1>2 DEF OpsSane

LEMMA KeptSane == ASSUME OpsSane, Vouches, UNCHANGED op PROVE OpsSane'
  BY StillSane DEF OpsSane

LEMMA IdleSane == Idle \in Op /\ \A files, let : Sane(Idle, files, let)
  BY DEF Idle, Op, Modes, Sane

LEMMA Rests ==
    ASSUME OpsSane, Vouches, NEW d \in Doers, op' = [op EXCEPT ![d] = Idle] PROVE OpsSane'
  BY IdleSane, Puts

\* The files stay, or what joins them is of the texts.
LEMMA FilesStay == ASSUME FilesLet, Vouches, UNCHANGED <<file, store>> PROVE FilesLet'
  BY Widens DEF FilesLet

\* The rules stay, and the trust with them or it is gone.
LEMMA RulesStay ==
    ASSUME RulesVouched, Vouches, allow' = allow, trusted' => trusted PROVE RulesVouched'
  BY Widens DEF RulesVouched
LEMMA StoreModeLets == ASSUME LetIn, Vouches, NEW d \in Doers, StoreMode(d) PROVE LetIn'
<1>1. op[d] \in Op /\ Sane(op[d], file, vouched)
  BY DEF LetIn, OpsSane
<1>2. OpsSane'
  <2>1. CASE op[d].forget
    <3> DEFINE o == [op[d] EXCEPT !.at = "forget"]
    <3>1. o \in Op /\ Sane(o, file', vouched')
      BY <1>1 DEF Op, Sane
    <3>2. op' = [op EXCEPT ![d] = o]
      BY <2>1 DEF StoreMode, Goes, LetIn, OpsSane
    <3> QED
      BY <3>1, <3>2, Puts DEF LetIn
  <2>2. CASE ~op[d].forget
    BY <2>2, Rests DEF StoreMode, LetIn
  <2> QED
    BY <2>1, <2>2
<1>3. ModesKept'
  BY <1>1 DEF StoreMode, ModesKept, Op, LetIn
<1> QED
  BY <1>2, <1>3, FilesStay, RulesStay DEF StoreMode, LetIn, Files

\* Steps that only move a change on: where it goes is one field or two of what it holds.
LEMMA MovesOn ==
    ASSUME LetIn, Vouches, NEW d \in Doers, NEW o \in Op, op' = [op EXCEPT ![d] = o],
           Sane(o, file', vouched'), UNCHANGED <<file, store, allow>>, trusted' => trusted, ModesKept'
    PROVE  LetIn'
<1>1. OpsSane'
  BY Puts DEF LetIn
<1> QED
  BY <1>1, FilesStay, RulesStay DEF LetIn

LEMMA ClampedMode == ASSUME NEW m \in Modes, NEW t PROVE Clamped(m, t) \in Modes
  BY DEF Clamped, Modes

LEMMA WantedLets ==
    ASSUME LetIn, Vouches, NEW d \in Doers, ReadWanted(d) \/ AgainWanted(d) PROVE LetIn'
<1>1. op[d] \in Op /\ Sane(op[d], file, vouched) /\ ModesKept /\ op \in [Doers -> Op]
  BY DEF LetIn, OpsSane
<1>2. CASE ReadWanted(d)
  <2> DEFINE o == [op[d] EXCEPT !.at = "rewant", !.mode = wanted]
  <2>1. o \in Op
    BY <1>1 DEF Op, ModesKept
  <2>2. Sane(o, file', vouched')
    BY <1>1 DEF Op, Sane
  <2>3. op' = [op EXCEPT ![d] = o]
    BY <1>1, <1>2 DEF ReadWanted
  <2> QED
    BY <1>1, <1>2, <2>1, <2>2, <2>3, MovesOn DEF ReadWanted, Files, ModesKept
<1>3. CASE AgainWanted(d)
  <2> DEFINE o == [op[d] EXCEPT !.at = "clamp", !.mode = Clamped(op[d].mode, trusted)]
  <2>0. op[d].mode \in Modes
    BY <1>1 DEF Op
  <2>1. o \in Op
    BY <1>1, <2>0, ClampedMode DEF Op
  <2>2. Sane(o, file', vouched')
    BY <1>1 DEF Op, Sane
  <2>3. op' = [op EXCEPT ![d] = o]
    BY <1>1, <1>3 DEF AgainWanted
  <2> QED
    BY <1>1, <1>3, <2>0, <2>1, <2>2, <2>3, MovesOn DEF AgainWanted, Files, ModesKept
<1> QED
  BY <1>2, <1>3

\* The files are read to be recorded: by /trust, which lets them in, or after a rule was kept.
LEMMA RecordsLets ==
    ASSUME LetIn, Vouches, NEW d \in Doers, Trust(d) \/ Again(d) PROVE LetIn'
<1>1. /\ op[d] \in Op /\ Sane(op[d], file, vouched) /\ op \in [Doers -> Op]
      /\ file \in SUBSET Texts /\ ModesKept
  BY DEF LetIn, OpsSane, FilesLet
<1>2. UNCHANGED <<file, store, allow, trusted, mode, wanted>>
  BY DEF Trust, Again, Files
<1>3. CASE Trust(d)
  <2> DEFINE o == [Idle EXCEPT !.at = "record", !.snap = file]
  <2>1. o \in Op
    BY <1>1 DEF Op, Idle, Modes
  <2>2. op' = [op EXCEPT ![d] = o] /\ op[d].at = "idle"
    BY <1>3 DEF Trust
  <2>3. op'[d] = o /\ o.at = "record" /\ o.snap = file
    BY <1>1, <2>2 DEF Idle
  <2>4. file \subseteq vouched'
    BY <2>2, <2>3, Widens
  <2>5. Sane(o, file', vouched')
    BY <1>2, <2>4 DEF Sane, Idle
  <2> QED
    BY <1>1, <1>2, <2>1, <2>2, <2>5, MovesOn DEF ModesKept
<1>4. CASE Again(d)
  <2> DEFINE o == [op[d] EXCEPT !.at = "record", !.snap = file]
  <2>1. o \in Op
    BY <1>1 DEF Op
  <2>2. op' = [op EXCEPT ![d] = o] /\ op[d].at = "again"
    BY <1>1, <1>4 DEF Again
  <2>3. file \subseteq vouched'
    BY <1>1, <2>2, Widens DEF Sane
  <2>5. Sane(o, file', vouched')
    BY <1>1, <1>2, <2>3 DEF Sane, Op
  <2> QED
    BY <1>1, <1>2, <2>1, <2>2, <2>5, MovesOn DEF ModesKept
<1> QED
  BY <1>3, <1>4

LEMMA RecordLets == ASSUME LetIn, Vouches, NEW d \in Doers, Record(d) PROVE LetIn'
<1>1. op[d] \in Op /\ Sane(op[d], file, vouched) /\ op \in [Doers -> Op]
  BY DEF LetIn, OpsSane
<1>2. op[d].at = "record" /\ store' = op[d].snap /\ UNCHANGED <<file, allow, trusted, mode, wanted>>
  BY DEF Record
<1> DEFINE o == [op[d] EXCEPT !.at = "honour"]
<1>3. o \in Op /\ op' = [op EXCEPT ![d] = o]
  BY <1>1 DEF Op, Record, Goes
<1>4. op[d].snap \subseteq vouched' /\ op[d].snap \in SUBSET Texts
  BY <1>1, <1>2, Widens DEF Sane, Op
<1>5. Sane(o, file', vouched')
  BY <1>1, <1>4 DEF Sane, Op
<1>6. OpsSane'
  BY <1>3, <1>5, Puts DEF LetIn
<1>7. FilesLet'
  BY <1>2, <1>4 DEF FilesLet, LetIn
<1> QED
  BY <1>2, <1>6, <1>7, RulesStay DEF LetIn, ModesKept

LEMMA HonourLets == ASSUME LetIn, Vouches, NEW d \in Doers, Honour(d) PROVE LetIn'
<1>1. op[d] \in Op /\ Sane(op[d], file, vouched) /\ op \in [Doers -> Op]
  BY DEF LetIn, OpsSane
<1>2. /\ op[d].at = "honour" /\ allow' = Honoured(d)
      /\ UNCHANGED <<file, store, mode, wanted>>
  BY DEF Honour, Files
<1>3. op[d].snap \subseteq vouched'
  BY <1>1, <1>2, Widens DEF Sane
<1>4. ASSUME NEW r \in allow', r.repo PROVE r.matches \in vouched'
  <2>1. r \in Loaded(op[d].snap)
    BY <1>2, <1>4 DEF Honoured
  <2>2. r.matches \in op[d].snap
    BY <2>1 DEF Loaded, Rule
  <2> QED
    BY <2>2, <1>3
<1>5. OpsSane'
  <2>1. CASE op[d].text = {}
    <3> DEFINE o == [op[d] EXCEPT !.at = "wanted"]
    <3>1. o \in Op /\ Sane(o, file', vouched')
      BY <1>1 DEF Op, Sane
    <3>2. op' = [op EXCEPT ![d] = o]
      BY <1>1, <2>1 DEF Honour, Goes
    <3> QED
      BY <3>1, <3>2, Puts DEF LetIn
  <2>2. CASE op[d].text # {}
    BY <2>2, Rests DEF Honour, LetIn
  <2> QED
    BY <2>1, <2>2
<1> QED
  BY <1>2, <1>4, <1>5, FilesStay DEF LetIn, RulesVouched, ModesKept

LEMMA ForgetLets == ASSUME LetIn, Vouches, NEW d \in Doers, Forget(d) PROVE LetIn'
<1>1. OpsSane'
  BY Rests DEF Forget, LetIn
<1>2. FilesLet'
  BY DEF Forget, LetIn, FilesLet
<1> QED
  BY <1>1, <1>2, RulesStay DEF Forget, LetIn, ModesKept

\* A rule remembered is the user's own.
LEMMA RemembersLets ==
    ASSUME LetIn, Vouches, NEW d \in Doers, NEW text \in Texts, Remembers(d, text),
           UNCHANGED <<mode, wanted, trusted, file, store>>
    PROVE  LetIn'
<1>1. /\ allow' = allow \cup {Rule(text, FALSE)}
      /\ op' = [op EXCEPT ![d] = [Idle EXCEPT !.at = "keep", !.text = text]]
  BY DEF Remembers
<1>2. RulesVouched'
  <2>1. \A r \in allow' : r.repo => r \in allow
    BY <1>1 DEF Rule
  <2> QED
    BY <2>1, Widens DEF RulesVouched, LetIn
<1> DEFINE o == [Idle EXCEPT !.at = "keep", !.text = text]
<1>3. o \in Op /\ Sane(o, file', vouched')
  BY DEF Op, Idle, Sane, Modes
<1>4. OpsSane'
  BY <1>1, <1>3, Puts DEF LetIn
<1> QED
  BY <1>2, <1>4, FilesStay DEF LetIn, ModesKept

\* It is kept when the files are as trusted, or bring nothing.
LEMMA KeepLets == ASSUME LetIn, Vouches, NEW d \in Doers, Keep(d) PROVE LetIn'
<1>1. op[d] \in Op /\ Sane(op[d], file, vouched) /\ op \in [Doers -> Op]
  BY DEF LetIn, OpsSane
<1>2. op[d].at = "keep" /\ UNCHANGED <<file, store, allow, trusted, mode, wanted>>
  BY DEF Keep, Files
<1> DEFINE o == [op[d] EXCEPT !.at = "read", !.keep = Keeps]
<1>3. Keeps \in BOOLEAN
  BY DEF Keeps
<1>4. o \in Op
  BY <1>1, <1>3 DEF Op
<1>5. op' = [op EXCEPT ![d] = o]
  BY <1>1 DEF Keep
<1>6. Keeps => file \subseteq vouched'
  BY Widens, PolicyAssumption DEF Keeps, LetIn, FilesLet
<1>7. Sane(o, file', vouched')
  BY <1>1, <1>2, <1>6 DEF Sane, Op
<1> QED
  BY <1>2, <1>4, <1>5, <1>7, MovesOn DEF LetIn, ModesKept

LEMMA ReadLets == ASSUME LetIn, Vouches, NEW d \in Doers, Read(d) PROVE LetIn'
<1>1. op[d] \in Op /\ Sane(op[d], file, vouched) /\ op \in [Doers -> Op] /\ file \in SUBSET Texts
  BY DEF LetIn, OpsSane, FilesLet
<1>2. op[d].at = "read" /\ UNCHANGED <<file, store, allow, trusted, mode, wanted>>
  BY DEF Read, Files
<1> DEFINE o == [op[d] EXCEPT !.at = "save", !.snap = file]
<1>3. o \in Op /\ op' = [op EXCEPT ![d] = o]
  BY <1>1 DEF Op, Read
<1>4. Sane(o, file', vouched')
  BY <1>1, <1>2, Widens DEF Sane, Op
<1> QED
  BY <1>2, <1>3, <1>4, MovesOn DEF LetIn, ModesKept

LEMMA SaveLets == ASSUME LetIn, Vouches, NEW d \in Doers, Save(d) PROVE LetIn'
<1>1. op[d] \in Op /\ Sane(op[d], file, vouched) /\ op \in [Doers -> Op]
  BY DEF LetIn, OpsSane
<1>2. /\ op[d].at = "save" /\ file' = op[d].snap \cup {op[d].text}
      /\ UNCHANGED <<store, allow, trusted, mode, wanted>>
  BY DEF Save
<1>3. FilesLet'
  <2>1. file' \in SUBSET Texts
    BY <1>1, <1>2 DEF Sane, Op
  <2> QED
    BY <1>2, <2>1, Widens DEF FilesLet, LetIn
<1>4. OpsSane'
  <2>1. CASE op[d].keep
    <3> DEFINE o == [op[d] EXCEPT !.at = "again"]
    <3>1. o \in Op /\ op' = [op EXCEPT ![d] = o]
      BY <1>1, <2>1 DEF Op, Save, Goes
    <3>2. Sane(op[d], file', vouched')
      BY StillSane DEF LetIn
    <3>3. Sane(o, file', vouched')
      BY <1>1, <1>2, <2>1, <3>2 DEF Sane, Op
    <3> QED
      BY <3>1, <3>3, Puts DEF LetIn
  <2>2. CASE ~op[d].keep
    BY <2>2, Rests DEF Save, LetIn
  <2> QED
    BY <2>1, <2>2
<1> QED
  BY <1>2, <1>3, <1>4, RulesStay DEF LetIn, ModesKept

LEMMA UnwrittenLets == ASSUME LetIn, Vouches, NEW d \in Doers, Unwritten(d) PROVE LetIn'
<1>1. OpsSane'
  BY Rests DEF Unwritten, LetIn
<1> QED
  BY <1>1, FilesStay, RulesStay DEF Unwritten, LetIn, ModesKept, Files

LEMMA SetModeLets ==
    ASSUME LetIn, Vouches, NEW d \in Doers, NEW m \in Modes, SetMode(d, m) PROVE LetIn'
<1> DEFINE o == [Idle EXCEPT !.at = "locked", !.mode = Clamped(m, trusted)]
<1>1. o \in Op /\ Sane(o, file', vouched')
  BY ClampedMode DEF Op, Idle, Sane
<1>2. op' = [op EXCEPT ![d] = o]
  BY DEF SetMode
<1> QED
  BY <1>1, <1>2, MovesOn DEF SetMode, Files, LetIn, ModesKept

LEMMA UntrustLets == ASSUME LetIn, Vouches, NEW d \in Doers, Untrust(d) PROVE LetIn'
<1> DEFINE o == [Idle EXCEPT !.at = "wanted", !.forget = TRUE]
<1>1. o \in Op /\ Sane(o, file', vouched')
  BY DEF Op, Idle, Sane, Modes
<1>2. op' = [op EXCEPT ![d] = o]
  BY DEF Untrust
<1> QED
  BY <1>1, <1>2, MovesOn DEF Untrust, Files, LetIn, ModesKept

LEMMA AllowLets ==
    ASSUME LetIn, Vouches, NEW d \in Doers, NEW text \in Texts, Allow(d, text) PROVE LetIn'
  BY RemembersLets DEF Allow, Files

LEMMA PolicyLets ==
    ASSUME LetIn, Vouches, NEW d \in Doers, PolicyStep(d) \/ Change(d) PROVE LetIn'
<1>1. CASE PolicyStep(d)
  BY <1>1, StoreModeLets, WantedLets, RecordLets, HonourLets, ForgetLets, KeepLets, ReadLets,
     SaveLets, RecordsLets, UnwrittenLets DEF PolicyStep
<1>2. CASE Change(d)
  BY <1>2, SetModeLets, RecordsLets, UntrustLets, AllowLets DEF Change
<1> QED
  BY <1>1, <1>2

\* A checkout brings rules: they are let in when a rule is being written meanwhile.
LEMMA ShipLets == ASSUME LetIn, Vouches, Ship PROVE LetIn'
<1>1. FilesLet'
  BY Widens, PolicyAssumption DEF Ship, LetIn, FilesLet
<1>2. OpsSane'
  BY KeptSane DEF Ship, LetIn
<1> QED
  BY <1>1, <1>2, RulesStay DEF Ship, LetIn, ModesKept

\* A start trusts the files when they are as recorded, and those were let in.
LEMMA ReloadLets == ASSUME LetIn, Vouches, Reload PROVE LetIn'
<1>1. /\ trusted' = (store = file) /\ allow' = Start \cup Loaded(file)
      /\ op' = [d \in Doers |-> Idle] /\ UNCHANGED <<file, store>>
  BY DEF Reload, Files
<1>2. OpsSane'
  BY <1>1, IdleSane DEF OpsSane
<1>3. ASSUME trusted', NEW r \in allow', r.repo PROVE r.matches \in vouched'
  <2>1. r \in Loaded(file)
    BY <1>1, <1>3 DEF Start, Rule
  <2>2. r.matches \in file
    BY <2>1 DEF Loaded, Rule
  <2>3. file \subseteq vouched
    BY <1>1, <1>3, PolicyAssumption DEF LetIn, FilesLet
  <2> QED
    BY <2>2, <2>3, Widens
<1>4. ModesKept'
  <2>1. wanted' = Configured /\ mode' = Clamped(Configured, trusted')
    BY DEF Reload
  <2> QED
    BY <2>1, ClampedMode, PolicyAssumption DEF ModesKept
<1> QED
  BY <1>1, <1>2, <1>3, <1>4, FilesStay DEF LetIn, RulesVouched

LEMMA PolicyStays == ASSUME LetIn, Vouches, UNCHANGED policyVars PROVE LetIn'
<1>1. OpsSane'
  BY KeptSane DEF LetIn, policyVars
<1> QED
  BY <1>1, FilesStay, RulesStay DEF LetIn, ModesKept, policyVars

LEMMA InitLets == ASSUME WatchedInit PROVE LetIn
<1>1. /\ file \in {{}, Shipped} /\ store \in {None, file} /\ trusted = (store = file)
      /\ wanted = Configured /\ mode = Clamped(Configured, trusted)
      /\ allow = Start \cup Loaded(file) /\ op = [d \in Doers |-> Idle]
      /\ vouched = (IF trusted THEN file ELSE {})
  BY DEF WatchedInit, Init, PolicyInit
<1>2. OpsSane
  BY <1>1, IdleSane DEF OpsSane
<1>3. FilesLet
  BY <1>1, PolicyAssumption DEF FilesLet
<1>4. ModesKept
  BY <1>1, ClampedMode, PolicyAssumption DEF ModesKept
<1>5. RulesVouched
  BY <1>1 DEF RulesVouched, Start, Loaded, Rule
<1> QED
  BY <1>2, <1>3, <1>4, <1>5 DEF LetIn

LEMMA NextLets == ASSUME LetIn, [WatchedNext]_allVars PROVE LetIn'
<1>1. CASE UNCHANGED allVars
  <2>1. UNCHANGED <<policyVars, vouched>>
    BY <1>1 DEF allVars, vars
  <2> QED
    BY <2>1 DEF LetIn, OpsSane, FilesLet, ModesKept, RulesVouched, policyVars, Sane
<1>2. CASE WatchedNext
  <2>1. Next /\ Vouches
    BY <1>2 DEF WatchedNext
  <2>2. CASE \E d \in Doers : PolicyStep(d) \/ Change(d)
    BY <2>1, <2>2, PolicyLets
  <2>3. CASE Ship
    BY <2>1, <2>3, ShipLets
  <2>4. CASE Restart
    BY <2>1, <2>4, ReloadLets DEF Restart
  <2>5. CASE \E c \in Callers, text \in Texts : AcceptAlways(c, text)
    <3>1. PICK c \in Callers, text \in Texts : AcceptAlways(c, text)
      BY <2>5
    <3>2. Remembers(c, text) /\ UNCHANGED <<mode, wanted, trusted, file, store>>
      BY <3>1 DEF AcceptAlways, Files
    <3> QED
      BY <2>1, <3>1, <3>2, RemembersLets, CallersAssumption
  <2>6. CASE \/ \E c \in Callers : \/ \E k \in Calls : Make(c, k) \/ \E p \in Calls : AppealCall(c, k, p)
                                   \/ \E h \in Hooks : Decide(c, h)
                                   \/ Ask(c) \/ Verdict(c) \/ Cut(c)
                                   \/ Reject(c) \/ Accept(c) \/ Saved(c) \/ Ends(c)
             \/ \E j \in Judges : Hears(j) \/ Wakes(j)
             \/ Interrupt \/ Goal
    <3>1. UNCHANGED policyVars
      BY <2>6 DEF Make, AppealCall, Decide, Ask, Verdict, Cut, Reject, Accept, Saved, Ends, Hears,
         Wakes, Interrupt, Goal
    <3> QED
      BY <2>1, <3>1, PolicyStays
  <2> QED
    BY <2>1, <2>2, <2>3, <2>4, <2>5, <2>6 DEF Next
<1> QED
  BY <1>1, <1>2

\* No rule of a repository counts in a project that is trusted unless the user let it in,
\* whatever front ends and agents save, trust and revoke at once, and over every restart
\* (permissions/mod.rs set_trusted, trust.rs, settings.rs remember).
THEOREM OnlyVouchedRules == Watched => []RulesVouched
<1>1. LetIn => RulesVouched
  BY DEF LetIn
<1> QED
  BY <1>1, InitLets, NextLets, PTL DEF Watched
-----------------------------------------------------------------------------
(* What lets a call start. *)

LEMMA ElsewhereMoves ==
    ASSUME Stands, NEW c \in Callers, NEW d \in Callers, d # c,
           Over(d) \/ (\E at : Goto(d, at)) \/ (\E who : Starts(d, who))
               \/ (\E who : RunsUnlessCut(d, who)) \/ Undecided(d)
    PROVE  pc'[c] = pc[c]
  BY DEF Stands, Over, Goto, Starts, RunsUnlessCut, Undecided

LEMMA NotBegun ==
    ASSUME Stands, NEW c \in Callers, Over(c) \/ Undecided(c) \/ (\E at : at # "running" /\ Goto(c, at))
    PROVE  ~Begins(c)
  BY DEF Stands, Over, Goto, Undecided, Begins

LEMMA BegunUncut ==
    ASSUME Stands, NEW c \in Callers, NEW who, RunsUnlessCut(c, who), Begins(c)
    PROVE  ~cut /\ Starts(c, who) /\ by'[c] = who
<1>1. ~cut /\ Starts(c, who)
  BY NotBegun DEF RunsUnlessCut
<1> QED
  BY <1>1 DEF Starts, Stands

ByRules(c) ==
    \E hook \in Hooks : Decide(c, hook) /\ Decision(c, hook) = "allow" /\ by'[c] = "rules"
Recalls(c) ==
    /\ Ask(c) /\ by'[c] = "judge"
    /\ Key(call[c]) \in DOMAIN judge[J(c)].cache /\ judge[J(c)].cache[Key(call[c])] = "approve"
Approves(c) ==
    /\ Verdict(c) /\ by'[c] = "judge" /\ ~Stale(c)
    /\ rulings' = rulings \cup {Ruling(c, "approve")}

LEMMA DecideBegins ==
    ASSUME Stands, NEW c \in Callers, NEW hook \in Hooks, Decide(c, hook), Begins(c)
    PROVE  ByRules(c)
<1>1. CASE Over(c) \/ Undecided(c) \/ Goto(c, "noting")
  BY <1>1, NotBegun
<1>2. CASE Decision(c, hook) = "allow" /\ Starts(c, "rules")
  <2>1. by'[c] = "rules"
    BY <1>2 DEF Starts, Stands
  <2> QED
    BY <1>2, <2>1 DEF ByRules
<1>3. \/ Over(c) \/ Undecided(c) \/ Goto(c, "noting")
      \/ Decision(c, hook) = "allow" /\ Starts(c, "rules")
  BY DEF Decide
<1> QED
  BY <1>1, <1>2, <1>3

LEMMA AskBegins ==
    ASSUME Stands, NEW c \in Callers, Ask(c), Begins(c)
    PROVE  ~cut /\ Recalls(c)
<1>1. ~Over(c) /\ ~Undecided(c) /\ ~Goto(c, "verdict")
  BY NotBegun
<1>2. /\ RunsUnlessCut(c, "judge")
      /\ Key(call[c]) \in DOMAIN judge[J(c)].cache /\ judge[J(c)].cache[Key(call[c])] = "approve"
  BY <1>1 DEF Ask
<1> QED
  BY <1>2, BegunUncut DEF Recalls

LEMMA VerdictBegins ==
    ASSUME Stands, NEW c \in Callers, Verdict(c), Begins(c)
    PROVE  ~cut /\ Approves(c)
<1>1. ~Over(c) /\ ~Undecided(c)
  BY NotBegun
<1>2. /\ RunsUnlessCut(c, "judge") /\ ~Stale(c)
      /\ rulings' = rulings \cup {Ruling(c, "approve")}
  BY <1>1 DEF Verdict
<1> QED
  BY <1>2, BegunUncut DEF Approves

\* A call starts on what the rules say, on the user's answer, or on the judge's word,
\* remembered or just given; the last three only where no interrupt came.
LEMMA Beginnings ==
    ASSUME Stands, WatchedNext, NEW c \in Callers, Begins(c)
    PROVE  \/ ByRules(c)
           \/ ~cut /\ by'[c] = "you"
           \/ ~cut /\ (Recalls(c) \/ Approves(c))
<1>1. CASE \E d \in Callers, k \in Calls : Make(d, k)
  BY <1>1, ElsewhereMoves, NotBegun DEF Make, Begins
<1>2. CASE \E d \in Callers, hook \in Hooks : Decide(d, hook)
  <2>1. PICK d \in Callers, hook \in Hooks : Decide(d, hook)
    BY <1>2
  <2>2. Over(d) \/ Starts(d, "rules") \/ Undecided(d) \/ Goto(d, "noting")
    BY <2>1 DEF Decide
  <2>3. d = c
    BY <2>2, ElsewhereMoves DEF Begins
  <2> QED
    BY <2>1, <2>3, DecideBegins
<1>3. CASE \E d \in Callers : Ask(d)
  <2>1. PICK d \in Callers : Ask(d)
    BY <1>3
  <2>2. Over(d) \/ RunsUnlessCut(d, "judge") \/ Undecided(d) \/ Goto(d, "verdict")
    BY <2>1 DEF Ask
  <2>3. d = c
    BY <2>2, ElsewhereMoves DEF Begins
  <2> QED
    BY <2>1, <2>3, AskBegins
<1>4. CASE \E d \in Callers : Verdict(d)
  <2>1. PICK d \in Callers : Verdict(d)
    BY <1>4
  <2>2. Over(d) \/ RunsUnlessCut(d, "judge") \/ Undecided(d)
    BY <2>1 DEF Verdict
  <2>3. d = c
    BY <2>2, ElsewhereMoves DEF Begins
  <2> QED
    BY <2>1, <2>3, VerdictBegins
<1>5. CASE \E d \in Callers : Accept(d) \/ Saved(d)
  <2>1. PICK d \in Callers : RunsUnlessCut(d, "you")
    BY <1>5 DEF Accept, Saved
  <2>2. d = c
    BY <2>1, ElsewhereMoves DEF Begins
  <2> QED
    BY <2>1, <2>2, BegunUncut
<1>6. CASE \E d \in Callers : Cut(d) \/ Reject(d) \/ Ends(d) \/ \E text \in Texts : AcceptAlways(d, text)
  <2>1. PICK d \in Callers : Over(d) \/ Goto(d, "saving")
    BY <1>6 DEF Cut, Reject, Ends, AcceptAlways
  <2> QED
    BY <2>1, ElsewhereMoves, NotBegun DEF Begins
<1>7. CASE Restart
  BY <1>7 DEF Restart, Begins
<1>8. CASE \/ \E d \in Callers, k \in Calls, p \in Calls : AppealCall(d, k, p)
           \/ \E d \in Doers : (PolicyStep(d) \/ Change(d)) /\ UNCHANGED <<judgeVars, callVars>>
           \/ Ship /\ UNCHANGED <<judgeVars, callVars>>
           \/ \E j \in Judges : Hears(j) \/ Wakes(j)
           \/ Interrupt \/ Goal
  <2>1. UNCHANGED pc
    BY <1>8 DEF AppealCall, Hears, Wakes, Interrupt, Goal, callVars
  <2> QED
    BY <2>1 DEF Begins
<1> QED
  BY <1>1, <1>2, <1>3, <1>4, <1>5, <1>6, <1>7, <1>8 DEF WatchedNext, Next

-----------------------------------------------------------------------------
(* What a judge remembers. *)

Records ==
    /\ DOMAIN judge = Judges
    /\ \A j \in Judges : DOMAIN judge[j] = {"spent", "cache", "appeals", "owner"}

\* A verdict that is remembered was given, for that call and those words.
Remembered ==
    \A j \in Judges : \A key \in DOMAIN judge[j].cache :
        \E r \in rulings : /\ r.judge = j /\ key = <<r.call, r.words, r.aim>>
                           /\ r.verdict = judge[j].cache[key]

\* The notes hold all that was said, and no grant among it: only then a verdict is kept.
Settles == noted = words /\ ~granted

\* What is put to a judge is about the call that waits, with no more than was said.
PutAsIs ==
    /\ DOMAIN asked = Callers
    /\ \A c \in Callers : pc[c] = "verdict" =>
          /\ asked[c].key = <<call[c], asked[c].words, asked[c].aim>>
          /\ asked[c].words \in Nat /\ asked[c].words <= words /\ asked[c].keep \in BOOLEAN
          /\ asked[c].keep /\ asked[c].words = words => Settles

\* A verdict that was kept is still remembered while nothing more is said.
StillKept ==
    \A r \in rulings :
        /\ r.judge \in Judges /\ r.words \in Nat /\ r.words <= words
        /\ r.kept /\ r.words = words =>
              Settles /\ <<r.call, r.words, r.aim>> \in DOMAIN judge[r.judge].cache

JudgeInv == words \in Nat /\ Records /\ Remembered /\ PutAsIs /\ StillKept

SameCaches == Records' /\ \A j \in Judges : judge'[j].cache = judge[j].cache

LEMMA OwnJudge == ASSUME NEW c \in Callers PROVE J(c) \in Judges
  BY CallersAssumption DEF J

LEMMA BlockedCaches ==
    ASSUME Records, NEW j \in Judges, NEW k, judge' \in {judge, Blocked(j, k)} PROVE SameCaches
  BY DEF Records, Blocked, SameCaches

LEMMA RecalledCaches ==
    ASSUME Records, NEW j \in Judges, NEW k, judge' = Recalled(j, k) PROVE SameCaches
  BY DEF Records, Recalled, SameCaches

LEMMA AskedCaches ==
    ASSUME Records, NEW j \in Judges, NEW k, judge' = Asked(j, k) PROVE SameCaches
  BY DEF Records, Asked, SameCaches

LEMMA AppealedCaches ==
    ASSUME Records, NEW j \in Judges, NEW k, NEW p, Appealed(j, k, p) PROVE SameCaches
  BY DEF Records, Appealed, SameCaches

LEMMA RefillCaches == ASSUME Records, NEW j \in Judges, Refill(j) PROVE SameCaches
  BY DEF Records, Refill, SameCaches

LEMMA RuledCaches ==
    ASSUME Records, NEW j \in Judges, NEW k, NEW key, NEW keep \in BOOLEAN, NEW v,
           judge' = Ruled(j, k, key, keep, v)
    PROVE  /\ Records'
           /\ \A i \in Judges : judge'[i].cache = IF i = j /\ keep THEN With(judge[i].cache, key, v)
                                                  ELSE judge[i].cache
  BY DEF Records, Ruled
-----------------------------------------------------------------------------
(* Every step keeps what a judge remembers. *)

Kept == UNCHANGED words /\ (Settles => Settles')

LEMMA CachesStay ==
    ASSUME JudgeInv, SameCaches, Kept, UNCHANGED rulings PROVE Records' /\ Remembered' /\ StillKept'
<1>1. Records' /\ \A j \in Judges : judge'[j].cache = judge[j].cache
  BY DEF SameCaches
<1>2. Remembered'
  BY <1>1 DEF JudgeInv, Remembered
<1>3. StillKept'
  BY <1>1 DEF JudgeInv, StillKept, Kept
<1> QED
  BY <1>1, <1>2, <1>3

\* Of the calls only one moves, and it is not put to a judge.
LEMMA PutsNothing ==
    ASSUME JudgeInv, Stands, Stands', Kept, NEW c \in Callers, pc'[c] # "verdict",
           DOMAIN asked' = Callers,
           \A d \in Callers \ {c} : pc'[d] = pc[d] /\ call'[d] = call[d] /\ asked'[d] = asked[d]
    PROVE  PutAsIs'
  BY DEF JudgeInv, PutAsIs, Kept

LEMMA PutStays == ASSUME JudgeInv, Kept, UNCHANGED <<pc, call, asked>> PROVE PutAsIs'
  BY DEF JudgeInv, PutAsIs, Kept

LEMMA OneMoves ==
    ASSUME JudgeInv, Stands, NEW c \in Callers, NEW who,
           \/ Over(c) \/ Starts(c, who) \/ RunsUnlessCut(c, who) \/ Undecided(c)
           \/ (\E at : at # "verdict" /\ Goto(c, at)) /\ UNCHANGED <<call, asked>>
    PROVE  /\ pc'[c] # "verdict" /\ DOMAIN asked' = Callers
           /\ \A d \in Callers \ {c} : pc'[d] = pc[d] /\ call'[d] = call[d] /\ asked'[d] = asked[d]
<1>1. /\ DOMAIN asked = Callers
      /\ pc \in [Callers -> Places] /\ call \in [Callers -> Calls \cup {NoCall}]
  BY DEF JudgeInv, PutAsIs, Stands
<1>2. CASE Over(c)
  BY <1>1, <1>2 DEF Over
<1>3. CASE Starts(c, who)
  BY <1>1, <1>3 DEF Starts
<1>4. CASE (\E at : at # "verdict" /\ Goto(c, at)) /\ UNCHANGED <<call, asked>>
  BY <1>1, <1>4 DEF Goto
<1> QED
  BY <1>2, <1>3, <1>4 DEF RunsUnlessCut, Undecided

\* A step of one call that leaves the judges' memory as it was.
LEMMA CallMoves ==
    ASSUME JudgeInv, Stands, Stands', SameCaches, Kept, UNCHANGED rulings, NEW c \in Callers, NEW who,
           \/ Over(c) \/ Starts(c, who) \/ RunsUnlessCut(c, who) \/ Undecided(c)
           \/ (\E at : at # "verdict" /\ Goto(c, at)) /\ UNCHANGED <<call, asked>>
    PROVE  JudgeInv'
<1>1. PutAsIs'
  BY OneMoves, PutsNothing
<1> QED
  BY <1>1, CachesStay DEF JudgeInv, Kept

LEMMA SameJudge == ASSUME Records, UNCHANGED judge PROVE SameCaches
  BY DEF Records, SameCaches

LEMMA MakeJudge ==
    ASSUME JudgeInv, Stands, Stands', NEW c \in Callers, NEW k \in Calls, Make(c, k) PROVE JudgeInv'
<1>1. UNCHANGED <<judgeVars, asked, rulings>> /\ Goto(c, "hook") /\ call' = [call EXCEPT ![c] = k]
  BY DEF Make
<1>2. SameCaches /\ Kept
  BY <1>1, SameJudge DEF judgeVars, JudgeInv, Kept, Settles
<1>3. pc'[c] # "verdict" /\ \A d \in Callers \ {c} : pc'[d] = pc[d] /\ call'[d] = call[d]
  BY <1>1 DEF Goto, Stands
<1>4. PutAsIs'
  BY <1>1, <1>2, <1>3, PutsNothing DEF JudgeInv, PutAsIs
<1> QED
  BY <1>1, <1>2, <1>4, CachesStay DEF JudgeInv, Kept

LEMMA DecideJudge ==
    ASSUME JudgeInv, Stands, Stands', NEW c \in Callers, NEW hook, Decide(c, hook) PROVE JudgeInv'
<1>1. judge' \in {judge, Blocked(J(c), call[c])}
  BY DEF Decide
<1>2. SameCaches
  BY <1>1, OwnJudge, BlockedCaches DEF JudgeInv
<1>3. Kept /\ UNCHANGED rulings
  BY DEF Decide, Kept, Settles, Settled
<1>4. \/ Over(c) \/ Starts(c, "rules") \/ Undecided(c)
      \/ Goto(c, "noting") /\ UNCHANGED <<call, asked>>
  BY DEF Decide
<1> QED
  BY <1>2, <1>3, <1>4, CallMoves

\* Notes that hold everything are not made again.
LEMMA NotesKeep ==
    ASSUME words \in Nat, NEW c, Notes(c), UNCHANGED words PROVE Kept
<1>1. SUFFICES ASSUME Settles PROVE Settles'
  BY DEF Kept
<1>2. noted = words
  BY <1>1 DEF Settles
<1>3. ~(noted < words)
  BY <1>2
<1>4. UNCHANGED <<noted, granted>>
  BY <1>3 DEF Notes
<1> QED
  BY <1>1, <1>4 DEF Settles

LEMMA AskJudge ==
    ASSUME JudgeInv, Stands, Stands', NEW c \in Callers, Ask(c) PROVE JudgeInv'
<1>1. Kept /\ UNCHANGED <<words, rulings>>
  BY NotesKeep DEF Ask, JudgeInv, Settled
<1>2. CASE /\ judge' \in {judge, Recalled(J(c), call[c])}
           /\ RunsUnlessCut(c, "judge") \/ Over(c) \/ Undecided(c)
  <2>1. SameCaches
    BY <1>2, OwnJudge, RecalledCaches, SameJudge DEF JudgeInv
  <2> QED
    BY <1>1, <1>2, <2>1, CallMoves
<1> DEFINE put == [key |-> Key(call[c]), words |-> words, aim |-> aim, keep |-> noted' = words /\ ~granted',
                   again |-> Proposed(J(c), call[c])]
<1>3. CASE /\ judge' = Asked(J(c), call[c])
           /\ Goto(c, "verdict") /\ asked' = [asked EXCEPT ![c] = put] /\ UNCHANGED <<call, by>>
  <2>1. SameCaches
    BY <1>3, OwnJudge, AskedCaches DEF JudgeInv
  <2>2. DOMAIN asked = Callers /\ pc \in [Callers -> Places]
    BY DEF JudgeInv, PutAsIs, Stands
  <2>3. DOMAIN asked' = Callers /\ asked'[c] = put
        /\ \A d \in Callers \ {c} : pc'[d] = pc[d] /\ asked'[d] = asked[d]
    BY <1>3, <2>2 DEF Goto
  <2>4. /\ put.key = <<call'[c], put.words, put.aim>>
        /\ put.words \in Nat /\ put.words <= words' /\ put.keep \in BOOLEAN
        /\ put.keep /\ put.words = words' => Settles'
    <3>1. words' = words /\ words \in Nat /\ call' = call
      BY <1>1, <1>3 DEF JudgeInv
    <3>2. put.key = Key(call[c]) /\ put.words = words /\ put.aim = aim
      OBVIOUS
    <3>3. put.keep = (noted' = words /\ ~granted')
      OBVIOUS
    <3>4. put.keep => Settles'
      BY <3>1, <3>3, Zenon DEF Settles
    <3>5. put.keep \in BOOLEAN
      BY <3>3, Zenon
    <3> QED
      BY <3>1, <3>2, <3>4, <3>5 DEF Key
  <2>5. PutAsIs'
    <3>1. ASSUME NEW d \in Callers, pc'[d] = "verdict"
          PROVE  /\ asked'[d].key = <<call'[d], asked'[d].words, asked'[d].aim>>
                 /\ asked'[d].words \in Nat /\ asked'[d].words <= words' /\ asked'[d].keep \in BOOLEAN
                 /\ asked'[d].keep /\ asked'[d].words = words' => Settles'
      <4>1. CASE d = c
        BY <2>3, <2>4, <4>1
      <4>2. CASE d # c
        BY <1>1, <1>3, <2>3, <3>1, <4>2 DEF JudgeInv, PutAsIs, Kept
      <4> QED
        BY <4>1, <4>2
    <3> QED
      BY <2>3, <3>1 DEF PutAsIs
  <2> QED
    BY <1>1, <2>1, <2>5, CachesStay DEF JudgeInv, Kept
<1>4. \/ /\ judge' \in {judge, Recalled(J(c), call[c])}
         /\ RunsUnlessCut(c, "judge") \/ Over(c) \/ Undecided(c)
      \/ /\ judge' = Asked(J(c), call[c])
         /\ Goto(c, "verdict") /\ asked' = [asked EXCEPT ![c] = put] /\ UNCHANGED <<call, by>>
  BY DEF Ask
<1> QED
  BY <1>2, <1>3, <1>4

LEMMA RuledJudge ==
    ASSUME JudgeInv, Stands, Stands', NEW c \in Callers, NEW v, pc[c] = "verdict", ~Stale(c),
           judge' = Ruled(J(c), call[c], asked[c].key, asked[c].keep, v),
           rulings' = rulings \cup {Ruling(c, v)},
           RunsUnlessCut(c, "judge") \/ Over(c), UNCHANGED <<words, noted, granted>>
    PROVE  JudgeInv'
<1>1. Kept
  BY DEF Kept, Settles
<1>2. PutAsIs'
  BY <1>1, OneMoves, PutsNothing
<1> DEFINE r0 == Ruling(c, v)
<1>3. /\ asked[c].key = <<call[c], asked[c].words, asked[c].aim>>
      /\ asked[c].words = words /\ words \in Nat /\ asked[c].keep \in BOOLEAN
      /\ asked[c].keep => Settles
  BY DEF JudgeInv, PutAsIs, Stale
<1>4. /\ r0.judge = J(c) /\ r0.call = call[c] /\ r0.words = words /\ r0.aim = asked[c].aim
      /\ r0.kept = asked[c].keep /\ r0.verdict = v /\ r0 \in rulings'
  BY <1>3 DEF Ruling
<1>5. /\ Records'
      /\ \A i \in Judges : judge'[i].cache = IF i = J(c) /\ asked[c].keep
                                             THEN With(judge[i].cache, asked[c].key, v)
                                             ELSE judge[i].cache
  BY <1>3, OwnJudge, RuledCaches DEF JudgeInv
<1> HIDE DEF r0
<1>6. Remembered'
  <2>1. ASSUME NEW i \in Judges, NEW key \in DOMAIN judge'[i].cache
        PROVE  \E r \in rulings' : /\ r.judge = i /\ key = <<r.call, r.words, r.aim>>
                                   /\ r.verdict = judge'[i].cache[key]
    <3>1. CASE i = J(c) /\ asked[c].keep /\ key = asked[c].key
      <4>1. judge'[i].cache[key] = v
        BY <1>5, <2>1, <3>1 DEF With
      <4> QED
        BY <1>3, <1>4, <3>1, <4>1
    <3>2. CASE ~(i = J(c) /\ asked[c].keep /\ key = asked[c].key)
      <4>1. CASE i = J(c) /\ asked[c].keep
        <5>1. judge'[i].cache = With(judge[i].cache, asked[c].key, v) /\ key # asked[c].key
          BY <1>5, <3>2, <4>1
        <5>2. key \in DOMAIN judge[i].cache /\ judge'[i].cache[key] = judge[i].cache[key]
          BY <2>1, <5>1 DEF With
        <5> QED
          BY <5>2 DEF JudgeInv, Remembered
      <4>2. CASE ~(i = J(c) /\ asked[c].keep)
        <5>1. judge'[i].cache = judge[i].cache
          BY <1>5, <4>2
        <5> QED
          BY <2>1, <5>1 DEF JudgeInv, Remembered
      <4> QED
        BY <4>1, <4>2
    <3> QED
      BY <3>1, <3>2
  <2> QED
    BY <2>1 DEF Remembered
<1>7. StillKept'
  <2>1. ASSUME NEW r \in rulings'
        PROVE  /\ r.judge \in Judges /\ r.words \in Nat /\ r.words <= words'
               /\ r.kept /\ r.words = words' =>
                     Settles' /\ <<r.call, r.words, r.aim>> \in DOMAIN judge'[r.judge].cache
    <3>1. CASE r = r0
      <4>1. asked[c].keep => asked[c].key \in DOMAIN judge'[J(c)].cache
        BY <1>5, OwnJudge DEF With
      <4> QED
        BY <1>1, <1>3, <1>4, <3>1, <4>1, OwnJudge DEF Kept
    <3>2. CASE r \in rulings
      <4>1. DOMAIN judge[r.judge].cache \subseteq DOMAIN judge'[r.judge].cache
        BY <1>5, <3>2 DEF With, JudgeInv, StillKept
      <4> QED
        BY <1>1, <3>2, <4>1 DEF JudgeInv, StillKept, Kept
    <3> QED
      BY <2>1, <3>1, <3>2 DEF r0
  <2> QED
    BY <2>1 DEF StillKept
<1> QED
  BY <1>2, <1>5, <1>6, <1>7, <1>1 DEF JudgeInv, Kept
LEMMA VerdictJudge ==
    ASSUME JudgeInv, Stands, Stands', NEW c \in Callers, Verdict(c) PROVE JudgeInv'
<1>1. pc[c] = "verdict" /\ UNCHANGED <<words, noted, granted>>
  BY DEF Verdict
<1>2. CASE judge' = judge /\ rulings' = rulings /\ Undecided(c)
  <2>1. SameCaches /\ Kept
    BY <1>1, <1>2, SameJudge DEF JudgeInv, Kept, Settles
  <2> QED
    BY <1>2, <2>1, CallMoves
<1>3. CASE \E v : /\ ~Stale(c)
                  /\ judge' = Ruled(J(c), call[c], asked[c].key, asked[c].keep, v)
                  /\ rulings' = rulings \cup {Ruling(c, v)}
                  /\ RunsUnlessCut(c, "judge") \/ Over(c)
  BY <1>1, <1>3, RuledJudge
<1> QED
  BY <1>2, <1>3 DEF Verdict

LEMMA AnswerJudge ==
    ASSUME JudgeInv, Stands, Stands', NEW c \in Callers,
           Accept(c) \/ Saved(c) \/ Reject(c) \/ Ends(c) \/ Cut(c)
               \/ \E text \in Texts : AcceptAlways(c, text)
    PROVE  JudgeInv'
<1>1. UNCHANGED <<judgeVars, rulings>>
  BY DEF Accept, Saved, Reject, Ends, Cut, AcceptAlways, Settled
<1>2. SameCaches /\ Kept
  BY <1>1, SameJudge DEF judgeVars, JudgeInv, Kept, Settles
<1>3. \/ Over(c) \/ RunsUnlessCut(c, "you")
      \/ Goto(c, "saving") /\ UNCHANGED <<call, asked>>
  BY DEF Accept, Saved, Reject, Ends, Cut, AcceptAlways
<1> QED
  BY <1>1, <1>2, <1>3, CallMoves

\* Steps that leave every call and what was said.
LEMMA CallsRest ==
    ASSUME JudgeInv, SameCaches, Kept, UNCHANGED <<pc, call, asked, rulings>> PROVE JudgeInv'
  BY CachesStay, PutStays DEF JudgeInv, Kept

LEMMA ElsewhereJudge ==
    ASSUME JudgeInv,
           \/ \E c \in Callers, k \in Calls, p \in Calls : AppealCall(c, k, p)
           \/ \E d \in Doers : (PolicyStep(d) \/ Change(d)) /\ UNCHANGED <<judgeVars, callVars>>
           \/ Ship /\ UNCHANGED <<judgeVars, callVars>>
           \/ \E j \in Judges : Wakes(j)
           \/ Interrupt \/ Goal
           \/ UNCHANGED allVars
    PROVE  JudgeInv'
<1>1. UNCHANGED <<pc, call, asked, rulings, words, noted, granted>>
  BY DEF AppealCall, Wakes, Refill, Interrupt, Goal, Aims, callVars, allVars, vars, judgeVars
<1>2. SameCaches
  <2>1. CASE \E c \in Callers, k \in Calls, p \in Calls : AppealCall(c, k, p)
    BY <2>1, OwnJudge, AppealedCaches DEF AppealCall, JudgeInv
  <2>2. CASE \E j \in Judges : Wakes(j)
    BY <2>2, RefillCaches DEF Wakes, JudgeInv
  <2>3. CASE UNCHANGED judge
    BY <2>3, SameJudge DEF JudgeInv
  <2> QED
    BY <2>1, <2>2, <2>3 DEF Interrupt, Goal, Aims, allVars, vars, judgeVars
<1>3. Kept
  BY <1>1 DEF Kept, Settles
<1> QED
  BY <1>1, <1>2, <1>3, CallsRest

\* What the user says makes every verdict one of before.
LEMMA HearsJudge == ASSUME JudgeInv, NEW j \in Judges, Hears(j) PROVE JudgeInv'
<1>1. /\ words' = words + 1 /\ judge' = [judge EXCEPT ![j].cache = <<>>, ![j].spent = 0]
      /\ UNCHANGED <<pc, call, asked, rulings>>
  BY DEF Hears, Says
<1>2. /\ Records'
      /\ \A i \in Judges : judge'[i].cache = IF i = j THEN <<>> ELSE judge[i].cache
  BY <1>1 DEF JudgeInv, Records
<1>3. Remembered'
  <2>1. ASSUME NEW i \in Judges, NEW key \in DOMAIN judge'[i].cache
        PROVE  \E r \in rulings' : /\ r.judge = i /\ key = <<r.call, r.words, r.aim>>
                                   /\ r.verdict = judge'[i].cache[key]
    <3>1. i # j
      BY <1>2, <2>1
    <3>2. judge'[i].cache = judge[i].cache
      BY <1>2, <3>1
    <3> QED
      BY <1>1, <2>1, <3>2 DEF JudgeInv, Remembered
  <2> QED
    BY <2>1 DEF Remembered
<1>4. PutAsIs'
  BY <1>1 DEF JudgeInv, PutAsIs
<1>5. StillKept'
  <2>1. ASSUME NEW r \in rulings'
        PROVE  r.judge \in Judges /\ r.words \in Nat /\ r.words <= words' /\ r.words # words'
    <3>1. r \in rulings /\ words' = words + 1 /\ words \in Nat
      BY <1>1, <2>1 DEF JudgeInv
    <3>2. r.judge \in Judges /\ r.words \in Nat /\ r.words <= words
      BY <3>1 DEF JudgeInv, StillKept
    <3> QED
      BY <3>1, <3>2
  <2> QED
    BY <2>1 DEF StillKept
<1> QED
  BY <1>1, <1>2, <1>3, <1>4, <1>5 DEF JudgeInv

LEMMA FreshJudge ==
    ASSUME judge = [j \in Judges |-> Fresh], rulings = {}, words \in Nat,
           pc = [c \in Callers |-> "idle"], asked = [c \in Callers |-> Nothing]
    PROVE  JudgeInv
<1>1. \A j \in Judges : judge[j] = Fresh /\ DOMAIN judge[j].cache = {}
  BY DEF Fresh
<1>2. Records
  BY <1>1 DEF Records, Fresh
<1> QED
  BY <1>1, <1>2 DEF JudgeInv, Remembered, PutAsIs, StillKept

LEMMA RestartJudge == ASSUME JudgeInv, Restart PROVE JudgeInv'
<1>1. /\ judge' = [j \in Judges |-> Fresh] /\ rulings' = {} /\ words' \in Nat
      /\ pc' = [c \in Callers |-> "idle"] /\ asked' = [c \in Callers |-> Nothing]
  BY DEF Restart, JudgeInv
<1>2. \A j \in Judges : judge'[j] = Fresh /\ DOMAIN judge'[j].cache = {}
  BY <1>1 DEF Fresh
<1>3. Records'
  BY <1>1, <1>2 DEF Records, Fresh
<1> QED
  BY <1>1, <1>2, <1>3 DEF JudgeInv, Remembered, PutAsIs, StillKept

LEMMA InitJudge == ASSUME Init PROVE JudgeInv
  BY FreshJudge DEF Init, JudgeInit

LEMMA NextJudge == ASSUME JudgeInv, Stands, Stands', [WatchedNext]_allVars PROVE JudgeInv'
<1>1. CASE \E c \in Callers, k \in Calls : Make(c, k)
  BY <1>1, MakeJudge
<1>2. CASE \E c \in Callers, hook \in Hooks : Decide(c, hook)
  BY <1>2, DecideJudge
<1>3. CASE \E c \in Callers : Ask(c) \/ Verdict(c)
  BY <1>3, AskJudge, VerdictJudge
<1>4. CASE \E c \in Callers : \/ Accept(c) \/ Saved(c) \/ Reject(c) \/ Ends(c) \/ Cut(c)
                             \/ \E text \in Texts : AcceptAlways(c, text)
  BY <1>4, AnswerJudge
<1>5. CASE Restart
  BY <1>5, RestartJudge
<1>6. CASE \/ \E c \in Callers, k \in Calls, p \in Calls : AppealCall(c, k, p)
           \/ \E d \in Doers : (PolicyStep(d) \/ Change(d)) /\ UNCHANGED <<judgeVars, callVars>>
           \/ Ship /\ UNCHANGED <<judgeVars, callVars>>
           \/ \E j \in Judges : Wakes(j)
           \/ Interrupt \/ Goal
           \/ UNCHANGED allVars
  BY <1>6, ElsewhereJudge
<1>7. CASE \E j \in Judges : Hears(j)
  BY <1>7, HearsJudge
<1> QED
  BY <1>1, <1>2, <1>3, <1>4, <1>5, <1>6, <1>7 DEF WatchedNext, Next

\* Only Ask puts a call to the judge, and not one it remembers.
LEMMA AsksJudge ==
    ASSUME JudgeInv, Stands, WatchedNext, NEW c \in Callers, pc[c] = "noting", pc'[c] = "verdict"
    PROVE  /\ Ask(c) /\ asked'[c].again = Proposed(J(c), call[c])
           /\ ~(noted' = words /\ ~granted' /\ ~Proposed(J(c), call[c])
                  /\ Key(call[c]) \in DOMAIN judge[J(c)].cache)
<1>1. ASSUME NEW d \in Callers,
             Over(d) \/ (\E at : at # "verdict" /\ Goto(d, at)) \/ (\E who : Starts(d, who))
                 \/ (\E who : RunsUnlessCut(d, who)) \/ Undecided(d)
      PROVE  FALSE
  <2>1. d = c
    BY <1>1, ElsewhereMoves
  <2> QED
    BY <1>1, <2>1 DEF Stands, Over, Goto, Starts, RunsUnlessCut, Undecided
<1>2. \A d \in Callers, k \in Calls : ~Make(d, k)
  BY <1>1 DEF Make
<1>3. \A d \in Callers, hook \in Hooks : ~Decide(d, hook)
  <2>1. SUFFICES ASSUME NEW d \in Callers, NEW hook \in Hooks, Decide(d, hook) PROVE FALSE
    OBVIOUS
  <2>2. Over(d) \/ Starts(d, "rules") \/ Undecided(d) \/ Goto(d, "noting")
    BY <2>1 DEF Decide
  <2> QED
    BY <2>2, <1>1
<1>4. \A d \in Callers : ~Verdict(d)
  <2>1. SUFFICES ASSUME NEW d \in Callers, Verdict(d) PROVE FALSE
    OBVIOUS
  <2>2. Over(d) \/ RunsUnlessCut(d, "judge") \/ Undecided(d)
    BY <2>1 DEF Verdict
  <2> QED
    BY <2>2, <1>1
<1>5. \A d \in Callers : ~(Cut(d) \/ Reject(d) \/ Accept(d) \/ Saved(d) \/ Ends(d))
  BY <1>1 DEF Cut, Reject, Accept, Saved, Ends
<1>6. \A d \in Callers, text \in Texts : ~AcceptAlways(d, text)
  BY <1>1 DEF AcceptAlways
<1>7. ~Restart
  BY DEF Restart
<1>8. UNCHANGED pc => FALSE
  OBVIOUS
<1>9. PICK d \in Callers : Ask(d)
  <2>1. /\ \A d \in Callers, k \in Calls, p \in Calls : ~AppealCall(d, k, p)
        /\ ~Interrupt /\ ~Goal
        /\ \A j \in Judges : ~Hears(j) /\ ~Wakes(j)
        /\ ~UNCHANGED <<judgeVars, callVars>>
    BY <1>8 DEF AppealCall, Hears, Wakes, Interrupt, Goal, callVars
  <2> QED
    BY <1>2, <1>3, <1>4, <1>5, <1>6, <1>7, <2>1 DEF WatchedNext, Next
<1>10. d = c
  <2>1. (\E at : Goto(d, at)) \/ Over(d) \/ RunsUnlessCut(d, "judge") \/ Undecided(d)
    BY <1>9 DEF Ask
  <2> QED
    BY <2>1, ElsewhereMoves
<1>11. Ask(c)
  BY <1>9, <1>10
<1>12. ~Over(c) /\ ~RunsUnlessCut(c, "judge") /\ ~Undecided(c)
  BY <1>1
<1> DEFINE keep == noted' = words /\ ~granted'
<1>13. /\ ~(keep /\ ~Proposed(J(c), call[c]) /\ Key(call[c]) \in DOMAIN judge[J(c)].cache)
       /\ asked' = [asked EXCEPT ![c] =
                      [key |-> Key(call[c]), words |-> words, aim |-> aim, keep |-> keep,
                       again |-> Proposed(J(c), call[c])]]
  BY <1>11, <1>12 DEF Ask
<1>14. asked'[c].again = Proposed(J(c), call[c])
  BY <1>13 DEF JudgeInv, PutAsIs
<1> QED
  BY <1>11, <1>13, <1>14

LEMMA AlwaysJudge == Watched => [](JudgeInv /\ Stands)
<1>1. Watched => []Stands
  BY AlwaysStands
<1>2. WatchedInit => JudgeInv
  BY InitJudge DEF WatchedInit
<1>3. JudgeInv /\ Stands /\ Stands' /\ [WatchedNext]_allVars => JudgeInv'
  BY NextJudge
<1> QED
  BY <1>1, <1>2, <1>3, PTL DEF Watched

\* A call that starts on the judge's word starts on one given with all the user has said by
\* then, to any agent, and none starts on a word or an answer once it is interrupted
\* (agent.rs execute, judge.rs cached and authorization's revision).
THEOREM StartsAsDecided == Watched => DecidedNow
<1>1. ASSUME JudgeInv, Stands, [WatchedNext]_allVars
      PROVE  [\A c \in Callers :
                 Begins(c) /\ by'[c] = "judge" =>
                     \E r \in rulings' : /\ r.judge = J(c) /\ r.call = call[c] /\ r.words = words
                                         /\ r.verdict = "approve"]_allVars
  <2>1. SUFFICES ASSUME WatchedNext, NEW c \in Callers, Begins(c), by'[c] = "judge"
                 PROVE  \E r \in rulings' : /\ r.judge = J(c) /\ r.call = call[c] /\ r.words = words
                                            /\ r.verdict = "approve"
    BY <1>1
  <2>2. CASE Recalls(c)
    <3>1. PICK r \in rulings : /\ r.judge = J(c) /\ Key(call[c]) = <<r.call, r.words, r.aim>>
                               /\ r.verdict = judge[J(c)].cache[Key(call[c])]
      BY <1>1, <2>2, OwnJudge DEF Recalls, JudgeInv, Remembered
    <3>2. r.call = call[c] /\ r.words = words /\ r.verdict = "approve"
      BY <2>2, <3>1 DEF Key, Recalls
    <3>3. rulings' = rulings
      BY <2>2 DEF Recalls, Ask, Settled
    <3> QED
      BY <3>1, <3>2, <3>3
  <2>3. CASE Approves(c)
    <3> DEFINE r0 == Ruling(c, "approve")
    <3>1. r0.judge = J(c) /\ r0.call = call[c] /\ r0.words = words /\ r0.verdict = "approve"
      BY <2>3 DEF Approves, Ruling, Stale
    <3>2. r0 \in rulings'
      BY <2>3 DEF Approves
    <3> HIDE DEF r0
    <3> QED
      BY <3>1, <3>2
  <2> QED
    BY <1>1, <2>1, <2>2, <2>3, Beginnings DEF ByRules
<1>2. ASSUME Stands, [WatchedNext]_allVars
      PROVE  [\A c \in Callers : cut /\ Begins(c) => by'[c] = "rules"]_allVars
  BY <1>2, Beginnings DEF ByRules
<1> QED
  BY <1>1, <1>2, AlwaysJudge, PTL DEF Watched, DecidedNow, VerdictCurrent, NoStartAfterCut

\* While a verdict kept for a call stands the judge is not asked again, and in auto nothing
\* denied runs on the rules while its appeal waits (judge.rs has_pending_appeal, agent.rs).
THEOREM AppealsStand == Watched => AppealsHold
<1>1. ASSUME JudgeInv, Stands, [WatchedNext]_allVars
      PROVE  [\A c \in Callers :
                 pc[c] = "noting" /\ pc'[c] = "verdict" /\ ~asked'[c].again =>
                     ~ \E r \in rulings : /\ r.judge = J(c) /\ r.call = call[c]
                                          /\ r.words = words /\ r.aim = aim /\ r.kept]_allVars
  <2>1. SUFFICES ASSUME WatchedNext, NEW c \in Callers, pc[c] = "noting", pc'[c] = "verdict",
                        ~asked'[c].again, NEW r \in rulings,
                        r.judge = J(c), r.call = call[c], r.words = words, r.aim = aim, r.kept
                 PROVE  FALSE
    BY <1>1
  <2>2. Ask(c) /\ asked'[c].again = Proposed(J(c), call[c])
        /\ ~(noted' = words /\ ~granted' /\ ~Proposed(J(c), call[c])
               /\ Key(call[c]) \in DOMAIN judge[J(c)].cache)
    BY <1>1, <2>1, AsksJudge
  <2>3. Settles /\ Key(call[c]) \in DOMAIN judge[J(c)].cache
    BY <1>1, <2>1 DEF JudgeInv, StillKept, Key
  <2>4. Kept
    BY <1>1, <2>2, NotesKeep DEF Ask, JudgeInv
  <2>5. noted' = words /\ ~granted'
    BY <2>3, <2>4 DEF Kept, Settles
  <2> QED
    BY <2>1, <2>2, <2>3, <2>5
<1>2. ASSUME Stands, [WatchedNext]_allVars
      PROVE  [\A c \in Callers :
                 Begins(c) /\ by'[c] = "rules" /\ mode = "auto" /\ HasJudge => ~Queued(J(c), call[c])]_allVars
  <2>1. SUFFICES ASSUME WatchedNext, NEW c \in Callers, Begins(c), by'[c] = "rules",
                        mode = "auto", HasJudge
                 PROVE  ~Queued(J(c), call[c])
    BY <1>2
  <2>2. ByRules(c)
    BY <1>2, <2>1, Beginnings DEF Recalls, Approves
  <2> QED
    BY <2>1, <2>2 DEF ByRules, Decision
<1> QED
  BY <1>1, <1>2, AlwaysJudge, PTL DEF Watched, AppealsHold, JudgedOnce, AppealJudged
=============================================================================
