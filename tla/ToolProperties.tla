--------------------------- MODULE ToolProperties ---------------------------
(***************************************************************************)
(* What a call may count on, and the user with it, between the model that  *)
(* makes it and the tool that runs it.                                     *)
(***************************************************************************)
EXTENDS ToolCalls

VARIABLE vouched   \* history: the project's rules the user let in

allVars == <<vars, vouched>>

Saving == \E d \in Doers : op[d].at \in {"keep", "read", "save", "again", "record"}

\* The user lets rules in by trusting the files, or by remembering one.  What lands in the
\* file while they do is let in with them: nothing holds the file still meanwhile.
Vouches ==
    vouched' = vouched
        \cup (UNION {op'[d].snap : d \in {e \in Doers : op[e].at = "idle" /\ op'[e].at = "record"}})
        \cup {r.matches : r \in {x \in allow' : ~x.repo}}
        \cup (IF Saving THEN file' \ file ELSE {})

WatchedInit == Init /\ vouched = (IF trusted THEN file ELSE {})
WatchedNext == Next /\ Vouches
Watched == WatchedInit /\ [][WatchedNext]_allVars

Matched(rules, k) == \E s \in Subjects(k) : Hits(rules, s)

\* What a deny rule matches never runs: not in bypass, not on the judge's word or the
\* user's, and not behind a harmless first command (check in permissions/mod.rs).
DenyStands == \A c \in Callers : pc[c] = "running" => ~Matched(Deny, K(c))

\* What an ask rule matches runs on the user's answer alone, in every mode; all but a
\* monitor's command, whose ask rules check leaves out.
AskStands ==
    \A c \in Callers :
        pc[c] = "running" /\ K(c).tool # "monitor" /\ Matched(Asks, K(c)) => by[c] = "you"

Begins(c) == pc[c] # "running" /\ pc'[c] = "running"

\* A call the judge lets run was approved with everything the user had said by then, in
\* whichever agent: not on a verdict under way when they spoke, nor one remembered.
VerdictCurrent ==
    [][\A c \in Callers :
          Begins(c) /\ by'[c] = "judge" =>
              \E r \in rulings' : /\ r.judge = J(c) /\ r.call = call[c] /\ r.words = words
                                  /\ r.verdict = "approve"]_allVars

\* An interrupt is not overtaken by a verdict or an answer already under way.
NoStartAfterCut ==
    [][\A c \in Callers : cut /\ Begins(c) => by'[c] = "rules"]_allVars

\* What lets a call start still held when it started.
DecidedNow == VerdictCurrent /\ NoStartAfterCut

\* A call is not put to the judge again while a verdict kept for it stands, unless the
\* agent appealed.
JudgedOnce ==
    [][\A c \in Callers :
          pc[c] = "noting" /\ pc'[c] = "verdict" /\ ~asked'[c].again =>
              ~ \E r \in rulings : /\ r.judge = J(c) /\ r.call = call[c]
                                   /\ r.words = words /\ r.aim = aim /\ r.kept]_allVars

\* In auto, neither a denied call nor another in its place runs on the rules while a
\* justification for it waits for the judge.
AppealJudged ==
    [][\A c \in Callers :
          Begins(c) /\ by'[c] = "rules" /\ mode = "auto" /\ HasJudge => ~Queued(J(c), call[c])]_allVars

\* A denial stands until an appeal is heard, and is asked for once.
AppealsHold == JudgedOnce /\ AppealJudged

\* The rules a project brings count once the user let them in, whatever is saved, trusted
\* and restarted meanwhile.
RulesVouched == \A r \in allow : trusted /\ r.repo => r.matches \in vouched

\* A chain runs on the rules only if each of its commands would on its own, and none that
\* comes after a move out of the project is taken for the project's work: it writes no
\* file named from where the chain started, and builds nothing.
CONSTANT Chains   \* calls to bash, looked at whenever the policy changes
Left(chain, i) == \E j \in 1 .. i - 1 : chain.commands[j].cd = "out"
Sound(p, chain, i) ==
    LET c == chain.commands[i]
    IN  /\ Check(p, [chain EXCEPT !.commands = <<c>>]) = "allow"
        /\ Left(chain, i) =>
              /\ \A t \in c.to : t.absolute
              /\ c.cd # "no" \/ Allowed(p, c) \/ ReadOnly(p, c)
ChainSound ==
    [][Policy' # Policy /\ mode' = "auto" =>
          \A chain \in Chains :
              Check(Policy', chain) = "allow" =>
                  \A i \in 1 .. Len(chain.commands) : Sound(Policy', chain, i)]_allVars

=============================================================================
