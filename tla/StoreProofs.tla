---------------------------- MODULE StoreProofs ----------------------------
(***************************************************************************)
(* What several processes, tasks or requests have a hand in, each thing by *)
(* itself: the login in auth.json, the requests the egress proxy relays,   *)
(* the commands that run past their call, the MCP servers, the worktrees,  *)
(* and the files of a patch.                                               *)
(***************************************************************************)
EXTENDS Credentials, Egress, Commands, McpServers, Worktrees, PatchFiles, Induction, SequenceTheorems, FiniteSetTheorems

-----------------------------------------------------------------------------
(* The login.  The server either rotates its refresh tokens or does not.   *)

CallerSet ==
    [pc : {"idle", "calling", "queued", "asked", "answered"}, access : Nat, rejected : Nat,
     refresh : Nat, answer : {"none", "rotated", "kept", "refused"}, again : BOOLEAN]
CredentialTypes ==
    /\ loginFile \in [access : Nat, refresh : Nat]
    /\ server \in [issued : Nat, refresh : Nat]
    /\ caller \in [Callers -> CallerSet]
    /\ spent \in [Callers -> SUBSET Nat]
    /\ cut \in BOOLEAN
\* An answer is held by who has it to write, and a process has one refresh under way.
AnswersHeld == \A t \in Callers : caller[t].answer # "none" <=> caller[t].pc = "answered"
OneRefresh ==
    \A t, u \in Callers : Home(t) = Home(u) /\ Refreshing(t) /\ Refreshing(u) => t = u
Rotated(t) == caller[t].answer = "rotated"
\* A server that keeps its refresh token: there is only the first.
TokenKept ==
    /\ loginFile.refresh = 1 /\ server.refresh = 1
    /\ \A t \in Callers :
        /\ Refreshing(t) => caller[t].refresh = 1
        /\ ~Rotated(t) /\ spent[t] = {}
\* A server that rotates it: the file is behind the server by one answer at most, which
\* one caller holds, and the tokens the others sent are no newer than the file's.
TokensInOrder ==
    /\ server.refresh <= server.issued /\ loginFile.refresh <= server.refresh
    /\ \A t \in Callers :
        /\ Refreshing(t) => caller[t].refresh <= loginFile.refresh
        /\ Rotated(t) => caller[t].access = server.refresh /\ loginFile.refresh < server.refresh
        /\ \A x \in spent[t] : x < loginFile.refresh
        /\ caller[t].pc = "asked" => caller[t].refresh \notin spent[t]
    /\ \A t, u \in Callers : Rotated(t) /\ Rotated(u) => t = u
    /\ loginFile.refresh = server.refresh \/ \E t \in Callers : Rotated(t)
Rotates ==
    \/ Rotations = {FALSE} /\ TokenKept
    \/ Rotations = {TRUE} /\ (\A t \in Callers : caller[t].answer # "kept") /\ (cut \/ TokensInOrder)
CredentialInv == CredentialTypes /\ AnswersHeld /\ OneRefresh /\ Rotates

LEMMA LoginStarts == ASSUME Rotations \in {{TRUE}, {FALSE}}, CredentialInit PROVE CredentialInv
<1>1. CredentialTypes /\ AnswersHeld /\ OneRefresh
  BY DEF CredentialInit, CredentialTypes, CallerSet, Idle, AnswersHeld, OneRefresh, Refreshing
<1>2. TokenKept /\ TokensInOrder /\ \A t \in Callers : caller[t].answer # "kept"
  BY DEF CredentialInit, TokenKept, TokensInOrder, Idle, Refreshing, Rotated
<1> QED
  BY <1>1, <1>2 DEF CredentialInv, Rotates

LEMMA LoginFollows == ASSUME CredentialInv PROVE LoginStays
<1>1. CASE Rotations = {FALSE} /\ TokenKept
  BY <1>1 DEF TokenKept, LoginStays, LoginHeld, SpentOnce
<1>2. CASE cut
  BY <1>2 DEF LoginStays, LoginHeld, SpentOnce
<1>3. CASE TokensInOrder
  BY <1>3 DEF TokensInOrder, Rotated, LoginStays, LoginHeld, SpentOnce
<1> QED
  BY <1>1, <1>2, <1>3 DEF CredentialInv, Rotates

\* A caller that stops refreshing, or was not; an answer it drops cuts the login.
LEMMA CallerMoves ==
    ASSUME CredentialInv, NEW t \in Callers, NEW c \in CallerSet,
           caller' = [caller EXCEPT ![t] = c], c.answer = "none", c.pc \notin {"asked", "answered"},
           cut' = (cut \/ Rotated(t)), UNCHANGED <<loginFile, server, spent>>
    PROVE  CredentialInv'
<1>1. caller \in [Callers -> CallerSet] /\ cut \in BOOLEAN
  BY DEF CredentialInv, CredentialTypes
<1>2. \A u \in Callers : caller'[u] = IF u = t THEN c ELSE caller[u]
  BY <1>1
<1>3. CredentialTypes'
  BY DEF CredentialInv, CredentialTypes
<1>4. AnswersHeld' /\ OneRefresh'
  BY <1>2 DEF CredentialInv, AnswersHeld, OneRefresh, Refreshing
<1>5. ASSUME TokenKept PROVE TokenKept'
  BY <1>2, <1>5 DEF TokenKept, Refreshing, Rotated
<1>6. ASSUME TokensInOrder, ~Rotated(t) PROVE TokensInOrder'
  BY <1>2, <1>6 DEF TokensInOrder, Refreshing, Rotated
<1>7. ASSUME \A u \in Callers : caller[u].answer # "kept"
      PROVE  \A u \in Callers : caller'[u].answer # "kept"
  BY <1>2, <1>7
<1>8. Rotates'
  BY <1>1, <1>5, <1>6, <1>7, Zenon DEF CredentialInv, Rotates
<1> QED
  BY <1>3, <1>4, <1>8 DEF CredentialInv

LEMMA RefreshKeeps ==
    ASSUME CredentialInv, NEW t \in Callers, Refresh(t) PROVE CredentialInv'
<1> DEFINE moved == [caller[t] EXCEPT !.pc = "asked", !.refresh = loginFile.refresh]
<1>1. /\ caller \in [Callers -> CallerSet] /\ cut \in BOOLEAN
      /\ loginFile.access \in Nat /\ loginFile.refresh \in Nat
      /\ caller[t] \in CallerSet /\ caller[t].pc = "queued" /\ caller[t].answer = "none"
  BY DEF CredentialInv, CredentialTypes, CallerSet, AnswersHeld, Refresh
<1>2. UNCHANGED <<loginFile, server, spent, cut>>
  BY DEF Refresh
<1>3. CASE Stale(t, loginFile.access)
  <2>1. caller' = [caller EXCEPT ![t] = moved] /\ moved \in CallerSet
    BY <1>1, <1>3 DEF Refresh, CallerSet
  <2>2. \A u \in Callers : caller'[u] = IF u = t THEN moved ELSE caller[u]
    BY <1>1, <2>1
  <2>3. moved.pc = "asked" /\ moved.refresh = loginFile.refresh /\ moved.answer = "none"
    BY <1>1 DEF CallerSet
  <2>4. CredentialTypes'
    BY <1>2, <2>1 DEF CredentialInv, CredentialTypes
  <2> HIDE DEF moved
  <2>5. AnswersHeld'
    BY <2>2, <2>3 DEF CredentialInv, AnswersHeld
  <2>6. OneRefresh'
    <3>1. \A u \in Callers : Home(u) = Home(t) => ~Refreshing(u)
      BY DEF Refresh, Process
    <3> QED
      BY <2>2, <2>3, <3>1 DEF CredentialInv, OneRefresh, Refreshing
  <2>7. ASSUME TokenKept PROVE TokenKept'
    BY <1>2, <2>2, <2>3, <2>7 DEF TokenKept, Refreshing, Rotated
  <2>8. ASSUME TokensInOrder PROVE TokensInOrder'
    <3>1. loginFile.refresh \notin spent[t]
      BY <1>1, <2>8 DEF TokensInOrder
    <3>2. ~Rotated(t)
      BY <1>1 DEF Rotated
    <3>3. loginFile.refresh <= loginFile.refresh
      BY <1>1
    <3> QED
      BY <1>2, <2>2, <2>3, <2>8, <3>1, <3>2, <3>3 DEF TokensInOrder, Refreshing, Rotated
  <2>9. ASSUME \A u \in Callers : caller[u].answer # "kept"
        PROVE  \A u \in Callers : caller'[u].answer # "kept"
    BY <2>2, <2>3, <2>9
  <2> QED
    BY <1>2, <2>4, <2>5, <2>6, <2>7, <2>8, <2>9, Zenon DEF CredentialInv, Rotates
<1>4. CASE ~Stale(t, loginFile.access)
  <2>1. caller' = [caller EXCEPT ![t] = Calls(t, loginFile.access)]
    BY <1>4 DEF Refresh
  <2>2. /\ Calls(t, loginFile.access) \in CallerSet /\ Calls(t, loginFile.access).answer = "none"
        /\ Calls(t, loginFile.access).pc = "calling"
    BY <1>1 DEF Calls, CallerSet
  <2>3. cut' = (cut \/ Rotated(t))
    BY <1>1, <1>2 DEF Rotated
  <2> QED
    BY <1>2, <2>1, <2>2, <2>3, CallerMoves
<1> QED
  BY <1>3, <1>4

LEMMA ExchangeKeeps ==
    ASSUME CredentialInv, NEW t \in Callers, Exchange(t) PROVE CredentialInv'
<1>1. /\ caller \in [Callers -> CallerSet] /\ cut \in BOOLEAN
      /\ server \in [issued : Nat, refresh : Nat] /\ server.issued \in Nat /\ server.refresh \in Nat
      /\ loginFile.refresh \in Nat /\ caller[t] \in CallerSet /\ caller[t].refresh \in Nat
      /\ caller[t].pc = "asked" /\ caller[t].answer = "none" /\ Refreshing(t)
  BY DEF CredentialInv, CredentialTypes, CallerSet, AnswersHeld, Exchange, Refreshing
<1>2. UNCHANGED <<loginFile, spent, cut>>
  BY DEF Exchange
<1>3. ASSUME NEW c \in CallerSet, caller' = [caller EXCEPT ![t] = c], c.pc = "answered",
             c.answer # "none", server' \in [issued : Nat, refresh : Nat]
      PROVE  CredentialTypes' /\ AnswersHeld' /\ OneRefresh'
  <2>1. \A u \in Callers : caller'[u] = IF u = t THEN c ELSE caller[u]
    BY <1>1, <1>3
  <2>2. CredentialTypes'
    BY <1>2, <1>3 DEF CredentialInv, CredentialTypes
  <2> QED
    BY <1>1, <1>3, <2>1, <2>2 DEF CredentialInv, AnswersHeld, OneRefresh, Refreshing
<1>4. CASE caller[t].refresh = server.refresh
  <2>1. PICK rotated \in Rotations :
            /\ server' = [issued  |-> server.issued + 1,
                          refresh |-> IF rotated THEN server.issued + 1 ELSE server.refresh]
            /\ caller' = [caller EXCEPT ![t].pc = "answered", ![t].access = server.issued + 1,
                                        ![t].answer = IF rotated THEN "rotated" ELSE "kept"]
    BY <1>4, Zenon DEF Exchange
  <2> DEFINE how == IF rotated THEN "rotated" ELSE "kept"
  <2>0. how \in {"rotated", "kept"}
    OBVIOUS
  <2> HIDE DEF how
  <2>10. PICK n \in Nat : n = server.issued + 1
    BY <1>1
  <2>2. PICK c : c = [caller[t] EXCEPT !.pc = "answered", !.access = n, !.answer = how]
    OBVIOUS
  <2>3. /\ c \in CallerSet /\ c.pc = "answered" /\ c.access = server.issued + 1
        /\ c.answer = how /\ c.answer # "none" /\ c.refresh = caller[t].refresh
    <3>1. c \in CallerSet /\ c.pc = "answered" /\ c.access = n /\ c.answer = how
      BY <1>1, <2>0, <2>2 DEF CallerSet
    <3>2. c.refresh = caller[t].refresh
      BY <1>1, <2>2 DEF CallerSet
    <3> QED
      BY <2>0, <2>10, <3>1, <3>2
  <2>4. caller' = [caller EXCEPT ![t] = c]
    BY <1>1, <2>1, <2>10, <2>2 DEF how
  <2>5. /\ server' \in [issued : Nat, refresh : Nat] /\ server'.issued = server.issued + 1
        /\ server'.refresh = IF rotated THEN server.issued + 1 ELSE server.refresh
    BY <1>1, <2>1
  <2>6. \A u \in Callers : caller'[u] = IF u = t THEN c ELSE caller[u]
    BY <1>1, <2>4
  <2>7. CredentialTypes' /\ AnswersHeld' /\ OneRefresh'
    BY <1>3, <2>3, <2>4, <2>5
  <2>8. CASE Rotations = {FALSE} /\ TokenKept
    <3>1. rotated = FALSE
      BY <2>8
    <3>2. c.answer = "kept" /\ server'.refresh = server.refresh
      BY <2>3, <2>5, <3>1 DEF how
    <3>3. TokenKept'
      BY <1>1, <1>2, <2>3, <2>6, <2>8, <3>2 DEF TokenKept, Refreshing, Rotated
    <3> QED
      BY <2>7, <2>8, <3>3 DEF CredentialInv, Rotates
  <2>9. CASE Rotations = {TRUE} /\ \A u \in Callers : caller[u].answer # "kept"
    <3>1. rotated = TRUE
      BY <2>9
    <3>2. c.answer = "rotated" /\ server'.refresh = server.issued + 1
      BY <2>3, <2>5, <3>1 DEF how
    <3>3. \A u \in Callers : caller'[u].answer # "kept"
      BY <2>6, <2>9, <3>2
    <3>4. ASSUME TokensInOrder PROVE TokensInOrder'
      <4>1. loginFile.refresh = server.refresh /\ \A u \in Callers : ~Rotated(u)
        BY <1>1, <1>4, <3>4 DEF TokensInOrder
      <4>2. \A u \in Callers : Rotated(u)' <=> u = t
        BY <2>6, <3>2, <4>1 DEF Rotated
      <4>3. \A u \in Callers : Refreshing(u)' => caller'[u].refresh <= loginFile.refresh
        BY <1>1, <2>3, <2>6, <3>4 DEF TokensInOrder, Refreshing
      <4>4. \A u \in Callers : caller'[u].pc = "asked" => caller'[u].refresh \notin spent[u]
        BY <2>3, <2>6, <3>4 DEF TokensInOrder
      <4>5. server'.refresh <= server'.issued /\ loginFile.refresh < server'.refresh
        BY <1>1, <2>5, <3>2, <3>4 DEF TokensInOrder
      <4>6. caller'[t].access = server'.refresh
        BY <2>3, <2>6, <3>2
      <4>7. loginFile.refresh <= server'.refresh
        BY <1>1, <2>5, <3>2, <4>5
      <4>8. \A u \in Callers : \A x \in spent[u] : x < loginFile.refresh
        BY <3>4 DEF TokensInOrder
      <4> QED
        BY <1>2, <4>2, <4>3, <4>4, <4>5, <4>6, <4>7, <4>8 DEF TokensInOrder
    <3> QED
      BY <1>2, <2>7, <2>9, <3>3, <3>4, Zenon DEF CredentialInv, Rotates
  <2> QED
    BY <2>8, <2>9 DEF CredentialInv, Rotates
<1>5. CASE caller[t].refresh # server.refresh
  <2>1. caller' = [caller EXCEPT ![t].pc = "answered", ![t].answer = "refused"] /\ server' = server
    BY <1>5 DEF Exchange
  <2>2. PICK c : c = [caller[t] EXCEPT !.pc = "answered", !.answer = "refused"]
    OBVIOUS
  <2>3. /\ c \in CallerSet /\ c.pc = "answered" /\ c.answer = "refused"
        /\ c.refresh = caller[t].refresh
    BY <1>1, <2>2 DEF CallerSet
  <2>4. caller' = [caller EXCEPT ![t] = c]
    BY <1>1, <2>1, <2>2
  <2>5. \A u \in Callers : caller'[u] = IF u = t THEN c ELSE caller[u]
    BY <1>1, <2>4
  <2>6. CredentialTypes' /\ AnswersHeld' /\ OneRefresh'
    BY <1>1, <1>3, <2>1, <2>3, <2>4
  <2>7. \A u \in Callers : Rotated(u)' <=> Rotated(u)
    BY <1>1, <2>3, <2>5 DEF Rotated
  <2>8. \A u \in Callers : (caller'[u].answer = "kept" => caller[u].answer = "kept")
                            /\ (Refreshing(u)' <=> Refreshing(u))
                            /\ caller'[u].refresh = caller[u].refresh
                            /\ (caller'[u].pc = "asked" => caller[u].pc = "asked")
    BY <1>1, <2>3, <2>5 DEF Refreshing
  <2>9. \A u \in Callers : Rotated(u) => caller'[u].access = caller[u].access
    BY <1>1, <2>5 DEF Rotated
  <2>10. ASSUME TokenKept PROVE TokenKept'
    BY <1>2, <2>1, <2>7, <2>8, <2>10 DEF TokenKept
  <2>11. ASSUME TokensInOrder PROVE TokensInOrder'
    BY <1>2, <2>1, <2>7, <2>8, <2>9, <2>11 DEF TokensInOrder
  <2> QED
    BY <1>2, <2>6, <2>8, <2>10, <2>11, Zenon DEF CredentialInv, Rotates
<1> QED
  BY <1>4, <1>5

LEMMA AdoptKeeps ==
    ASSUME CredentialInv, NEW t \in Callers, Adopt(t) PROVE CredentialInv'
<1> DEFINE read == IF Rotated(t) THEN {caller[t].refresh} ELSE {}
<1>1. /\ caller \in [Callers -> CallerSet] /\ cut \in BOOLEAN /\ spent \in [Callers -> SUBSET Nat]
      /\ loginFile \in [access : Nat, refresh : Nat]
      /\ loginFile.access \in Nat /\ loginFile.refresh \in Nat /\ server.refresh \in Nat
      /\ caller[t] \in CallerSet /\ caller[t].refresh \in Nat /\ caller[t].access \in Nat
      /\ caller[t].pc = "answered" /\ caller[t].answer # "none" /\ Refreshing(t)
  BY DEF CredentialInv, CredentialTypes, CallerSet, AnswersHeld, Adopt, Refreshing
<1>2. UNCHANGED server
  BY DEF Adopt
<1>3. /\ Idle \in CallerSet /\ Idle.answer = "none" /\ Idle.pc = "idle"
      /\ \A a \in Nat : LET c == [Calls(t, a) EXCEPT !.answer = "none"]
                        IN  c \in CallerSet /\ c.answer = "none" /\ c.pc = "calling"
  BY <1>1 DEF Idle, Calls, CallerSet
<1>4. /\ spent' \in [Callers -> SUBSET Nat]
      /\ \A u \in Callers :
             /\ spent'[u] \subseteq spent[u] \cup read
             /\ ~Rotated(t) \/ Home(u) # Home(t) => spent'[u] = spent[u]
  <2>1. spent' = [u \in Callers |-> IF u \in Process(t) /\ Rotated(t)
                                   THEN spent[u] \cup {caller[t].refresh} ELSE spent[u]]
    BY DEF Adopt, Rotated
  <2> QED
    BY <1>1, <2>1 DEF Process
<1>5. ASSUME ~Rotated(t) PROVE UNCHANGED spent
  BY <1>1, <1>5 DEF Adopt, Rotated
<1> HIDE DEF read
\* What follows when the answer is dropped, whatever has been read of it.
<1>6. ASSUME NEW c \in CallerSet, caller' = [caller EXCEPT ![t] = c], c.answer = "none",
             c.pc \notin {"asked", "answered"}, cut' = (cut \/ Rotated(t)), UNCHANGED loginFile
      PROVE  CredentialInv'
  <2>1. CASE ~Rotated(t)
    BY <1>2, <1>5, <1>6, <2>1, CallerMoves
  <2>2. CASE Rotated(t)
    <3>1. \A u \in Callers : caller'[u] = IF u = t THEN c ELSE caller[u]
      BY <1>1, <1>6
    <3>2. CredentialTypes'
      BY <1>2, <1>4, <1>6 DEF CredentialInv, CredentialTypes
    <3>3. AnswersHeld' /\ OneRefresh'
      BY <1>6, <3>1 DEF CredentialInv, AnswersHeld, OneRefresh, Refreshing
    <3>4. Rotations = {TRUE} /\ \A u \in Callers : caller[u].answer # "kept"
      BY <2>2 DEF CredentialInv, Rotates, TokenKept
    <3>5. \A u \in Callers : caller'[u].answer # "kept"
      BY <1>6, <3>1, <3>4
    <3>6. cut' = TRUE
      BY <1>6, <2>2
    <3> QED
      BY <3>2, <3>3, <3>4, <3>5, <3>6 DEF CredentialInv, Rotates
  <2> QED
    BY <2>1, <2>2
<1>7. CASE caller[t].answer = "refused"
  <2>1. UNCHANGED <<loginFile, cut>> /\ ~Rotated(t)
    BY <1>7 DEF Adopt, Rotated
  <2>2. cut' = (cut \/ Rotated(t))
    BY <1>1, <2>1
  <2>3. \/ caller' = [caller EXCEPT ![t] = [Calls(t, loginFile.access) EXCEPT !.answer = "none"]]
        \/ caller' = [caller EXCEPT ![t] = Idle]
    BY <1>7 DEF Adopt
  <2> QED
    BY <1>1, <1>3, <1>6, <2>1, <2>2, <2>3
<1>8. CASE caller[t].answer # "refused" /\ caller' = [caller EXCEPT ![t] = Idle]
           /\ Abandons(t) /\ UNCHANGED loginFile
  BY <1>3, <1>6, <1>8 DEF Abandons, Rotated
<1>9. CASE /\ caller[t].answer # "refused" /\ loginFile' = Applied(t) /\ UNCHANGED cut
           /\ caller' = [caller EXCEPT ![t] = [Calls(t, caller[t].access) EXCEPT !.answer = "none"]]
  <2>1. PICK c \in CallerSet : /\ caller' = [caller EXCEPT ![t] = c]
                               /\ c.answer = "none" /\ c.pc = "calling"
    BY <1>1, <1>3, <1>9
  <2>2. \A u \in Callers : caller'[u] = IF u = t THEN c ELSE caller[u]
    BY <1>1, <2>1
  <2>3. /\ loginFile' \in [access : Nat, refresh : Nat]
        /\ loginFile'.refresh = IF Rotated(t) THEN caller[t].access ELSE caller[t].refresh
    BY <1>1, <1>9 DEF Applied, Rotated
  <2>4. CredentialTypes'
    BY <1>2, <1>4, <1>9, <2>1, <2>3 DEF CredentialInv, CredentialTypes
  <2>5. AnswersHeld' /\ OneRefresh'
    BY <2>1, <2>2 DEF CredentialInv, AnswersHeld, OneRefresh, Refreshing
  <2>6. CASE Rotations = {FALSE} /\ TokenKept
    <3>1. ~Rotated(t) /\ caller[t].refresh = 1
      BY <1>1, <2>6 DEF TokenKept
    <3>2. loginFile'.refresh = 1 /\ UNCHANGED spent
      BY <1>5, <2>3, <3>1
    <3>3. TokenKept'
      BY <1>2, <2>1, <2>2, <2>6, <3>2 DEF TokenKept, Refreshing, Rotated
    <3> QED
      BY <2>4, <2>5, <2>6, <3>3 DEF CredentialInv, Rotates
  <2>7. CASE Rotations = {TRUE} /\ \A u \in Callers : caller[u].answer # "kept"
    <3>1. Rotated(t)
      BY <1>1, <1>9, <2>7 DEF CallerSet, Rotated
    <3>2. \A u \in Callers : caller'[u].answer # "kept"
      BY <2>1, <2>2, <2>7
    <3>3. ASSUME TokensInOrder PROVE TokensInOrder'
      <4>1. /\ loginFile'.refresh = server.refresh /\ loginFile.refresh < server.refresh
            /\ caller[t].refresh < server.refresh
        BY <1>1, <2>3, <3>1, <3>3 DEF TokensInOrder
      <4>2. \A u \in Callers : ~Rotated(u)'
        BY <2>1, <2>2, <3>1, <3>3 DEF TokensInOrder, Rotated
      <4>3. \A u \in Callers : Refreshing(u)' =>
                Refreshing(u) /\ Home(u) # Home(t) /\ caller'[u] = caller[u]
        BY <1>1, <2>1, <2>2 DEF CredentialInv, OneRefresh, Refreshing
      <4>4. \A u \in Callers : Refreshing(u)' => caller'[u].refresh <= server.refresh
        <5>1. \A u \in Callers : caller[u].refresh \in Nat
          BY <1>1 DEF CallerSet
        <5> QED
          BY <1>1, <3>3, <4>1, <4>3, <5>1 DEF TokensInOrder
      <4>5. \A u \in Callers : \A x \in spent'[u] : x < server.refresh
        <5>1. SUFFICES ASSUME NEW u \in Callers, NEW x \in spent'[u] PROVE x < server.refresh
          OBVIOUS
        <5>2. x \in Nat
          BY <1>4
        <5>3. x \in spent[u] \/ x = caller[t].refresh
          BY <1>4 DEF read
        <5> QED
          BY <1>1, <3>3, <4>1, <5>2, <5>3 DEF TokensInOrder
      <4>6. \A u \in Callers : caller'[u].pc = "asked" => caller'[u].refresh \notin spent'[u]
        <5>1. SUFFICES ASSUME NEW u \in Callers, caller'[u].pc = "asked"
                       PROVE  caller'[u].refresh \notin spent'[u]
          OBVIOUS
        <5>2. Home(u) # Home(t) /\ caller'[u] = caller[u]
          BY <4>3, <5>1 DEF Refreshing
        <5>3. spent'[u] = spent[u]
          BY <1>4, <5>2
        <5> QED
          BY <3>3, <5>1, <5>2, <5>3 DEF TokensInOrder
      <4>7. server.refresh <= server.issued
        BY <3>3 DEF TokensInOrder
      <4>8. server.refresh <= server.refresh
        BY <1>1
      <4> QED
        BY <1>2, <4>1, <4>2, <4>4, <4>5, <4>6, <4>7, <4>8 DEF TokensInOrder
    <3> QED
      BY <1>9, <2>4, <2>5, <2>7, <3>2, <3>3, Zenon DEF CredentialInv, Rotates
  <2> QED
    BY <2>6, <2>7 DEF CredentialInv, Rotates
<1> QED
  BY <1>7, <1>8, <1>9 DEF Adopt

LEMMA LoginStep == ASSUME CredentialInv, [CredentialNext]_credentialVars PROVE CredentialInv'
<1>1. /\ caller \in [Callers -> CallerSet] /\ cut \in BOOLEAN
      /\ loginFile.access \in Nat
  BY DEF CredentialInv, CredentialTypes
<1>2. CASE UNCHANGED credentialVars
  BY <1>2 DEF credentialVars, CredentialInv, CredentialTypes, AnswersHeld, OneRefresh, Refreshing,
              Rotates, TokenKept, TokensInOrder, Rotated
<1>3. CASE Outwears
  BY <1>3 DEF Outwears, CredentialInv, CredentialTypes, AnswersHeld, OneRefresh, Refreshing,
              Rotates, TokenKept, TokensInOrder, Rotated
<1>4. ASSUME NEW t \in Callers, Load(t) PROVE CredentialInv'
  <2>1. PICK c : c = IF loginFile.access \in outworn.expiring THEN [Idle EXCEPT !.pc = "queued"]
                     ELSE Calls(t, loginFile.access)
    OBVIOUS
  <2>2. caller[t] \in CallerSet /\ caller[t].answer = "none"
    BY <1>1, <1>4 DEF Load, CredentialInv, AnswersHeld
  <2>3. c \in CallerSet /\ c.answer = "none" /\ c.pc \in {"queued", "calling"}
    BY <1>1, <2>1, <2>2 DEF CallerSet, Idle, Calls
  <2>4. caller' = [caller EXCEPT ![t] = c] /\ UNCHANGED <<loginFile, server, spent, cut>>
    BY <1>4, <2>1 DEF Load
  <2>5. cut' = (cut \/ Rotated(t))
    BY <1>1, <2>2, <2>4 DEF Rotated
  <2> QED
    BY <2>3, <2>4, <2>5, CallerMoves
<1>5. ASSUME NEW t \in Callers, CallAnswered(t) PROVE CredentialInv'
  <2>1. PICK c : c = IF caller[t].access \notin outworn.revoked \/ caller[t].again THEN Idle
                     ELSE [caller[t] EXCEPT !.pc = "queued", !.rejected = caller[t].access, !.again = TRUE]
    OBVIOUS
  <2>2. caller[t] \in CallerSet /\ caller[t].answer = "none"
    BY <1>1, <1>5 DEF CallAnswered, CredentialInv, AnswersHeld
  <2>3. c \in CallerSet /\ c.answer = "none" /\ c.pc \in {"queued", "idle"}
    BY <2>1, <2>2 DEF CallerSet, Idle
  <2>4. caller' = [caller EXCEPT ![t] = c] /\ UNCHANGED <<loginFile, server, spent, cut>>
    BY <1>5, <2>1 DEF CallAnswered
  <2>5. cut' = (cut \/ Rotated(t))
    BY <1>1, <2>2, <2>4 DEF Rotated
  <2> QED
    BY <2>3, <2>4, <2>5, CallerMoves
<1>6. ASSUME NEW t \in Callers, GivesUp(t) PROVE CredentialInv'
  <2>1. Idle \in CallerSet /\ Idle.answer = "none" /\ Idle.pc = "idle"
    BY DEF Idle, CallerSet
  <2> QED
    BY <1>6, <2>1, CallerMoves DEF GivesUp, Abandons, Rotated
<1> QED
  BY <1>2, <1>3, <1>4, <1>5, <1>6, RefreshKeeps, ExchangeKeeps, AdoptKeeps DEF CredentialNext

\* Of a server that rotates its refresh tokens, and of one that does not, a login is lost
\* only with an answer that no process read or wrote, and no process spends a token twice
\* (auth.rs refresh_with): for any number of processes, tasks and refreshes.
THEOREM LoginIsKept ==
    ASSUME Rotations \in {{TRUE}, {FALSE}}
    PROVE  CredentialSpec => []LoginStays
<1>1. CredentialInit => CredentialInv
  BY LoginStarts
<1>2. CredentialInv /\ [CredentialNext]_credentialVars => CredentialInv'
  BY LoginStep
<1>3. CredentialInv => LoginStays
  BY LoginFollows
<1> QED
  BY <1>1, <1>2, <1>3, PTL DEF CredentialSpec

-----------------------------------------------------------------------------
(* The egress proxy. *)

\* A request in hand passed the checks, and what was put into it so far is what it asked
\* for, of the secrets looked at, each at home where it goes.
AskRight(d) ==
    d.at # "none" =>
        /\ d.ask \in EgressAsks /\ Passes(d.ask, d.to)
        /\ d.next \in 1 .. Len(Secrets) + 1 /\ d.put \subseteq d.ask.carries
        /\ \A i \in 1 .. Len(Secrets) : i < d.next /\ Secrets[i].name \in d.ask.carries =>
              Secrets[i].name \in d.put /\ Secrets[i].origin = d.to
\* A request that reads a secret has its cell, and no other request reads the same.
HoldsCell(c) ==
    doing[c].at = "reading" =>
        doing[c].next \in DOMAIN Secrets /\ cells[Next1(c).name] = c
Failures == {"failed", "dropped"}
Readings == {"runs", "answered"} \cup Failures
\* The cell of a secret says how the last reading of it went; those before failed.
ReadEnds(value, how) == IF value = "read" THEN how = "answered" ELSE value = "unread" /\ how \in Failures
ReadRight(n) ==
    /\ reads[n] \in Seq(Readings)
    /\ \A i \in 1 .. Len(reads[n]) : i < Len(reads[n]) => reads[n][i] \in Failures
    /\ CASE cells[n] = "unread" -> reads[n] = <<>> \/ reads[n][Len(reads[n])] \in Failures
         [] cells[n] = "read" -> reads[n] # <<>> /\ reads[n][Len(reads[n])] = "answered"
         [] OTHER -> reads[n] # <<>> /\ reads[n][Len(reads[n])] = "runs"
Places == {"none", "outer", "closed"} \cup {q.origin : q \in EgressAsks}
DoingSet ==
    [at : {"none", "inserting", "reading"}, to : Places, next : Nat,
     put : SUBSET EgressNames, ask : EgressAsks \cup {"none"}]
SentRight(q) ==
    /\ q.bare = {}
    /\ \A i \in 1 .. Len(Secrets) : Secrets[i].name \in q.put => Secrets[i].origin = q.to
    /\ q.path \in Seq(STRING) /\ "\\" \notin ToSet(q.path) /\ ".." \notin ToSet(q.path)
    /\ \E r \in Rules : Allows(r, q.method, q.to, q.path)
EgressInv ==
    /\ doing \in [Clients -> DoingSet] /\ links \in [Clients -> Places]
    /\ cells \in [EgressNames -> {"unread", "read"} \cup Clients]
    /\ reads \in [EgressNames -> Seq(Readings)]
    /\ \A c \in Clients : AskRight(doing[c]) /\ HoldsCell(c)
    /\ \A n \in EgressNames : ReadRight(n)
    /\ \A q \in sent : SentRight(q)

LEMMA EgressStarts == ASSUME EgressInit PROVE EgressInv
<1>1. doing \in [Clients -> DoingSet] /\ links \in [Clients -> Places]
  BY DEF EgressInit, NoAsk, DoingSet, Places
<1>2. /\ cells \in [EgressNames -> {"unread", "read"} \cup Clients]
      /\ reads \in [EgressNames -> Seq(Readings)]
  BY DEF EgressInit
<1>3. \A c \in Clients : AskRight(doing[c]) /\ HoldsCell(c)
  BY DEF EgressInit, NoAsk, AskRight, HoldsCell
<1>4. ASSUME NEW n \in EgressNames PROVE ReadRight(n)
  <2>1. cells[n] = "unread" /\ reads[n] = <<>>
    BY <1>4 DEF EgressInit
  <2> QED
    BY <2>1 DEF ReadRight
<1> QED
  BY <1>1, <1>2, <1>3, <1>4 DEF EgressInv, EgressInit

LEMMA SecretsTyped ==
    /\ Len(Secrets) \in Nat /\ DOMAIN Secrets = 1 .. Len(Secrets)
    /\ \A i \in 1 .. Len(Secrets) : Secrets[i].name \in EgressNames
<1>1. Secrets \in Seq([name : STRING, origin : STRING])
  BY EgressAssumption
<1> QED
  BY <1>1 DEF EgressNames

LEMMA ReplacedLast ==
    ASSUME NEW S, NEW s \in Seq(S), s # <<>>, NEW h \in S, NEW t, t = SubSeq(s, 1, Len(s) - 1) \o <<h>>
    PROVE  /\ t \in Seq(S) /\ Len(t) = Len(s) /\ t # <<>> /\ t[Len(t)] = h
           /\ \A i \in 1 .. Len(s) : i < Len(s) => t[i] = s[i]
<1>1. PICK n \in Nat : Len(s) = n + 1
  <2>1. Len(s) \in Nat /\ Len(s) # 0
    BY EmptySeq
  <2>2. Len(s) - 1 \in Nat /\ Len(s) = (Len(s) - 1) + 1
    BY <2>1
  <2> QED
    BY <2>2
<1>2. PICK head : head = SubSeq(s, 1, n)
  OBVIOUS
<1>3. head \in Seq(S) /\ Len(head) = n /\ \A i \in 1 .. n : head[i] = s[i]
  BY <1>1, <1>2
<1>4. t = head \o <<h>> /\ <<h>> \in Seq(S) /\ Len(<<h>>) = 1
  BY <1>1, <1>2
<1>5. t \in Seq(S) /\ Len(t) = n + 1
  BY <1>3, <1>4
<1>6. t[n + 1] = h /\ \A i \in 1 .. n : t[i] = s[i]
  <2>1. \A i \in 1 .. n + 1 : t[i] = IF i <= n THEN head[i] ELSE <<h>>[i - n]
    <3>1. PICK one \in Seq(S) : one = <<h>>
      BY <1>4
    <3>2. t = head \o one /\ Len(one) = 1
      BY <1>4, <3>1
    <3>3. \A i \in 1 .. n + 1 : (head \o one)[i] = IF i <= n THEN head[i] ELSE one[i - n]
      BY <1>3, <3>1, <3>2, ConcatProperties
    <3> QED
      BY <3>1, <3>2, <3>3
  <2>2. <<h>>[(n + 1) - n] = h
    OBVIOUS
  <2>3. t[n + 1] = h
    <3>1. n + 1 \in 1 .. n + 1 /\ ~(n + 1 <= n)
      OBVIOUS
    <3> QED
      BY <2>1, <2>2, <3>1
  <2>4. \A i \in 1 .. n : i \in 1 .. n + 1 /\ i <= n
    OBVIOUS
  <2> QED
    BY <1>3, <2>1, <2>3, <2>4
<1> QED
  BY <1>1, <1>5, <1>6

LEMMA AddedLast ==
    ASSUME NEW S, NEW s \in Seq(S), NEW h \in S, NEW t, t = Append(s, h)
    PROVE  /\ t \in Seq(S) /\ Len(t) = Len(s) + 1 /\ Len(s) \in Nat
           /\ t # <<>> /\ t[Len(t)] = h
           /\ \A i \in 1 .. Len(s) : t[i] = s[i]
<1>1. t \in Seq(S) /\ Len(t) = Len(s) + 1 /\ Len(s) \in Nat
  OBVIOUS
<1>2. t[Len(s) + 1] = h /\ \A i \in 1 .. Len(s) : t[i] = s[i]
  OBVIOUS
<1> QED
  BY <1>1, <1>2, EmptySeq

\* A request moves on, or ends, without a secret being read.
LEMMA DoingMoves ==
    ASSUME EgressInv, NEW c \in Clients, NEW d \in DoingSet, AskRight(d), d.at # "reading",
           doing' = [doing EXCEPT ![c] = d], links' \in [Clients -> Places],
           UNCHANGED <<cells, reads>>, \A q \in sent' : SentRight(q)
    PROVE  EgressInv'
<1>1. doing \in [Clients -> DoingSet] /\ \A u \in Clients : AskRight(doing[u]) /\ HoldsCell(u)
  BY DEF EgressInv
<1>2. \A u \in Clients : doing'[u] = IF u = c THEN d ELSE doing[u]
  BY <1>1
<1>3. ASSUME NEW u \in Clients PROVE AskRight(doing'[u]) /\ HoldsCell(u)'
  BY <1>1, <1>2 DEF HoldsCell, Next1
<1>4. doing' \in [Clients -> DoingSet]
  BY <1>1
<1> QED
  BY <1>3, <1>4 DEF EgressInv, ReadRight

\* A reading ends: its cell is read, or open to the next request.
LEMMA ReadingEnds ==
    ASSUME EgressInv, NEW c \in Clients, NEW d \in DoingSet, AskRight(d), d.at # "reading",
           doing[c].at = "reading", doing' = [doing EXCEPT ![c] = d], links' \in [Clients -> Places],
           NEW value, NEW how, ReadEnds(value, how),
           cells' = [cells EXCEPT ![Next1(c).name] = value], reads' = Ended(Next1(c).name, how),
           UNCHANGED sent
    PROVE  EgressInv'
<1>1. /\ doing \in [Clients -> DoingSet] /\ \A u \in Clients : AskRight(doing[u]) /\ HoldsCell(u)
      /\ cells \in [EgressNames -> {"unread", "read"} \cup Clients]
      /\ reads \in [EgressNames -> Seq(Readings)]
      /\ \A m \in EgressNames : ReadRight(m)
  BY DEF EgressInv
<1>2. \A u \in Clients : doing'[u] = IF u = c THEN d ELSE doing[u]
  BY <1>1
<1>3. doing' \in [Clients -> DoingSet]
  BY <1>1
<1>4. PICK n \in EgressNames : n = Next1(c).name /\ cells[n] = c
  BY <1>1, SecretsTyped DEF HoldsCell, Next1
<1>5. value \in {"unread", "read"} /\ how \in Readings
  BY DEF ReadEnds, Readings
<1>6. \A m \in EgressNames : cells'[m] = IF m = n THEN value ELSE cells[m]
  BY <1>1, <1>4
<1>7. cells' \in [EgressNames -> {"unread", "read"} \cup Clients]
  BY <1>1, <1>5
<1>8. c \notin {"unread", "read"}
  BY EgressAssumption
<1>9. ASSUME NEW u \in Clients PROVE AskRight(doing'[u]) /\ HoldsCell(u)'
  <2>1. CASE u = c
    BY <1>2, <2>1 DEF HoldsCell
  <2>2. CASE u # c /\ doing[u].at = "reading"
    <3>1. doing[u].next \in DOMAIN Secrets /\ cells[Next1(u).name] = u /\ doing'[u] = doing[u]
      BY <1>1, <1>2, <2>2 DEF HoldsCell
    <3>2. Next1(u).name \in EgressNames /\ Next1(u).name # n
      BY <1>4, <2>2, <3>1, SecretsTyped DEF Next1
    <3> QED
      BY <1>1, <1>6, <3>1, <3>2 DEF HoldsCell, Next1
  <2>3. CASE u # c /\ doing[u].at # "reading"
    BY <1>1, <1>2, <2>3 DEF HoldsCell
  <2> QED
    BY <2>1, <2>2, <2>3
<1>10. reads[n] # <<>> /\ \A i \in 1 .. Len(reads[n]) : i < Len(reads[n]) => reads[n][i] \in Failures
  BY <1>1, <1>4, <1>8 DEF ReadRight
<1>11. PICK t : t = SubSeq(reads[n], 1, Len(reads[n]) - 1) \o <<how>>
  OBVIOUS
<1>12. /\ t \in Seq(Readings) /\ Len(t) = Len(reads[n])
       /\ t # <<>> /\ t[Len(t)] = how
       /\ \A i \in 1 .. Len(reads[n]) : i < Len(reads[n]) => t[i] = reads[n][i]
  BY <1>1, <1>5, <1>10, <1>11, ReplacedLast
<1>13. reads' = [reads EXCEPT ![n] = t]
  BY <1>1, <1>4, <1>11 DEF Ended
<1>14. /\ \A m \in EgressNames : reads'[m] = IF m = n THEN t ELSE reads[m]
       /\ reads' \in [EgressNames -> Seq(Readings)]
  BY <1>1, <1>12, <1>13
<1>15. ASSUME NEW m \in EgressNames PROVE ReadRight(m)'
  <2>1. CASE m # n
    BY <1>1, <1>6, <1>14, <2>1 DEF ReadRight
  <2>2. CASE m = n
    BY <1>6, <1>10, <1>12, <1>14, <2>2 DEF ReadRight, ReadEnds
  <2> QED
    BY <2>1, <2>2
<1>16. \A q \in sent' : SentRight(q)
  BY DEF EgressInv
<1> QED
  BY <1>3, <1>7, <1>9, <1>14, <1>15, <1>16 DEF EgressInv

LEMMA PassesClean ==
    ASSUME NEW q \in EgressAsks, NEW origin, Passes(q, origin)
    PROVE  /\ q.path \in Seq(STRING) /\ "\\" \notin ToSet(q.path) /\ ".." \notin ToSet(q.path)
           /\ \E r \in Rules : Allows(r, q.method, origin, q.path)
  BY EgressAssumption DEF Passes, Dotted

LEMMA EgressStep == ASSUME EgressInv, [EgressNext]_egressVars PROVE EgressInv'
<1>1. /\ doing \in [Clients -> DoingSet] /\ links \in [Clients -> Places]
      /\ cells \in [EgressNames -> {"unread", "read"} \cup Clients]
      /\ reads \in [EgressNames -> Seq(Readings)]
      /\ \A c \in Clients : AskRight(doing[c]) /\ HoldsCell(c) /\ doing[c] \in DoingSet
      /\ \A q \in sent : SentRight(q)
  BY DEF EgressInv
<1>2. NoAsk \in DoingSet /\ AskRight(NoAsk) /\ NoAsk.at # "reading"
  BY DEF NoAsk, DoingSet, AskRight, Places
<1>3. CASE UNCHANGED egressVars
  BY <1>3 DEF egressVars, EgressInv, HoldsCell, Next1, ReadRight
<1>4. ASSUME NEW c \in Clients, Connects(c) PROVE EgressInv'
  <2>1. links' \in [Clients -> Places]
    BY <1>1, <1>4 DEF Connects, Places
  <2>2. UNCHANGED <<doing, cells, reads, sent>>
    BY <1>4 DEF Connects
  <2> QED
    BY <2>1, <2>2 DEF EgressInv, HoldsCell, Next1, ReadRight
<1>5. ASSUME NEW c \in Clients, Forward(c) PROVE EgressInv'
  <2>1. PICK q \in EgressAsks : doing' = [doing EXCEPT ![c] =
              IF Passes(q, Target(c, q))
              THEN [NoAsk EXCEPT !.at = "inserting", !.to = Target(c, q), !.next = 1, !.ask = q]
              ELSE NoAsk]
    BY <1>5, Zenon DEF Forward
  <2>2. UNCHANGED <<links, cells, reads, sent>>
    BY <1>5 DEF Forward
  <2>3. PICK d : d = [NoAsk EXCEPT !.at = "inserting", !.to = Target(c, q), !.next = 1, !.ask = q]
    OBVIOUS
  <2>4. Target(c, q) \in Places
    BY <1>1 DEF Target, Places
  <2>5. /\ d \in DoingSet /\ d.at = "inserting" /\ d.next = 1 /\ d.put = {} /\ d.ask = q
        /\ d.to = Target(c, q)
    BY <2>3, <2>4 DEF NoAsk, DoingSet
  <2>6. CASE Passes(q, Target(c, q))
    <3>1. AskRight(d)
      BY <2>5, <2>6, SecretsTyped DEF AskRight
    <3> QED
      BY <1>1, <2>1, <2>2, <2>3, <2>5, <2>6, <3>1, DoingMoves
  <2>7. CASE ~Passes(q, Target(c, q))
    BY <1>1, <1>2, <2>1, <2>2, <2>7, DoingMoves
  <2> QED
    BY <2>6, <2>7
<1>6. ASSUME NEW c \in Clients, Insert(c) PROVE EgressInv'
  <2>1. /\ doing[c].at = "inserting" /\ doing[c].next \in 1 .. Len(Secrets)
        /\ UNCHANGED <<links, cells, reads, sent>>
    BY <1>6, SecretsTyped DEF Insert
  <2>2. PICK n \in EgressNames : n = Next1(c).name
    BY <2>1, SecretsTyped DEF Next1
  <2>3. CASE doing' = [doing EXCEPT ![c] = NoAsk]
    BY <1>1, <1>2, <2>1, <2>3, DoingMoves
  <2>4. CASE n \notin doing[c].ask.carries /\ doing' = [doing EXCEPT ![c].next = @ + 1]
    <3>1. PICK next \in Nat : next = doing[c].next + 1
      BY <2>1
    <3>2. PICK d : d = [doing[c] EXCEPT !.next = next]
      OBVIOUS
    <3>3. /\ d \in DoingSet /\ d.at = "inserting" /\ d.next = next /\ d.put = doing[c].put
          /\ d.ask = doing[c].ask /\ d.to = doing[c].to
      BY <1>1, <2>1, <3>2 DEF DoingSet
    <3>4. AskRight(d)
      <4>1. AskRight(doing[c])
        BY <1>1
      <4> QED
        BY <2>1, <2>2, <2>4, <3>1, <3>3, <4>1, SecretsTyped DEF AskRight, Next1
    <3>5. doing' = [doing EXCEPT ![c] = d]
      BY <1>1, <2>4, <3>1, <3>2
    <3> QED
      BY <1>1, <2>1, <3>3, <3>4, <3>5, DoingMoves
  <2>5. CASE /\ n \in doing[c].ask.carries /\ Next1(c).origin = doing[c].to
             /\ doing' = [doing EXCEPT ![c].next = @ + 1, ![c].put = @ \cup {n}]
    <3>1. PICK next \in Nat : next = doing[c].next + 1
      BY <2>1
    <3>2. PICK put : put = doing[c].put \cup {n}
      OBVIOUS
    <3>3. PICK d : d = [doing[c] EXCEPT !.next = next, !.put = put]
      OBVIOUS
    <3>4. put \in SUBSET EgressNames
      BY <1>1, <3>2 DEF DoingSet
    <3>5. /\ d \in DoingSet /\ d.at = "inserting" /\ d.next = next /\ d.put = put
          /\ d.ask = doing[c].ask /\ d.to = doing[c].to
      BY <1>1, <2>1, <3>3, <3>4 DEF DoingSet
    <3>6. AskRight(d)
      <4>1. AskRight(doing[c])
        BY <1>1
      <4> QED
        BY <2>1, <2>2, <2>5, <3>1, <3>2, <3>5, <4>1, SecretsTyped DEF AskRight, Next1
    <3>7. doing' = [doing EXCEPT ![c] = d]
      BY <1>1, <2>5, <3>1, <3>2, <3>3
    <3> QED
      BY <1>1, <2>1, <3>5, <3>6, <3>7, DoingMoves
  <2> QED
    BY <1>6, <2>2, <2>3, <2>4, <2>5 DEF Insert
<1>7. ASSUME NEW c \in Clients, StartsReading(c) PROVE EgressInv'
  <2>1. /\ doing[c].at = "inserting" /\ doing[c].next \in 1 .. Len(Secrets)
        /\ UNCHANGED <<links, sent>>
    BY <1>7, SecretsTyped DEF StartsReading
  <2>2. PICK n \in EgressNames : n = Next1(c).name
    BY <2>1, SecretsTyped DEF Next1
  <2>3. /\ cells[n] = "unread" /\ cells' = [cells EXCEPT ![n] = c]
        /\ reads' = [reads EXCEPT ![n] = Append(@, "runs")]
        /\ doing' = [doing EXCEPT ![c].at = "reading"]
    BY <1>7, <2>2 DEF StartsReading
  <2>4. PICK d : d = [doing[c] EXCEPT !.at = "reading"]
    OBVIOUS
  <2>5. /\ d \in DoingSet /\ d.at = "reading" /\ d.next = doing[c].next /\ d.put = doing[c].put
        /\ d.ask = doing[c].ask /\ d.to = doing[c].to
    BY <1>1, <2>1, <2>4 DEF DoingSet
  <2>6. AskRight(d)
    BY <1>1, <2>1, <2>5 DEF AskRight
  <2>7. doing' = [doing EXCEPT ![c] = d]
    BY <1>1, <2>3, <2>4
  <2>8. \A u \in Clients : doing'[u] = IF u = c THEN d ELSE doing[u]
    BY <1>1, <2>7
  <2>9. doing' \in [Clients -> DoingSet] /\ cells' \in [EgressNames -> {"unread", "read"} \cup Clients]
    BY <1>1, <2>3, <2>5, <2>7
  <2>10. \A m \in EgressNames : cells'[m] = IF m = n THEN c ELSE cells[m]
    BY <1>1, <2>3
  <2>11. ASSUME NEW u \in Clients PROVE AskRight(doing'[u]) /\ HoldsCell(u)'
    <3>1. CASE u = c
      BY <2>1, <2>2, <2>5, <2>6, <2>8, <2>10, <3>1, SecretsTyped DEF HoldsCell, Next1
    <3>2. CASE u # c /\ doing[u].at = "reading"
      <4>1. doing[u].next \in DOMAIN Secrets /\ cells[Next1(u).name] = u /\ doing'[u] = doing[u]
        BY <1>1, <2>8, <3>2 DEF HoldsCell
      <4>2. Next1(u).name \in EgressNames /\ Next1(u).name # n
        <5>1. u # "unread"
          BY EgressAssumption
        <5> QED
          BY <2>3, <4>1, <5>1, SecretsTyped DEF Next1
      <4> QED
        BY <1>1, <2>10, <4>1, <4>2 DEF HoldsCell, Next1
    <3>3. CASE u # c /\ doing[u].at # "reading"
      BY <1>1, <2>8, <3>3 DEF HoldsCell
    <3> QED
      BY <3>1, <3>2, <3>3
  <2>12. PICK t : t = Append(reads[n], "runs")
    OBVIOUS
  <2>13. /\ t \in Seq(Readings) /\ Len(t) = Len(reads[n]) + 1
         /\ t # <<>> /\ t[Len(t)] = "runs" /\ Len(reads[n]) \in Nat
         /\ \A i \in 1 .. Len(reads[n]) : t[i] = reads[n][i]
    <3>1. "runs" \in Readings
      BY DEF Readings
    <3>2. reads[n] \in Seq(Readings)
      BY <1>1
    <3> QED
      BY <2>12, <3>1, <3>2, AddedLast
  <2>14. reads' = [reads EXCEPT ![n] = t]
    BY <1>1, <2>3, <2>12
  <2>15. /\ \A m \in EgressNames : reads'[m] = IF m = n THEN t ELSE reads[m]
         /\ reads' \in [EgressNames -> Seq(Readings)]
    BY <1>1, <2>13, <2>14
  <2>16. ASSUME NEW m \in EgressNames PROVE ReadRight(m)'
    <3>1. ReadRight(m)
      BY DEF EgressInv
    <3>2. CASE m # n
      BY <2>10, <2>15, <3>1, <3>2 DEF ReadRight
    <3>3. CASE m = n
      <4>1. \A i \in 1 .. Len(reads[n]) : reads[n][i] \in Failures
        BY <2>3, <2>13, <3>1, <3>3 DEF ReadRight
      <4>2. \A i \in 1 .. Len(t) : i < Len(t) => t[i] \in Failures
        BY <2>13, <4>1
      <4>3. c # "unread" /\ c # "read"
        BY EgressAssumption
      <4>4. cells'[m] = c /\ reads'[m] = t
        BY <2>10, <2>15, <3>3
      <4> QED
        BY <2>13, <4>2, <4>3, <4>4 DEF ReadRight
    <3> QED
      BY <3>2, <3>3
  <2> QED
    BY <1>1, <2>1, <2>9, <2>11, <2>15, <2>16 DEF EgressInv
<1>8. ASSUME NEW c \in Clients, Reading(c) PROVE EgressInv'
  <2>1. doing[c].at = "reading" /\ UNCHANGED <<links, sent>>
    BY <1>8 DEF Reading
  <2>2. CASE /\ cells' = [cells EXCEPT ![Next1(c).name] = "read"]
             /\ reads' = Ended(Next1(c).name, "answered")
             /\ doing' = [doing EXCEPT ![c].at = "inserting"]
    <3>1. PICK d : d = [doing[c] EXCEPT !.at = "inserting"]
      OBVIOUS
    <3>2. /\ d \in DoingSet /\ d.at = "inserting" /\ d.next = doing[c].next /\ d.put = doing[c].put
          /\ d.ask = doing[c].ask /\ d.to = doing[c].to
      BY <1>1, <2>1, <3>1 DEF DoingSet
    <3>3. AskRight(d)
      BY <1>1, <2>1, <3>2 DEF AskRight
    <3>4. doing' = [doing EXCEPT ![c] = d]
      BY <1>1, <2>2, <3>1
    <3>5. ReadEnds("read", "answered")
      BY DEF ReadEnds
    <3> QED
      BY <1>1, <2>1, <2>2, <3>2, <3>3, <3>4, <3>5, ReadingEnds
  <2>3. CASE /\ cells' = [cells EXCEPT ![Next1(c).name] = "unread"]
             /\ reads' = Ended(Next1(c).name, "failed")
             /\ doing' = [doing EXCEPT ![c] = NoAsk]
    <3>1. ReadEnds("unread", "failed")
      BY DEF ReadEnds, Failures
    <3> QED
      BY <1>1, <1>2, <2>1, <2>3, <3>1, ReadingEnds
  <2> QED
    BY <1>8, <2>2, <2>3 DEF Reading
<1>9. ASSUME NEW c \in Clients, Send(c) PROVE EgressInv'
  <2>1. /\ doing[c].at = "inserting" /\ doing[c].next \notin 1 .. Len(Secrets)
        /\ doing' = [doing EXCEPT ![c] = NoAsk] /\ UNCHANGED <<links, cells, reads>>
    BY <1>9, SecretsTyped DEF Send
  <2>2. PICK q : /\ q = [to |-> doing[c].to, method |-> doing[c].ask.method,
                        path |-> doing[c].ask.path, put |-> doing[c].put,
                        bare |-> doing[c].ask.carries \ doing[c].put]
                 /\ sent' = sent \cup {q}
    BY <1>9 DEF Send
  <2>3. SentRight(q)
    <3>1. /\ doing[c].ask \in EgressAsks /\ Passes(doing[c].ask, doing[c].to)
          /\ doing[c].next = Len(Secrets) + 1 /\ doing[c].put \subseteq doing[c].ask.carries
          /\ \A i \in 1 .. Len(Secrets) : Secrets[i].name \in doing[c].ask.carries =>
                Secrets[i].name \in doing[c].put /\ Secrets[i].origin = doing[c].to
      <4>1. AskRight(doing[c]) /\ doing[c].at # "none"
        BY <1>1, <2>1
      <4>2. doing[c].next \in 1 .. Len(Secrets) + 1
        BY <4>1 DEF AskRight
      <4>3. doing[c].next = Len(Secrets) + 1 /\ \A i \in 1 .. Len(Secrets) : i < doing[c].next
        BY <2>1, <4>2, SecretsTyped
      <4> QED
        BY <4>1, <4>3 DEF AskRight
    <3>2. \A n \in doing[c].ask.carries : \E i \in 1 .. Len(Secrets) : Secrets[i].name = n
      BY <3>1, EgressAssumption, SecretsTyped DEF EgressNames
    <3>3. q.bare = {} /\ q.put = doing[c].put /\ q.to = doing[c].to
      BY <2>2, <3>1, <3>2
    <3>4. q.method = doing[c].ask.method /\ q.path = doing[c].ask.path
      BY <2>2
    <3>5. /\ q.path \in Seq(STRING) /\ "\\" \notin ToSet(q.path) /\ ".." \notin ToSet(q.path)
          /\ \E r \in Rules : Allows(r, q.method, q.to, q.path)
      BY <3>1, <3>3, <3>4, PassesClean
    <3> QED
      BY <3>1, <3>3, <3>5 DEF SentRight
  <2> QED
    BY <1>1, <1>2, <2>1, <2>2, <2>3, DoingMoves
<1>10. ASSUME NEW c \in Clients, HangsUp(c) PROVE EgressInv'
  <2>1. /\ links' = [links EXCEPT ![c] = "closed"] /\ doing' = [doing EXCEPT ![c] = NoAsk]
        /\ UNCHANGED sent
    BY <1>10 DEF HangsUp
  <2>2. links' \in [Clients -> Places]
    BY <1>1, <2>1 DEF Places
  <2>3. CASE doing[c].at = "reading"
    <3>1. ReadEnds("unread", "dropped")
      BY DEF ReadEnds, Failures
    <3> QED
      BY <1>2, <1>10, <2>1, <2>2, <2>3, <3>1, ReadingEnds DEF HangsUp
  <2>4. CASE doing[c].at # "reading"
    BY <1>1, <1>2, <1>10, <2>1, <2>2, <2>4, DoingMoves DEF HangsUp
  <2> QED
    BY <2>3, <2>4
<1> QED
  BY <1>3, <1>4, <1>5, <1>6, <1>7, <1>8, <1>9, <1>10 DEF EgressNext

\* A path without dot segments is what its server resolves it to.
LEMMA ResolvesToItself ==
    ASSUME NEW path \in Seq(STRING), "\\" \notin ToSet(path), ".." \notin ToSet(path)
    PROVE  Resolved(path) = path
<1> DEFINE Next(out, seg) ==
             IF seg = ".." \/ seg = "\\"
             THEN SubSeq(out, 1, IF out = <<>> THEN 0 ELSE Len(out) - 1) ELSE Append(out, seg)
           Fold(iter) ==
             [s \in SUBSET (DOMAIN path) |-> IF s = {} THEN <<>>
                ELSE LET x == Max(s) IN Next(iter[s \ {x}], path[x])]
<1>1. DOMAIN path = 1 .. Len(path) /\ Len(path) \in Nat /\ IsFiniteSet(1 .. Len(path))
  BY FS_Interval
<1>2. \A i \in 1 .. Len(path) : path[i] \in STRING /\ path[i] # ".." /\ path[i] # "\\"
  BY <1>1 DEF ToSet
<1>3. PICK pick : pick = [s \in SUBSET (1 .. Len(path)) |-> Max(s)]
  OBVIOUS
<1>4. \A s \in SUBSET (1 .. Len(path)) : s # {} => pick[s] \in s /\ \A y \in s : y <= pick[s]
  <2>1. SUFFICES ASSUME NEW s \in SUBSET (1 .. Len(path)), s # {}
                 PROVE  Max(s) \in s /\ \A y \in s : y <= Max(s)
    BY <1>3
  <2>2. s \in SUBSET (0 .. Len(path))
    BY <1>1
  <2>3. PICK x \in s : \A y \in s : y <= x
    BY <1>1, <2>1, <2>2, GreatestOf
  <2>4. \E x1 \in s : \A y \in s : x1 >= y
    BY <1>1, <2>3
  <2>5. Max(s) \in s /\ \A y \in s : Max(s) >= y
    BY <2>4 DEF Max
  <2> QED
    BY <1>1, <2>5
<1>5. PICK step : step = [i \in 1 .. Len(path) |-> [out \in Seq(STRING) |-> Append(out, path[i])]]
  OBVIOUS
<1>6. step \in [1 .. Len(path) -> [Seq(STRING) -> Seq(STRING)]]
  BY <1>2, <1>5
<1>7. PICK g : FoldsTo(1 .. Len(path), pick, Seq(STRING), <<>>, step, g)
  <2>1. <<>> \in Seq(STRING)
    OBVIOUS
  <2>2. Foldable(1 .. Len(path), pick, Seq(STRING), <<>>, step)
    BY <1>1, <1>4, <1>6, <2>1 DEF Foldable
  <2> QED
    BY <2>2, RecursionOnSets
<1>8. g = Fold(g)
  <2>1. ASSUME NEW s \in SUBSET (1 .. Len(path)), s # {}
        PROVE  step[pick[s]][g[s \ {pick[s]}]] = Next(g[s \ {Max(s)}], path[Max(s)])
    <3>1. pick[s] = Max(s) /\ Max(s) \in 1 .. Len(path) /\ s \ {Max(s)} \in SUBSET (1 .. Len(path))
      BY <1>3, <1>4, <2>1
    <3>2. g[s \ {Max(s)}] \in Seq(STRING)
      BY <1>7, <3>1 DEF FoldsTo
    <3> QED
      BY <1>2, <1>5, <3>1, <3>2
  <2>2. \A s \in SUBSET (1 .. Len(path)) :
          g[s] = IF s = {} THEN <<>> ELSE Next(g[s \ {Max(s)}], path[Max(s)])
    BY <1>7, <2>1 DEF FoldsTo
  <2>3. g \in [SUBSET (1 .. Len(path)) -> Seq(STRING)]
    BY <1>7 DEF FoldsTo
  <2> QED
    BY <1>1, <2>2, <2>3
<1>9. PICK iter : Resolved(path) = iter[1 .. Len(path)] /\ iter = Fold(iter)
  <2>1. Resolved(path) = (CHOOSE iter : iter = Fold(iter))[1 .. Len(path)]
    BY <1>1 DEF Resolved, FoldLeft, MapThenFoldSet
  <2> HIDE DEF Fold
  <2> QED
    BY <1>8, <2>1
<1>10. ASSUME NEW s \in SUBSET (1 .. Len(path)), s # {}
       PROVE  iter[s] = Next(iter[s \ {Max(s)}], path[Max(s)])
  <2> HIDE DEF Next
  <2> QED
    BY <1>1, <1>9, <1>10
<1>11. iter[{}] = <<>>
  <2> HIDE DEF Next
  <2> QED
    BY <1>1, <1>9
<1>12. PICK holds : holds = {n \in 0 .. Len(path) : iter[1 .. n] = SubSeq(path, 1, n)}
  OBVIOUS
<1>13. 0 \in holds
  <2>1. 1 .. 0 = {} /\ SubSeq(path, 1, 0) = <<>>
    BY SubSeqEmpty
  <2>2. 0 \in 0 .. Len(path)
    BY <1>1
  <2>3. iter[1 .. 0] = SubSeq(path, 1, 0)
    BY <1>11, <2>1
  <2> QED
    BY <1>12, <2>2, <2>3
<1>14. ASSUME NEW n \in 1 .. Len(path), n - 1 \in holds PROVE n \in holds
  <2>1. 1 .. n \in SUBSET (1 .. Len(path)) /\ 1 .. n # {} /\ n \in 1 .. n
    <3>1. n \in 1 .. n
      OBVIOUS
    <3>2. \A i \in 1 .. n : i \in 1 .. Len(path)
      BY <1>1
    <3> QED
      BY <3>1, <3>2
  <2>2. Max(1 .. n) = n
    <3>1. Max(1 .. n) \in 1 .. n /\ \A y \in 1 .. n : y <= Max(1 .. n)
      BY <1>3, <1>4, <2>1
    <3> QED
      BY <2>1, <3>1
  <2>3. (1 .. n) \ {n} = 1 .. n - 1
    BY <1>1
  <2>4. iter[1 .. n - 1] = SubSeq(path, 1, n - 1)
    BY <1>12, <1>14
  <2>5. iter[1 .. n] = Append(SubSeq(path, 1, n - 1), path[n])
    BY <1>2, <1>10, <2>1, <2>2, <2>3, <2>4
  <2>6. SubSeq(path, 1, n) = SubSeq(path, 1, n - 1) \o <<path[n]>>
    <3>1. 1 \in 1 .. Len(path) /\ n \in 1 .. Len(path)
      BY <1>1
    <3> QED
      BY <3>1, SubSeqRecursiveSecond
  <2>7. Append(SubSeq(path, 1, n - 1), path[n]) = SubSeq(path, 1, n - 1) \o <<path[n]>>
    <3>1. SubSeq(path, 1, n - 1) \in Seq(STRING) /\ path[n] \in STRING
      BY <1>1, <1>2
    <3> QED
      BY <3>1, AppendIsConcat
  <2>8. iter[1 .. n] = SubSeq(path, 1, n)
    BY <2>5, <2>6, <2>7, Zenon
  <2>9. n \in 0 .. Len(path)
    BY <1>1
  <2> QED
    BY <1>12, <2>8, <2>9
<1>15. 0 .. Len(path) \subseteq holds
  BY <1>1, <1>13, <1>14, NumbersReached
<1>16. iter[1 .. Len(path)] = SubSeq(path, 1, Len(path))
  BY <1>1, <1>12, <1>15
<1> QED
  BY <1>9, <1>16, SubSeqFull

LEMMA EgressFollows == ASSUME EgressInv PROVE EgressKept
<1>1. \A q \in sent : Resolved(q.path) = q.path
  BY ResolvesToItself DEF EgressInv, SentRight
<1>2. OnlyAllowed
  BY <1>1 DEF OnlyAllowed, EgressInv, SentRight
<1>3. \A q \in sent : q.bare = {} /\ \A i \in DOMAIN Secrets :
         Secrets[i].name \in q.put => Secrets[i].origin = q.to
  BY SecretsTyped DEF EgressInv, SentRight
<1>4. ASSUME NEW n \in EgressNames
      PROVE  /\ Cardinality({i \in DOMAIN reads[n] : reads[n][i] \in {"runs", "answered"}}) <= 1
             /\ cells[n] = "read" <=> "answered" \in ToSet(reads[n])
  <2>1. /\ reads[n] \in Seq(Readings) /\ DOMAIN reads[n] = 1 .. Len(reads[n]) /\ Len(reads[n]) \in Nat
        /\ ReadRight(n) /\ (reads[n] # <<>> => Len(reads[n]) # 0)
    BY EmptySeq DEF EgressInv
  <2>2. \A i \in 1 .. Len(reads[n]) : i = Len(reads[n]) \/ reads[n][i] \in Failures
    BY <2>1 DEF ReadRight
  <2>3. {i \in DOMAIN reads[n] : reads[n][i] \in {"runs", "answered"}} \subseteq {Len(reads[n])}
    BY <2>1, <2>2 DEF Failures
  <2>4. Cardinality({i \in DOMAIN reads[n] : reads[n][i] \in {"runs", "answered"}}) <= 1
    <3>1. IsFiniteSet({Len(reads[n])}) /\ Cardinality({Len(reads[n])}) = 1
      BY FS_Singleton
    <3> QED
      BY <2>3, <3>1, FS_Subset
  <2>5. "answered" \in ToSet(reads[n]) <=> reads[n] # <<>> /\ reads[n][Len(reads[n])] = "answered"
    BY <2>1, <2>2, EmptySeq DEF ToSet, Failures
  <2>6. cells[n] = "read" <=> reads[n] # <<>> /\ reads[n][Len(reads[n])] = "answered"
    BY <2>1 DEF ReadRight, Failures
  <2> QED
    BY <2>4, <2>5, <2>6
<1>5. SecretsHome
  BY <1>3, <1>4 DEF SecretsHome
<1> QED
  BY <1>2, <1>5 DEF EgressKept

\* What a request is relayed with, however the rules and the secrets change while it is on
\* its way (sandbox/egress.rs handle, inject).
THEOREM EgressIsKept == EgressSpec => []EgressKept
<1>1. EgressInit => EgressInv
  BY EgressStarts
<1>2. EgressInv /\ [EgressNext]_egressVars => EgressInv'
  BY EgressStep
<1>3. EgressInv => EgressKept
  BY EgressFollows
<1> QED
  BY <1>1, <1>2, <1>3, PTL DEF EgressSpec

-----------------------------------------------------------------------------
(* The commands that run past their call. *)

Leaders == {"none", "running", "zombie", "reaped"}
GroupSet == [leader : Leaders, job : BOOLEAN, printed : Nat, eof : BOOLEAN]
WorkSet == [pc : {"none", "starting", "keeping", "waiting", "polling"}, left : Nat]
StopSet == [pc : {"none", "asked", "moot", "grace", "over"}, age : Nat]
Distinct(s) == \A i, j \in 1 .. Len(s) : s[i] = s[j] => i = j
CommandTypes ==
    /\ group \in [Commands -> GroupSet] /\ work \in [Commands -> WorkSet]
    /\ userStops \in [Commands -> StopSet]
    /\ pipe \in [Commands -> Seq(Nat)] /\ given \in [Commands -> Seq(Nat)]
    /\ table \in Seq(Commands) /\ Distinct(table)
    /\ bhai \in {"up", "leaving", "gone", "dying", "dead"} /\ misfired = FALSE
    /\ keptLate \subseteq Commands
    /\ ended \in [Commands -> {"no", "stopped", "whole", "drained", "cut"}]
\* What a command printed is read in order, to its end when that was seen.
Told(c) ==
    LET out == given[c] \o pipe[c]
    IN  /\ InOrder(out) /\ Len(out) <= group[c].printed
        /\ group[c].eof => /\ Len(out) = group[c].printed /\ ~group[c].job
                           /\ group[c].leader \in {"zombie", "reaped"}
        /\ ended[c] = "whole" => group[c].eof /\ pipe[c] = <<>>
\* A command whose shell was reaped is in the table while its last poll lasts; one the
\* user stopped is in nobody's hands until it is dead; none is kept, once bhai leaves, that
\* was not kept late; one that runs is kept, or in the hands of a call or a stop; and one
\* whose shell was reaped has had its last result told, unless the user's stop killed it.
Stands(c) ==
    /\ group[c].leader = "none" =>
         work[c].pc = "none" /\ userStops[c].pc = "none" /\ ~group[c].job /\ ~KeptSession(c)
    /\ work[c].pc \in {"starting", "keeping"} => userStops[c].pc = "none" /\ ~KeptSession(c)
    /\ work[c].pc = "keeping" => group[c].leader \in {"running", "zombie"}
    /\ userStops[c].pc = "grace" => group[c].leader \in {"running", "zombie"} /\ ~CallOpen(c)
    /\ userStops[c].pc = "over" => group[c].leader = "reaped" /\ ~group[c].job
    /\ userStops[c].age <= StopGrace
    /\ userStops[c].pc # "none" => ~KeptSession(c)
    /\ KeptSession(c) /\ group[c].leader = "reaped" => CallOpen(c) \/ bhai \in {"gone", "dead"}
    /\ bhai # "up" /\ KeptSession(c) => c \in keptLate
    /\ bhai \in {"gone", "dead"} => work[c].pc = "none" /\ userStops[c].pc = "none"
    /\ Lives(c) /\ group[c].leader # "reaped" /\ c \notin keptLate =>
         \/ KeptSession(c) \/ work[c].pc \in {"starting", "keeping"}
         \/ userStops[c].pc \in {"asked", "grace"} \/ (bhai = "dead" /\ c \in bereft)
    /\ group[c].leader = "reaped" =>
         \/ CallOpen(c) \/ ended[c] # "no" \/ userStops[c].pc = "over"
         \/ bhai \in {"gone", "dead"}
    /\ userStops[c].pc = "moot" => group[c].leader = "reaped" /\ ended[c] # "no"
CommandInv == CommandTypes /\ \A c \in Commands : Told(c) /\ Stands(c)

LEMMA Ranged ==
    ASSUME NEW S, NEW s \in Seq(S)
    PROVE  /\ DOMAIN s = 1 .. Len(s) /\ Len(s) \in Nat
           /\ \A x : x \in Range(s) <=> \E i \in 1 .. Len(s) : s[i] = x
  BY DEF Range

LEMMA InRange == ASSUME NEW S, NEW s \in Seq(S), NEW x PROVE x \in Range(s) <=> \E i \in 1 .. Len(s) : s[i] = x
  BY Ranged

\* Sequences without repeats: what an element is taken from, added to, or cut off of.
LEMMA TakenOut ==
    ASSUME NEW S, NEW s \in Seq(S), Distinct(s),
           NEW k \in 1 .. Len(s), NEW t, t = RemoveAt(s, k)
    PROVE  /\ t \in Seq(S) /\ Distinct(t)
           /\ Range(t) = Range(s) \ {s[k]}
<1>1. PICK n \in Nat : Len(s) = n /\ k \in 1 .. n
  OBVIOUS
<1>2. PICK a, b : a = SubSeq(s, 1, k - 1) /\ b = SubSeq(s, k + 1, n)
  OBVIOUS
<1>3. /\ a \in Seq(S) /\ Len(a) = k - 1 /\ \A i \in 1 .. k - 1 : a[i] = s[i]
  BY <1>1, <1>2
<1>4. /\ b \in Seq(S) /\ Len(b) = n - k /\ \A i \in 1 .. n - k : b[i] = s[i + k]
  BY <1>1, <1>2
<1>5. t = a \o b
  BY <1>1, <1>2 DEF RemoveAt
<1>6. t \in Seq(S) /\ Len(t) = n - 1
  <2>1. t \in Seq(S) /\ Len(t) = Len(a) + Len(b)
    <3>1. a \in Seq(S) /\ b \in Seq(S)
      BY <1>3, <1>4
    <3> QED
      BY <1>5, <3>1
  <2> QED
    BY <1>1, <1>3, <1>4, <2>1
<1>7. \A i \in 1 .. n - 1 : t[i] = IF i < k THEN s[i] ELSE s[i + 1]
  <2>1. SUFFICES ASSUME NEW i \in 1 .. n - 1 PROVE t[i] = IF i < k THEN s[i] ELSE s[i + 1]
    OBVIOUS
  <2>2. t[i] = IF i <= k - 1 THEN a[i] ELSE b[i - (k - 1)]
    BY <1>1, <1>3, <1>4, <1>5, ConcatProperties
  <2>3. CASE i < k
    BY <1>1, <1>3, <2>2, <2>3
  <2>4. CASE ~(i < k)
    <3>1. i - (k - 1) \in 1 .. n - k /\ (i - (k - 1)) + k = i + 1
      BY <1>1, <2>4
    <3> QED
      BY <1>1, <1>4, <2>2, <2>4, <3>1
  <2> QED
    BY <2>3, <2>4
<1>8. Distinct(t)
  BY <1>1, <1>6, <1>7 DEF Distinct
<1>9. Range(t) = Range(s) \ {s[k]}
  <2>1. ASSUME NEW x PROVE x \in Range(t) <=> x \in Range(s) /\ x # s[k]
    <3>1. ASSUME x \in Range(t) PROVE x \in Range(s) /\ x # s[k]
      <4>1. PICK i \in 1 .. n - 1 : t[i] = x
        BY <1>6, <3>1, Ranged
      <4>2. PICK j \in 1 .. n : j # k /\ s[j] = x
        BY <1>1, <1>7, <4>1
      <4>3. x \in Range(s)
        BY <1>1, <4>2, Ranged
      <4>4. s[j] # s[k]
        BY <1>1, <4>2 DEF Distinct
      <4> QED
        BY <4>2, <4>3, <4>4
    <3>2. ASSUME x \in Range(s), x # s[k] PROVE x \in Range(t)
      <4>1. PICK j \in 1 .. n : s[j] = x /\ j # k
        BY <1>1, <3>2, Ranged
      <4>2. PICK i \in 1 .. n - 1 : t[i] = x
        <5>1. CASE j < k
          <6>1. j \in 1 .. n - 1 /\ t[j] = x
            BY <1>1, <1>7, <4>1, <5>1
          <6> QED
            BY <6>1
        <5>2. CASE ~(j < k)
          <6>1. j - 1 \in 1 .. n - 1 /\ ~(j - 1 < k) /\ (j - 1) + 1 = j
            BY <1>1, <4>1, <5>2
          <6> QED
            BY <1>7, <4>1, <6>1
        <5> QED
          BY <5>1, <5>2
      <4> QED
        BY <1>6, <4>2, Ranged
    <3> QED
      BY <3>1, <3>2
  <2> QED
    BY <2>1
<1> QED
  BY <1>6, <1>8, <1>9

LEMMA PutLast ==
    ASSUME NEW S, NEW s \in Seq(S), Distinct(s),
           NEW x \in S, x \notin Range(s)
    PROVE  \E t : /\ t = Append(s, x)
                  /\ t \in Seq(S) /\ Distinct(t)
                  /\ Range(t) = Range(s) \cup {x}
<1>0. PICK t : t = Append(s, x)
  OBVIOUS
<1>1. PICK n \in Nat : Len(s) = n
  OBVIOUS
<1>2. t \in Seq(S) /\ Len(t) = n + 1 /\ t[n + 1] = x /\ \A i \in 1 .. n : t[i] = s[i]
  BY <1>0, <1>1
<1>3. \A i \in 1 .. n : s[i] # x
  BY <1>1, Ranged
<1>4. Distinct(t)
  BY <1>1, <1>2, <1>3 DEF Distinct
<1>5. ASSUME NEW y PROVE y \in Range(t) <=> y \in Range(s) \/ y = x
  <2>1. y \in Range(t) <=> \E i \in 1 .. n + 1 : t[i] = y
    <3>1. y \in Range(t) <=> \E i \in 1 .. Len(t) : t[i] = y
      <4>1. t \in Seq(S)
        BY <1>2
      <4> QED
        BY <4>1, InRange
    <3> QED
      BY <1>2, <3>1
  <2>2. y \in Range(s) <=> \E i \in 1 .. n : s[i] = y
    BY <1>1, Ranged
  <2>3. (\E i \in 1 .. n + 1 : t[i] = y) <=> (\E i \in 1 .. n : s[i] = y) \/ y = x
    BY <1>2
  <2> QED
    BY <2>1, <2>2, <2>3
<1> QED
  BY <1>0, <1>2, <1>4, <1>5

LEMMA CutOff ==
    ASSUME NEW S, NEW s \in Seq(S), Distinct(s),
           NEW k \in 0 .. Len(s)
    PROVE  \E t : /\ t = SubSeq(s, k + 1, Len(s))
                  /\ t \in Seq(S) /\ Distinct(t)
                  /\ Range(t) = Range(s) \ Range(SubSeq(s, 1, k))
<1>0. PICK t : t = SubSeq(s, k + 1, Len(s))
  OBVIOUS
<1>1. PICK n \in Nat : Len(s) = n /\ k \in 0 .. n
  OBVIOUS
<1>2. t \in Seq(S) /\ Len(t) = n - k /\ \A i \in 1 .. n - k : t[i] = s[i + k]
  BY <1>0, <1>1
<1>3. PICK a : a = SubSeq(s, 1, k)
  OBVIOUS
<1>4. a \in Seq(S) /\ Len(a) = k /\ \A i \in 1 .. k : a[i] = s[i]
  BY <1>1, <1>3
<1>5. Distinct(t)
  BY <1>1, <1>2 DEF Distinct
<1>6. ASSUME NEW x PROVE x \in Range(t) <=> x \in Range(s) /\ x \notin Range(a)
  <2>1. x \in Range(t) <=> \E i \in 1 .. n - k : s[i + k] = x
    <3>1. x \in Range(t) <=> \E i \in 1 .. Len(t) : t[i] = x
      <4>1. t \in Seq(S)
        BY <1>2
      <4> QED
        BY <4>1, InRange
    <3> QED
      BY <1>2, <3>1
  <2>2. x \in Range(a) <=> \E i \in 1 .. k : s[i] = x
    BY <1>4, Ranged
  <2>3. x \in Range(s) <=> \E i \in 1 .. n : s[i] = x
    BY <1>1, Ranged
  <2>4. ASSUME NEW i \in 1 .. n, s[i] = x, ~ \E j \in 1 .. k : s[j] = x
        PROVE  \E j \in 1 .. n - k : s[j + k] = x
    <3>1. i - k \in 1 .. n - k /\ (i - k) + k = i
      BY <1>1, <2>4
    <3> QED
      BY <2>4, <3>1
  <2>5. ASSUME NEW i \in 1 .. n - k, s[i + k] = x
        PROVE  (\E j \in 1 .. n : s[j] = x) /\ ~ \E j \in 1 .. k : s[j] = x
    <3>1. i + k \in 1 .. n /\ i + k \notin 1 .. k
      BY <1>1
    <3>2. ASSUME NEW j \in 1 .. k PROVE s[j] # x
      <4>1. j \in 1 .. n /\ j # i + k
        BY <1>1
      <4> QED
        BY <1>1, <2>5, <3>1, <4>1 DEF Distinct
    <3> QED
      BY <2>5, <3>1, <3>2
  <2> QED
    BY <2>1, <2>2, <2>3, <2>4, <2>5
<1> QED
  BY <1>0, <1>2, <1>3, <1>5, <1>6

LEMMA Forgotten ==
    ASSUME CommandTypes, NEW c \in Commands
    PROVE  /\ Forget(c) \in Seq(Commands)
           /\ Distinct(Forget(c))
           /\ Range(Forget(c)) = Range(table) \ {c}
<1>1. table \in Seq(Commands) /\ Distinct(table)
  BY DEF CommandTypes
<1>2. CASE KeptSession(c)
  <2>1. \E i \in DOMAIN table : table[i] = c
    BY <1>1, <1>2, InRange, Ranged DEF KeptSession
  <2>2. PICK k \in 1 .. Len(table) : k = (CHOOSE i \in DOMAIN table : table[i] = c) /\ table[k] = c
    BY <1>1, <2>1, Ranged
  <2>3. Forget(c) = RemoveAt(table, k)
    BY <1>2, <2>2 DEF Forget
  <2>4. PICK t : t = RemoveAt(table, k)
    OBVIOUS
  <2>5. /\ t \in Seq(Commands) /\ Distinct(t)
        /\ Range(t) = Range(table) \ {table[k]}
    BY <1>1, <2>4, TakenOut
  <2> QED
    BY <2>2, <2>3, <2>4, <2>5
<1>3. CASE ~KeptSession(c)
  BY <1>1, <1>3 DEF Forget, KeptSession
<1> QED
  BY <1>2, <1>3

LEMMA KilledGroup ==
    ASSUME NEW g \in GroupSet
    PROVE  /\ Killed(g) \in GroupSet /\ Killed(g).printed = g.printed /\ Killed(g).eof = g.eof
           /\ Killed(g).leader = IF g.leader = "running" THEN "zombie" ELSE g.leader
           /\ ~Killed(g).job
           /\ Reaped(g) \in GroupSet /\ Reaped(g).printed = g.printed /\ Reaped(g).eof = g.eof
           /\ Reaped(g).leader = "reaped" /\ ~Reaped(g).job
<1>1. /\ Killed(g) \in GroupSet /\ Killed(g).printed = g.printed /\ Killed(g).eof = g.eof
      /\ Killed(g).leader = IF g.leader = "running" THEN "zombie" ELSE g.leader
      /\ Killed(g).job = FALSE
  BY DEF Killed, GroupSet, Leaders
<1>2. /\ Reaped(g) \in GroupSet /\ Reaped(g).printed = Killed(g).printed
      /\ Reaped(g).eof = Killed(g).eof /\ Reaped(g).leader = "reaped" /\ Reaped(g).job = Killed(g).job
  BY <1>1 DEF Reaped, GroupSet, Leaders
<1> QED
  BY <1>1, <1>2

\* What a step of one command leaves alone.
Elsewhere(c) ==
    \A d \in Commands \ {c} :
        /\ group'[d] = group[d] /\ work'[d] = work[d] /\ userStops'[d] = userStops[d]
        /\ pipe'[d] = pipe[d] /\ given'[d] = given[d] /\ ended'[d] = ended[d]
        /\ KeptSession(d)' <=> KeptSession(d)

LEMMA OneMoves ==
    ASSUME CommandInv, NEW c \in Commands, CommandTypes', Elsewhere(c),
           bhai' = bhai, bereft' = bereft, keptLate \subseteq keptLate', Told(c)', Stands(c)'
    PROVE  CommandInv'
<1>1. SUFFICES ASSUME NEW d \in Commands, d # c PROVE Told(d)' /\ Stands(d)'
  BY DEF CommandInv
<1>2. /\ group'[d] = group[d] /\ work'[d] = work[d] /\ userStops'[d] = userStops[d]
      /\ pipe'[d] = pipe[d] /\ given'[d] = given[d] /\ ended'[d] = ended[d]
      /\ KeptSession(d)' <=> KeptSession(d)
  BY <1>1 DEF Elsewhere
<1>3. Told(d) /\ Stands(d)
  BY DEF CommandInv
<1>4. Told(d)'
  BY <1>2, <1>3 DEF Told
<1>5. Stands(d)'
  BY <1>2, <1>3 DEF Stands, Lives, CallOpen
<1> QED
  BY <1>4, <1>5

LEMMA CommandsStart == ASSUME CommandInit PROVE CommandInv
<1>1. CommandTypes
  BY EmptySeq DEF CommandInit, CommandTypes, Distinct, GroupSet, Leaders, WorkSet, StopSet
<1>2. ASSUME NEW c \in Commands PROVE Told(c) /\ Stands(c)
  <2>1. /\ group[c].leader = "none" /\ group[c].job = FALSE /\ group[c].printed = 0
        /\ group[c].eof = FALSE /\ pipe[c] = <<>> /\ given[c] = <<>> /\ work[c].pc = "none"
        /\ userStops[c].pc = "none" /\ userStops[c].age = 0 /\ bhai = "up" /\ ended[c] = "no"
        /\ table = <<>>
    BY DEF CommandInit
  <2>2. ~KeptSession(c)
    BY <2>1 DEF KeptSession, Range
  <2>3. given[c] \o pipe[c] = <<>> /\ Len(<<>>) = 0 /\ DOMAIN <<>> = {}
    BY <2>1
  <2> QED
    BY <2>1, <2>2, <2>3, CommandsAssumption DEF Told, InOrder, Stands, Lives
<1> QED
  BY <1>1, <1>2 DEF CommandInv

LEMMA CommandsFollow == ASSUME CommandInv PROVE CommandsKept
<1>1. ASSUME NEW c \in Commands
      PROVE  /\ Told(c) /\ Stands(c) /\ given[c] \in Seq(Nat) /\ userStops[c].age \in Nat
             /\ Len(given[c]) = Len(given[c] \o <<>>)
  BY DEF CommandInv, CommandTypes, StopSet
<1>2. OutputTold
  BY <1>1 DEF OutputTold, Told
<1>3. KillsOwn
  BY DEF CommandInv, CommandTypes, KillsOwn
<1>4. StopsInTime
  BY <1>1, CommandsAssumption DEF StopsInTime, Stands, Lives
<1>5. NoneLeftRunning
  BY <1>1 DEF NoneLeftRunning, Stands
<1> QED
  BY <1>2, <1>3, <1>4, <1>5 DEF CommandsEnd, CommandsKept

LEMMA LessOrMore == \A k, m, n \in Nat : k <= m /\ n = m + 1 => k <= n
  OBVIOUS

LEMMA CommandTyped ==
    ASSUME CommandInv, NEW c \in Commands
    PROVE  /\ CommandTypes /\ Told(c) /\ Stands(c)
           /\ group \in [Commands -> GroupSet] /\ work \in [Commands -> WorkSet]
           /\ userStops \in [Commands -> StopSet]
           /\ group[c] \in GroupSet /\ group[c].leader \in Leaders /\ group[c].printed \in Nat
           /\ group[c].job \in BOOLEAN /\ group[c].eof \in BOOLEAN
           /\ work[c] \in WorkSet /\ work[c].left \in Nat
           /\ userStops[c] \in StopSet /\ userStops[c].age \in Nat
           /\ pipe[c] \in Seq(Nat) /\ given[c] \in Seq(Nat) /\ Len(pipe[c]) \in Nat
           /\ Len(given[c]) \in Nat
           /\ given[c] \o pipe[c] \in Seq(Nat) /\ Len(given[c] \o pipe[c]) \in Nat
           /\ Len(given[c] \o pipe[c]) = Len(given[c]) + Len(pipe[c])
  BY DEF CommandInv, CommandTypes, GroupSet, WorkSet, StopSet

\* The command's own steps: only its process group changes.
LEMMA GroupMoves ==
    ASSUME CommandInv, NEW c \in Commands, NEW g \in GroupSet, group' = [group EXCEPT ![c] = g],
           UNCHANGED <<pipe, given, work, table, userStops, bhai, misfired, ended, keptLate, bereft>>,
           Told(c)', Stands(c)'
    PROVE  CommandInv'
<1>1. CommandTypes'
  BY CommandTyped DEF CommandTypes
<1>2. Elsewhere(c)
  BY CommandTyped DEF Elsewhere, KeptSession
<1> QED
  BY <1>1, <1>2, OneMoves

LEMMA CommandRuns ==
    ASSUME CommandInv, NEW c \in Commands, Prints(c) \/ Exits(c) \/ JobEnds(c) \/ ReachesEnd(c)
    PROVE  CommandInv'
<1>1. CASE Prints(c)
  <2>1. PICK n \in Nat : n = group[c].printed + 1
    <3>1. group[c].printed \in Nat
      BY CommandTyped
    <3> QED
      BY <3>1
  <2>2. PICK g : g = [group[c] EXCEPT !.printed = n]
    OBVIOUS
  <2>3. /\ g \in GroupSet /\ g.printed = n /\ g.leader = group[c].leader /\ g.job = group[c].job
        /\ g.eof = group[c].eof
    BY <2>2, CommandTyped DEF GroupSet
  <2>4. /\ group' = [group EXCEPT ![c] = g]
        /\ UNCHANGED <<pipe, given, work, table, userStops, bhai, misfired, ended, keptLate, bereft>>
    BY <1>1, <2>1, <2>2, CommandTyped DEF Prints
  <2>5. group'[c] = g
    BY <2>4, CommandTyped
  <2>6. ~group[c].eof
    BY <1>1, CommandTyped DEF Prints, Lives, Told
  <2>7. Told(c)'
    <3>1. Len(given[c] \o pipe[c]) <= n
      <4>1. Len(given[c] \o pipe[c]) <= group[c].printed
        BY CommandTyped DEF Told
      <4> QED
        BY <2>1, <4>1, CommandTyped, Zenon, LessOrMore
    <3>2. group'[c].printed = n /\ ~group'[c].eof
      BY <2>3, <2>5, <2>6
    <3>3. ended[c] # "whole" /\ InOrder(given[c] \o pipe[c])
      BY <2>6, CommandTyped DEF Told
    <3> QED
      BY <2>4, <3>1, <3>2, <3>3 DEF Told
  <2>8. Stands(c)'
    BY <2>3, <2>4, <2>5, CommandTyped DEF Stands, Lives, CallOpen, KeptSession
  <2> QED
    BY <2>3, <2>4, <2>7, <2>8, GroupMoves
<1>2. CASE Exits(c)
  <2>1. PICK job \in BOOLEAN : group' = [group EXCEPT ![c].leader = "zombie", ![c].job = job]
    BY <1>2 DEF Exits
  <2>2. PICK g : g = [group[c] EXCEPT !.leader = "zombie", !.job = job]
    OBVIOUS
  <2>3. /\ g \in GroupSet /\ g.printed = group[c].printed /\ g.leader = "zombie" /\ g.job = job
        /\ g.eof = group[c].eof
    BY <2>2, CommandTyped DEF GroupSet, Leaders
  <2>4. /\ group' = [group EXCEPT ![c] = g]
        /\ UNCHANGED <<pipe, given, work, table, userStops, bhai, misfired, ended, keptLate, bereft>>
    BY <1>2, <2>1, <2>2, CommandTyped DEF Exits
  <2>5. group'[c] = g
    BY <2>4, CommandTyped
  <2>6. ~group[c].eof /\ group[c].leader = "running"
    BY <1>2, CommandTyped DEF Exits, Told
  <2>7. Told(c)'
    BY <2>3, <2>4, <2>5, <2>6, CommandTyped DEF Told
  <2>8. Stands(c)'
    BY <2>3, <2>4, <2>5, <2>6, CommandTyped DEF Stands, Lives, CallOpen, KeptSession
  <2> QED
    BY <2>3, <2>4, <2>7, <2>8, GroupMoves
<1>3. CASE JobEnds(c)
  <2>1. PICK g : g = [group[c] EXCEPT !.job = FALSE]
    OBVIOUS
  <2>2. /\ g \in GroupSet /\ g.printed = group[c].printed /\ g.leader = group[c].leader /\ ~g.job
        /\ g.eof = group[c].eof
    BY <2>1, CommandTyped DEF GroupSet
  <2>3. /\ group' = [group EXCEPT ![c] = g]
        /\ UNCHANGED <<pipe, given, work, table, userStops, bhai, misfired, ended, keptLate, bereft>>
    BY <1>3, <2>1, CommandTyped DEF JobEnds
  <2>4. group'[c] = g
    BY <2>3, CommandTyped
  <2>5. Told(c)'
    BY <2>2, <2>3, <2>4, CommandTyped DEF Told
  <2>6. Stands(c)'
    BY <2>2, <2>3, <2>4, CommandTyped DEF Stands, Lives, CallOpen, KeptSession
  <2> QED
    BY <2>2, <2>3, <2>5, <2>6, GroupMoves
<1>4. CASE ReachesEnd(c)
  <2>1. PICK g : g = [group[c] EXCEPT !.eof = TRUE]
    OBVIOUS
  <2>2. /\ g \in GroupSet /\ g.printed = group[c].printed /\ g.leader = group[c].leader
        /\ g.job = group[c].job
    BY <2>1, CommandTyped DEF GroupSet
  <2>3. /\ group' = [group EXCEPT ![c] = g]
        /\ UNCHANGED <<pipe, given, work, table, userStops, bhai, misfired, ended, keptLate, bereft>>
    BY <1>4, <2>1, CommandTyped DEF ReachesEnd
  <2>4. group'[c] = g
    BY <2>3, CommandTyped
  <2>5. Len(given[c] \o pipe[c]) = group[c].printed /\ g.eof = TRUE
    BY <1>4, <2>1, CommandTyped DEF ReachesEnd, ReadSoFar, GroupSet
  <2>6. Told(c)'
    BY <1>4, <2>2, <2>3, <2>4, <2>5, CommandTyped DEF ReachesEnd, Told
  <2>7. Stands(c)'
    BY <2>2, <2>3, <2>4, CommandTyped DEF Stands, Lives, CallOpen, KeptSession
  <2> QED
    BY <2>2, <2>3, <2>6, <2>7, GroupMoves
<1> QED
  BY <1>1, <1>2, <1>3, <1>4

\* A piece more in the readers' hands, or what they have in the model's.
LEMMA ReadOn ==
    ASSUME NEW s \in Seq(Nat), NEW p \in Seq(Nat), InOrder(s \o p)
    PROVE  /\ Append(p, Len(s) + Len(p) + 1) \in Seq(Nat)
           /\ InOrder(s \o Append(p, Len(s) + Len(p) + 1))
           /\ Len(s \o Append(p, Len(s) + Len(p) + 1)) = Len(s \o p) + 1
<1>1. PICK a \in Nat, b \in Nat : Len(s) = a /\ Len(p) = b
  OBVIOUS
<1>2. PICK q : q = Append(p, a + b + 1)
  OBVIOUS
<1>3. /\ q \in Seq(Nat) /\ Len(q) = b + 1 /\ q[b + 1] = a + b + 1 /\ \A i \in 1 .. b : q[i] = p[i]
  BY <1>1, <1>2
<1>4. /\ DOMAIN (s \o q) = 1 .. a + (b + 1) /\ Len(s \o q) = a + (b + 1)
      /\ \A i \in 1 .. a + (b + 1) : (s \o q)[i] = IF i <= a THEN s[i] ELSE q[i - a]
  <2>1. s \o q \in Seq(Nat) /\ Len(s \o q) = Len(s) + Len(q)
    <3>1. q \in Seq(Nat)
      BY <1>3
    <3> QED
      BY <3>1
  <2>2. \A i \in 1 .. Len(s) + Len(q) : (s \o q)[i] = IF i <= Len(s) THEN s[i] ELSE q[i - Len(s)]
    BY <1>3, ConcatProperties
  <2>3. DOMAIN (s \o q) = 1 .. Len(s \o q)
    BY <2>1
  <2>4. Len(s) = a /\ Len(q) = b + 1
    BY <1>1, <1>3
  <2> QED
    BY <2>1, <2>2, <2>3, <2>4
<1>5. /\ DOMAIN (s \o p) = 1 .. a + b /\ Len(s \o p) = a + b
      /\ \A i \in 1 .. a + b : (s \o p)[i] = IF i <= a THEN s[i] ELSE p[i - a]
  <2>1. s \o p \in Seq(Nat) /\ Len(s \o p) = Len(s) + Len(p)
    OBVIOUS
  <2>2. \A i \in 1 .. Len(s) + Len(p) : (s \o p)[i] = IF i <= Len(s) THEN s[i] ELSE p[i - Len(s)]
    BY ConcatProperties
  <2> QED
    BY <1>1, <2>1, <2>2
<1>6. ASSUME NEW i \in 1 .. a + (b + 1) PROVE (s \o q)[i] = i
  <2>1. CASE i <= a
    <3>1. i \in 1 .. a + b
      BY <2>1
    <3> QED
      BY <1>4, <1>5, <2>1, <3>1 DEF InOrder
  <2>2. CASE ~(i <= a) /\ i # a + b + 1
    <3>1. i \in 1 .. a + b /\ i - a \in 1 .. b
      BY <2>2
    <3> QED
      BY <1>3, <1>4, <1>5, <2>2, <3>1 DEF InOrder
  <2>3. CASE i = a + b + 1
    <3>1. ~(i <= a) /\ i - a = b + 1
      BY <2>3
    <3> QED
      BY <1>3, <1>4, <2>3, <3>1
  <2> QED
    BY <2>1, <2>2, <2>3
<1>7. InOrder(s \o q)
  BY <1>4, <1>6 DEF InOrder
<1>8. Len(s \o q) = Len(s \o p) + 1
  BY <1>4, <1>5
<1>9. q = Append(p, Len(s) + Len(p) + 1)
  BY <1>1, <1>2
<1> QED
  BY <1>3, <1>7, <1>8, <1>9

LEMMA CommandReads == ASSUME CommandInv, NEW c \in Commands, Reads(c) PROVE CommandInv'
<1>1. PICK p : p = Append(pipe[c], Len(given[c]) + Len(pipe[c]) + 1)
  OBVIOUS
<1>2. InOrder(given[c] \o pipe[c])
  BY CommandTyped DEF Told
<1>3. /\ p \in Seq(Nat) /\ InOrder(given[c] \o p)
      /\ Len(given[c] \o p) = Len(given[c] \o pipe[c]) + 1
  BY <1>1, <1>2, CommandTyped, ReadOn
<1>4. /\ pipe' = [pipe EXCEPT ![c] = p]
      /\ UNCHANGED <<group, given, work, table, userStops, bhai, misfired, ended, keptLate, bereft>>
  BY <1>1 DEF Reads, ReadSoFar
<1>5. pipe \in [Commands -> Seq(Nat)]
  BY DEF CommandInv, CommandTypes
<1>6. CommandTypes' /\ Elsewhere(c) /\ pipe'[c] = p
  BY <1>3, <1>4, <1>5, CommandTyped DEF CommandTypes, Elsewhere, KeptSession
<1>7. /\ Len(given[c] \o pipe[c]) < group[c].printed /\ ended[c] = "no"
  BY CommandTyped DEF Reads, ReadSoFar
<1>8. Told(c)'
  <2>1. PICK m \in Nat : m = Len(given[c] \o pipe[c])
    BY CommandTyped
  <2>2. Len(given[c] \o p) = m + 1 /\ m < group[c].printed /\ group[c].printed \in Nat
    BY <1>3, <1>7, <2>1, CommandTyped
  <2>3. Len(given[c] \o p) <= group[c].printed
    BY <2>2
  <2>4. ~group[c].eof
    <3>1. group[c].eof => m = group[c].printed
      BY <2>1, CommandTyped DEF Told
    <3> QED
      BY <2>2, <3>1
  <2> QED
    BY <1>3, <1>4, <1>6, <1>7, <2>3, <2>4 DEF Told
<1>9. Stands(c)'
  BY <1>4, CommandTyped DEF Stands, Lives, CallOpen, KeptSession
<1> QED
  BY <1>4, <1>6, <1>8, <1>9, OneMoves

\* Where a call or a poll is, and when it yields, is all that changes.
LEMMA WorkMoves ==
    ASSUME CommandInv, NEW c \in Commands, NEW g \in GroupSet, NEW w \in WorkSet,
           group' = [group EXCEPT ![c] = g], work' = [work EXCEPT ![c] = w],
           g.printed = group[c].printed, g.eof = group[c].eof, g.job = group[c].job,
           g.leader = group[c].leader \/ group[c].leader = "none" \/ g.leader \in {"zombie", "reaped"},
           UNCHANGED <<pipe, given, userStops, bhai, misfired, ended, keptLate, bereft>>,
           table' \in Seq(Commands), Distinct(table'),
           Range(table') = Range(table), Stands(c)'
    PROVE  CommandInv'
<1>1. CommandTypes' /\ group'[c] = g
  BY CommandTyped DEF CommandTypes
<1>2. Elsewhere(c)
  BY CommandTyped DEF Elsewhere, KeptSession
<1>3. Told(c)'
  BY <1>1, CommandTyped DEF Told
<1> QED
  BY <1>1, <1>2, <1>3, OneMoves

LEMMA CommandCalls ==
    ASSUME CommandInv, NEW c \in Commands,
           StartCommand(c) \/ PollCommand(c) \/ LocksProc(c) \/ SeesExit(c)
    PROVE  CommandInv'
<1>1. /\ table \in Seq(Commands) /\ Distinct(table)
      /\ group = [group EXCEPT ![c] = group[c]] /\ Yield \in Nat
  BY CommandTyped, CommandsAssumption DEF CommandTypes
<1>2. CASE StartCommand(c)
  <2>1. PICK g : g = [group[c] EXCEPT !.leader = "running"]
    OBVIOUS
  <2>2. PICK w : w = [pc |-> "starting", left |-> Yield]
    OBVIOUS
  <2>3. /\ g \in GroupSet /\ g.printed = group[c].printed /\ g.leader = "running"
        /\ g.job = group[c].job /\ g.eof = group[c].eof
    BY <2>1, CommandTyped DEF GroupSet, Leaders
  <2>4. w \in WorkSet /\ w.pc = "starting"
    BY <1>1, <2>2 DEF WorkSet
  <2>5. /\ group' = [group EXCEPT ![c] = g] /\ work' = [work EXCEPT ![c] = w]
        /\ bhai \in {"up", "dying"} /\ group[c].leader = "none"
        /\ UNCHANGED <<pipe, given, table, userStops, bhai, misfired, ended, keptLate, bereft>>
    BY <1>2, <2>1, <2>2 DEF StartCommand, Serving
  <2>6. group'[c] = g /\ work'[c] = w
    BY <2>5, CommandTyped
  <2>7. Stands(c)'
    BY <2>3, <2>4, <2>5, <2>6, CommandTyped DEF Stands, Lives, CallOpen, KeptSession
  <2> QED
    BY <1>1, <2>3, <2>4, <2>5, <2>7, WorkMoves
<1>3. CASE PollCommand(c)
  <2>1. PICK w : w = [pc |-> "waiting", left |-> 0]
    OBVIOUS
  <2>2. w \in WorkSet /\ w.pc = "waiting"
    BY <2>1 DEF WorkSet
  <2>3. /\ work' = [work EXCEPT ![c] = w] /\ bhai \in {"up", "dying"} /\ KeptSession(c)
        /\ work[c].pc = "none"
        /\ table' = Append(Forget(c), c)
        /\ UNCHANGED <<group, pipe, given, userStops, bhai, misfired, ended, keptLate, bereft>>
    BY <1>3, <2>1 DEF PollCommand, Serving
  <2>4. PICK s : s = Forget(c)
    OBVIOUS
  <2>5. /\ s \in Seq(Commands) /\ Distinct(s)
        /\ Range(s) = Range(table) \ {c}
    BY <2>4, CommandTyped, Forgotten
  <2>6. s \in Seq(Commands) /\ c \notin Range(s)
    BY <2>5
  <2>7. PICK t : /\ t = Append(s, c)
                 /\ t \in Seq(Commands) /\ Distinct(t)
                 /\ Range(t) = Range(s) \cup {c}
    BY <2>5, <2>6, PutLast
  <2>8. table' = t /\ Range(t) = Range(table)
    BY <2>3, <2>4, <2>5, <2>7 DEF KeptSession
  <2>9. work'[c] = w
    BY <2>3, CommandTyped
  <2>10. Stands(c)'
    BY <2>2, <2>3, <2>8, <2>9, CommandTyped DEF Stands, Lives, CallOpen, KeptSession
  <2>11. group' = [group EXCEPT ![c] = group[c]]
    BY <1>1, <2>3
  <2>12. /\ table' \in Seq(Commands) /\ Distinct(table')
         /\ Range(table') = Range(table)
    BY <2>7, <2>8
  <2> QED
    BY <2>2, <2>3, <2>10, <2>11, <2>12, CommandTyped, WorkMoves
<1>4. CASE LocksProc(c)
  <2>1. PICK w : w = [work[c] EXCEPT !.pc = "polling", !.left = Yield]
    OBVIOUS
  <2>2. w \in WorkSet /\ w.pc = "polling"
    BY <1>1, <2>1, CommandTyped DEF WorkSet
  <2>3. /\ work' = [work EXCEPT ![c] = w] /\ work[c].pc = "waiting" /\ userStops[c].pc # "grace"
        /\ UNCHANGED <<group, pipe, given, table, userStops, bhai, misfired, ended, keptLate, bereft>>
    BY <1>4, <2>1, CommandTyped DEF LocksProc
  <2>4. work'[c] = w
    BY <2>3, CommandTyped
  <2>5. Stands(c)'
    BY <2>2, <2>3, <2>4, CommandTyped DEF Stands, Lives, CallOpen, KeptSession
  <2>6. group' = [group EXCEPT ![c] = group[c]] /\ Range(table') = Range(table)
    BY <1>1, <2>3
  <2> QED
    BY <1>1, <2>2, <2>3, <2>5, <2>6, CommandTyped, WorkMoves
<1>5. CASE SeesExit(c)
  <2>1. PICK g : g = [group[c] EXCEPT !.leader = "reaped"]
    OBVIOUS
  <2>2. PICK w : w = [work[c] EXCEPT !.left = 1]
    OBVIOUS
  <2>3. /\ g \in GroupSet /\ g.printed = group[c].printed /\ g.leader = "reaped"
        /\ g.job = group[c].job /\ g.eof = group[c].eof
    BY <2>1, CommandTyped DEF GroupSet, Leaders
  <2>4. w \in WorkSet /\ w.pc = work[c].pc
    BY <2>2, CommandTyped DEF WorkSet
  <2>5. /\ group' = [group EXCEPT ![c] = g] /\ work' = [work EXCEPT ![c] = w]
        /\ CallOpen(c) /\ group[c].leader = "zombie"
        /\ UNCHANGED <<pipe, given, table, userStops, bhai, misfired, ended, keptLate, bereft>>
    BY <1>5, <2>1, <2>2, CommandTyped DEF SeesExit
  <2>6. group'[c] = g /\ work'[c] = w
    BY <2>5, CommandTyped
  <2>7. Stands(c)'
    BY <2>3, <2>4, <2>5, <2>6, CommandTyped DEF Stands, Lives, CallOpen, KeptSession
  <2> QED
    BY <1>1, <2>3, <2>4, <2>5, <2>7, WorkMoves
<1> QED
  BY <1>2, <1>3, <1>4, <1>5

\* A result takes what the readers have.
LEMMA Taken ==
    ASSUME CommandInv, NEW c \in Commands, Take(c)
    PROVE  /\ given' \in [Commands -> Seq(Nat)] /\ pipe' \in [Commands -> Seq(Nat)]
           /\ pipe'[c] = <<>> /\ given'[c] \o pipe'[c] = given[c] \o pipe[c]
           /\ \A d \in Commands \ {c} : given'[d] = given[d] /\ pipe'[d] = pipe[d]
<1>1. PICK s \in Seq(Nat) : s = given[c] \o pipe[c]
  BY CommandTyped
<1>2. given' = [given EXCEPT ![c] = s] /\ pipe' = [pipe EXCEPT ![c] = <<>>]
  BY <1>1, CommandTyped DEF Take
<1>3. given \in [Commands -> Seq(Nat)] /\ pipe \in [Commands -> Seq(Nat)] /\ <<>> \in Seq(Nat)
  BY EmptySeq DEF CommandInv, CommandTypes
<1>4. given'[c] = s /\ pipe'[c] = <<>> /\ s \o <<>> = s
  BY <1>2, <1>3
<1> QED
  BY <1>1, <1>2, <1>3, <1>4

\* A result is told: it has what was read, and a last one the table without its command.
LEMMA ResultMoves ==
    ASSUME CommandInv, NEW c \in Commands, NEW g \in GroupSet, NEW w \in WorkSet,
           NEW how \in {"no", "stopped", "whole", "drained", "cut"},
           Take(c), group' = [group EXCEPT ![c] = g], work' = [work EXCEPT ![c] = w],
           ended' = [ended EXCEPT ![c] = how], misfired' = FALSE,
           g.printed = group[c].printed, g.eof = group[c].eof, g.job => group[c].job,
           group[c].eof => g.leader \in {"zombie", "reaped"}, how = "whole" => g.eof,
           UNCHANGED <<userStops, bhai, keptLate, bereft>>,
           table' \in Seq(Commands), Distinct(table'), Stands(c)',
           Range(table') \in {Range(table), Range(table) \ {c}}
    PROVE  CommandInv'
<1>1. CommandTypes' /\ group'[c] = g /\ ended'[c] = how
  BY CommandTyped, Taken DEF CommandTypes
<1>2. Elsewhere(c)
  <2>1. \A d \in Commands \ {c} : given'[d] = given[d] /\ pipe'[d] = pipe[d]
    BY Taken
  <2> QED
    BY <2>1, CommandTyped DEF Elsewhere, KeptSession, CommandTypes
<1>3. Told(c)'
  BY <1>1, CommandTyped, Taken DEF Told
<1> QED
  BY <1>1, <1>2, <1>3, OneMoves

LEMMA CommandAnswers ==
    ASSUME CommandInv, NEW c \in Commands, Finishes(c) \/ Yields(c) \/ InterruptCall(c)
    PROVE  CommandInv'
<1>1. /\ table \in Seq(Commands) /\ Distinct(table) /\ misfired = FALSE
      /\ group = [group EXCEPT ![c] = group[c]] /\ ended = [ended EXCEPT ![c] = ended[c]]
      /\ ended[c] \in {"no", "stopped", "whole", "drained", "cut"}
  BY CommandTyped DEF CommandTypes
<1>2. PICK w : w = [pc |-> "none", left |-> 0]
  OBVIOUS
<1>3. w \in WorkSet /\ w.pc = "none"
  BY <1>2 DEF WorkSet
<1>4. /\ Forget(c) \in Seq(Commands) /\ Distinct(Forget(c))
      /\ Range(Forget(c)) = Range(table) \ {c}
  BY CommandTyped, Forgotten
<1>5. CASE Finishes(c)
  <2>1. PICK how \in {"stopped", "whole", "drained"} :
            /\ ended' = [ended EXCEPT ![c] = how]
            /\ how = "whole" => group[c].eof
    BY <1>5 DEF Finishes, Tells
  <2>2. /\ Take(c) /\ work' = [work EXCEPT ![c] = w] /\ table' = Forget(c) /\ CallOpen(c)
        /\ StopSeen(c) \/ group[c].leader = "reaped"
        /\ UNCHANGED <<group, userStops, bhai, misfired, keptLate, bereft>>
    BY <1>2, <1>5 DEF Finishes, Over
  <2>3. work'[c] = w
    BY <2>2, CommandTyped
  <2>4. ~KeptSession(c)'
    BY <1>4, <2>2 DEF KeptSession
  <2>5. Stands(c)'
    <3>1. ended'[c] # "no"
      BY <2>1, CommandTyped DEF CommandTypes
    <3> QED
      BY <1>3, <2>2, <2>3, <2>4, <3>1, CommandTyped DEF Stands, Lives, CallOpen, StopSeen
  <2>6. /\ table' \in Seq(Commands) /\ Distinct(table')
        /\ Range(table') \in {Range(table), Range(table) \ {c}}
        /\ group' = [group EXCEPT ![c] = group[c]] /\ misfired' = FALSE
    BY <1>1, <1>4, <2>2
  <2>7. group[c].eof => group[c].leader \in {"zombie", "reaped"}
    BY CommandTyped DEF Told
  <2>8. /\ Take(c) /\ work' = [work EXCEPT ![c] = w]
        /\ UNCHANGED <<userStops, bhai, keptLate, bereft>>
    BY <2>2
  <2> QED
    BY <1>3, <2>1, <2>8, <2>5, <2>6, <2>7, CommandTyped, ResultMoves
<1>6. CASE Yields(c)
  <2>1. PICK v : v = [work[c] EXCEPT !.pc = IF @ = "polling" THEN "none" ELSE "keeping"]
    OBVIOUS
  <2>2. /\ Take(c) /\ work' = [work EXCEPT ![c] = v] /\ CallOpen(c) /\ ~StopSeen(c)
        /\ group[c].leader \in {"running", "zombie"}
        /\ UNCHANGED <<group, table, userStops, bhai, misfired, ended, keptLate, bereft>>
    BY <1>6, <2>1, CommandTyped DEF Yields
  <2>3. /\ v \in WorkSet /\ v.pc \in {"none", "keeping"}
        /\ v.pc = "keeping" <=> work[c].pc = "starting"
    BY <2>1, <2>2, CommandTyped DEF WorkSet, CallOpen
  <2>4. work'[c] = v
    BY <2>2, CommandTyped
  <2>5. Stands(c)'
    BY <2>2, <2>3, <2>4, CommandTyped DEF Stands, Lives, CallOpen, StopSeen, KeptSession
  <2>6. /\ table' \in Seq(Commands) /\ Distinct(table')
        /\ Range(table') \in {Range(table), Range(table) \ {c}}
        /\ group' = [group EXCEPT ![c] = group[c]] /\ misfired' = FALSE
        /\ ended' = [ended EXCEPT ![c] = ended[c]]
    BY <1>1, <2>2
  <2>7. /\ group[c].eof => group[c].leader \in {"zombie", "reaped"}
        /\ ended[c] = "whole" => group[c].eof
    BY CommandTyped DEF Told
  <2>8. UNCHANGED <<userStops, bhai, keptLate, bereft>>
    BY <2>2
  <2> QED
    BY <1>1, <2>2, <2>3, <2>5, <2>6, <2>7, <2>8, CommandTyped, ResultMoves
<1>7. CASE InterruptCall(c)
  <2>1. PICK g : g = Reaped(group[c])
    OBVIOUS
  <2>2. /\ g \in GroupSet /\ g.printed = group[c].printed /\ g.eof = group[c].eof
        /\ g.leader = "reaped" /\ ~g.job
    BY <2>1, CommandTyped, KilledGroup
  <2>3. /\ Take(c) /\ work' = [work EXCEPT ![c] = w] /\ table' = Forget(c) /\ CallOpen(c)
        /\ group' = [group EXCEPT ![c] = g] /\ ended' = [ended EXCEPT ![c] = "cut"]
        /\ group[c].leader \in {"running", "zombie"}
        /\ UNCHANGED <<userStops, bhai, keptLate, bereft>>
    BY <1>2, <1>7, <2>1 DEF InterruptCall, Over, Tells
  <2>4. misfired' = FALSE
    BY <1>1, <1>7 DEF InterruptCall, Misfires
  <2>5. work'[c] = w /\ group'[c] = g /\ ended'[c] = "cut"
    BY <2>3, CommandTyped DEF CommandTypes
  <2>6. ~KeptSession(c)'
    BY <1>4, <2>3 DEF KeptSession
  <2>7. Stands(c)'
    BY <1>3, <2>2, <2>3, <2>5, <2>6, CommandTyped DEF Stands, Lives, CallOpen
  <2>8. /\ table' \in Seq(Commands) /\ Distinct(table')
        /\ Range(table') \in {Range(table), Range(table) \ {c}}
    BY <1>4, <2>3
  <2> QED
    BY <1>3, <2>2, <2>3, <2>4, <2>7, <2>8, CommandTyped, ResultMoves
<1> QED
  BY <1>5, <1>6, <1>7

\* The user's stop: what its task knows of the command changes, and the command.
LEMMA StopMoves ==
    ASSUME CommandInv, NEW c \in Commands, NEW g \in GroupSet, NEW u \in StopSet,
           group' = [group EXCEPT ![c] = g], userStops' = [userStops EXCEPT ![c] = u],
           g.printed = group[c].printed, g.eof = group[c].eof, g.job => group[c].job,
           group[c].eof => g.leader \in {"zombie", "reaped"}, misfired' = FALSE,
           UNCHANGED <<pipe, given, work, bhai, ended, keptLate, bereft>>,
           table' \in Seq(Commands), Distinct(table'), Stands(c)',
           Range(table') \in {Range(table), Range(table) \ {c}}
    PROVE  CommandInv'
<1>1. CommandTypes' /\ group'[c] = g
  BY CommandTyped DEF CommandTypes
<1>2. Elsewhere(c)
  BY CommandTyped DEF Elsewhere, KeptSession
<1>3. Told(c)'
  BY <1>1, CommandTyped DEF Told
<1> QED
  BY <1>1, <1>2, <1>3, OneMoves

LEMMA CommandStops ==
    ASSUME CommandInv, NEW c \in Commands, Stop(c) \/ InterruptsGroup(c) \/ StopKillsGroup(c)
    PROVE  CommandInv'
<1>1. /\ table \in Seq(Commands) /\ Distinct(table) /\ misfired = FALSE
      /\ group = [group EXCEPT ![c] = group[c]]
      /\ group[c].eof => group[c].leader \in {"zombie", "reaped"}
  BY CommandTyped DEF CommandTypes, Told
<1>2. CASE Stop(c)
  <2>1. PICK u : u = [userStops[c] EXCEPT !.pc = "asked"]
    OBVIOUS
  <2>2. u \in StopSet /\ u.pc = "asked" /\ u.age = userStops[c].age
    BY <2>1, CommandTyped DEF StopSet
  <2>3. /\ bhai \in {"up", "dying"} /\ KeptSession(c) /\ table' = Forget(c)
        /\ userStops' = [userStops EXCEPT ![c] = u]
        /\ UNCHANGED <<group, pipe, given, work, bhai, misfired, ended, keptLate, bereft>>
    BY <1>2, <2>1, CommandTyped DEF Stop, Serving
  <2>4. /\ table' \in Seq(Commands) /\ Distinct(table') /\ Range(table') = Range(table) \ {c}
    BY <2>3, CommandTyped, Forgotten
  <2>5. userStops'[c] = u
    BY <2>3, CommandTyped
  <2>6. Stands(c)'
    BY <2>2, <2>3, <2>4, <2>5, CommandTyped DEF Stands, Lives, CallOpen, KeptSession
  <2>7. group' = [group EXCEPT ![c] = group[c]] /\ misfired' = FALSE
    BY <1>1, <2>3
  <2> QED
    BY <1>1, <2>2, <2>3, <2>4, <2>6, <2>7, CommandTyped, StopMoves
<1>3. CASE InterruptsGroup(c) /\ group[c].leader = "reaped"
  <2>1. PICK u : u = [userStops[c] EXCEPT !.pc = "moot"]
    OBVIOUS
  <2>2. u \in StopSet /\ u.pc = "moot" /\ u.age = userStops[c].age
    BY <2>1, CommandTyped DEF StopSet
  <2>3. /\ userStops[c].pc = "asked" /\ userStops' = [userStops EXCEPT ![c] = u] /\ ~CallOpen(c)
        /\ group[c].leader = "reaped"
        /\ UNCHANGED <<group, pipe, given, work, table, bhai, misfired, ended, keptLate, bereft>>
    BY <1>3, <2>1, CommandTyped DEF InterruptsGroup
  <2>4. userStops'[c] = u
    BY <2>3, CommandTyped
  <2>5. Stands(c)'
    BY <2>2, <2>3, <2>4, CommandTyped DEF Stands, Lives, CallOpen, KeptSession
  <2>6. /\ group' = [group EXCEPT ![c] = group[c]] /\ misfired' = FALSE
        /\ table' \in Seq(Commands) /\ Distinct(table')
        /\ Range(table') \in {Range(table), Range(table) \ {c}}
    BY <1>1, <2>3
  <2> QED
    BY <1>1, <2>2, <2>3, <2>5, <2>6, CommandTyped, StopMoves
<1>4. CASE InterruptsGroup(c) /\ group[c].leader # "reaped"
  <2>1. PICK u : u = [userStops[c] EXCEPT !.pc = "grace"]
    OBVIOUS
  <2>2. u \in StopSet /\ u.pc = "grace" /\ u.age = userStops[c].age
    BY <2>1, CommandTyped DEF StopSet
  <2>3. /\ userStops[c].pc = "asked" /\ userStops' = [userStops EXCEPT ![c] = u] /\ ~CallOpen(c)
        /\ UNCHANGED <<pipe, given, work, table, bhai, ended, keptLate, bereft>> /\ misfired' = FALSE
    BY <1>1, <1>4, <2>1, CommandTyped DEF InterruptsGroup, Misfires
  <2>4. PICK g : g \in {group[c], [group[c] EXCEPT !.leader = "zombie"]}
                 /\ group' = [group EXCEPT ![c] = g]
    BY <1>1, <1>4, CommandTyped DEF InterruptsGroup
  <2>5. /\ g \in GroupSet /\ g.printed = group[c].printed /\ g.eof = group[c].eof
        /\ g.job = group[c].job /\ g.leader \in {group[c].leader, "zombie"}
    BY <2>4, CommandTyped DEF GroupSet, Leaders
  <2>6. userStops'[c] = u /\ group'[c] = g
    BY <2>3, <2>4, CommandTyped
  <2>7. g.leader \in {"running", "zombie"}
    BY <1>4, <2>3, <2>5, CommandTyped DEF Stands, Leaders
  <2>8. Stands(c)'
    BY <2>2, <2>3, <2>5, <2>6, <2>7, CommandTyped DEF Stands, Lives, CallOpen, KeptSession
  <2>9. /\ table' \in Seq(Commands) /\ Distinct(table')
        /\ Range(table') \in {Range(table), Range(table) \ {c}}
        /\ group[c].eof => g.leader \in {"zombie", "reaped"}
    BY <1>1, <2>3, <2>5
  <2> QED
    BY <2>2, <2>3, <2>4, <2>5, <2>8, <2>9, StopMoves
<1>5. CASE StopKillsGroup(c)
  <2>1. PICK u : u = [userStops[c] EXCEPT !.pc = "over"]
    OBVIOUS
  <2>2. u \in StopSet /\ u.pc = "over" /\ u.age = userStops[c].age
    BY <2>1, CommandTyped DEF StopSet
  <2>3. PICK g : g = Reaped(group[c])
    OBVIOUS
  <2>4. /\ g \in GroupSet /\ g.printed = group[c].printed /\ g.eof = group[c].eof
        /\ g.leader = "reaped" /\ ~g.job
    BY <2>3, CommandTyped, KilledGroup
  <2>5. /\ userStops[c].pc = "grace" /\ userStops' = [userStops EXCEPT ![c] = u]
        /\ group' = [group EXCEPT ![c] = g]
        /\ UNCHANGED <<pipe, given, work, table, bhai, ended, keptLate, bereft>>
    BY <1>5, <2>1, <2>3, CommandTyped DEF StopKillsGroup
  <2>6. group[c].leader \in {"running", "zombie"} /\ ~CallOpen(c)
    BY <2>5, CommandTyped DEF Stands
  <2>7. misfired' = FALSE
    BY <1>1, <1>5, <2>6 DEF StopKillsGroup, Misfires
  <2>8. userStops'[c] = u /\ group'[c] = g
    BY <2>5, CommandTyped
  <2>9. Stands(c)'
    BY <2>2, <2>4, <2>5, <2>6, <2>8, CommandTyped DEF Stands, Lives, CallOpen, KeptSession
  <2>10. /\ table' \in Seq(Commands) /\ Distinct(table')
         /\ Range(table') \in {Range(table), Range(table) \ {c}}
    BY <1>1, <2>5
  <2> QED
    BY <2>2, <2>4, <2>5, <2>7, <2>9, <2>10, StopMoves
<1> QED
  BY <1>2, <1>3, <1>4, <1>5

LEMMA OneKilled ==
    ASSUME CommandInv, NEW c \in Commands
    PROVE  \E g \in GroupSet :
              /\ g = Killed(group[c]) /\ g.printed = group[c].printed /\ g.eof = group[c].eof
              /\ g.leader = (IF group[c].leader = "running" THEN "zombie" ELSE group[c].leader)
              /\ ~g.job
<1>1. PICK h \in GroupSet : h = group[c]
  BY CommandTyped
<1>2. PICK g : g = Killed(h)
  OBVIOUS
<1>3. /\ g \in GroupSet /\ g.printed = h.printed /\ g.eof = h.eof
      /\ g.leader = (IF h.leader = "running" THEN "zombie" ELSE h.leader) /\ ~g.job
  BY <1>2, KilledGroup
<1> QED
  BY <1>1, <1>2, <1>3

\* Commands are killed and others are not, and the table loses some of them.
LEMMA KilledOrNot ==
    ASSUME CommandInv, NEW c \in Commands, group'[c] \in {group[c], Killed(group[c])},
           work'[c] = work[c], userStops'[c] = userStops[c], ended'[c] = ended[c],
           given'[c] = given[c], pipe'[c] = pipe[c],
           KeptSession(c)' => KeptSession(c), keptLate \subseteq keptLate', bereft' = bereft,
           KeptSession(c) => KeptSession(c)' \/ group'[c] = Killed(group[c]),
           bhai' = bhai \/ (/\ bhai' \in {"leaving", "dying"} /\ bhai \notin {"gone", "dead"}
                             /\ ~KeptSession(c)')
    PROVE  Told(c)' /\ Stands(c)' /\ group'[c] \in GroupSet
<1>1. /\ group'[c] \in GroupSet
      /\ group'[c].printed = group[c].printed /\ group'[c].eof = group[c].eof
      /\ group'[c].job => group[c].job
      /\ group'[c].leader = group[c].leader
            \/ (group[c].leader = "running" /\ group'[c].leader = "zombie")
  <2>1. CASE group'[c] = group[c]
    BY <2>1, CommandTyped
  <2>2. CASE group'[c] = Killed(group[c])
    BY <2>2, OneKilled
  <2> QED
    BY <2>1, <2>2
<1>2. Told(c)'
  BY <1>1, CommandTyped DEF Told
<1>3. Stands(c)'
  <2>1. KeptSession(c) => KeptSession(c)' \/ ~Lives(c)' \/ group'[c].leader = "reaped"
    BY OneKilled, CommandTyped DEF Lives, Leaders
  <2> QED
    BY <1>1, <2>1, CommandTyped DEF Stands, Lives, CallOpen
<1> QED
  BY <1>1, <1>2, <1>3

LEMMA CommandKept == ASSUME CommandInv, NEW c \in Commands, Keep(c) PROVE CommandInv'
<1>1. CommandTypes /\ table \in Seq(Commands) /\ Distinct(table) /\ misfired = FALSE
  BY CommandTyped DEF CommandTypes
<1>2. work[c].pc = "keeping" /\ ~KeptSession(c) /\ userStops[c].pc = "none"
      /\ bhai \notin {"gone", "dead"}
  BY CommandTyped DEF Keep, Stands
<1>3. PICK k \in 0 .. Len(table) : Oldest = SubSeq(table, 1, k) /\ Len(Oldest) = k
  <2>1. PICK n \in Nat, m \in Nat \ {0} : Len(table) = n /\ MaxSessions = m
    BY <1>1, CommandsAssumption
  <2>2. CASE n - m + 1 >= 0
    <3>1. PICK k \in 0 .. n : k = n - m + 1
      BY <2>1, <2>2
    <3>2. Oldest = SubSeq(table, 1, k) /\ Len(SubSeq(table, 1, k)) = k
      BY <1>1, <2>1, <3>1 DEF Oldest
    <3> QED
      BY <2>1, <3>2
  <2>3. CASE ~(n - m + 1 >= 0)
    <3>1. PICK i \in Int : i = n - m + 1 /\ i < 0
      BY <2>1, <2>3
    <3>2. Oldest = SubSeq(table, 1, i)
      BY <2>1, <3>1 DEF Oldest
    <3>3. SubSeq(table, 1, i) = <<>> /\ SubSeq(table, 1, 0) = <<>> /\ Len(<<>>) = 0
      BY <1>1, <3>1
    <3>4. Oldest = SubSeq(table, 1, 0) /\ Len(Oldest) = 0
      BY <3>2, <3>3, Zenon
    <3>5. 0 \in 0 .. Len(table)
      BY <2>1
    <3> QED
      BY <3>4, <3>5
  <2> QED
    BY <2>2, <2>3
<1>4. PICK old : old = Range(Oldest)
  OBVIOUS
<1>5. old \subseteq Range(table)
  <2>1. PICK a : a = SubSeq(table, 1, k)
    OBVIOUS
  <2>2. a \in Seq(Commands) /\ \A i \in 1 .. Len(a) : i \in 1 .. Len(table) /\ a[i] = table[i]
    BY <1>1, <2>1
  <2>3. ASSUME NEW x \in Range(a) PROVE x \in Range(table)
    BY <1>1, <2>2, <2>3, Ranged
  <2> QED
    BY <1>3, <1>4, <2>1, <2>3
<1>6. PICK s : /\ s = SubSeq(table, k + 1, Len(table))
               /\ s \in Seq(Commands) /\ Distinct(s) /\ Range(s) = Range(table) \ old
  BY <1>1, <1>3, <1>4, CutOff
<1>7. s \in Seq(Commands) /\ Distinct(s) /\ c \notin Range(s)
  BY <1>2, <1>6 DEF KeptSession
<1>8. PICK t : /\ t = Append(s, c) /\ t \in Seq(Commands) /\ Distinct(t)
               /\ Range(t) = Range(s) \cup {c}
  BY <1>7, PutLast
<1>9. table' = t
  BY <1>3, <1>6, <1>8 DEF Keep
<1>10. \A d \in Commands : group'[d] = IF d \in old THEN Killed(group[d]) ELSE group[d]
  BY <1>4 DEF Keep
<1>11. group' = [d \in Commands |-> group'[d]]
  BY <1>4 DEF Keep
<1>12. PICK w : w = [pc |-> "none", left |-> 0]
  OBVIOUS
<1>13. w \in WorkSet /\ w.pc = "none"
  BY <1>12 DEF WorkSet
<1>14. work' = [work EXCEPT ![c] = w] /\ work'[c] = w
  BY <1>12, CommandTyped DEF Keep, Over
<1>15. UNCHANGED <<pipe, given, userStops, bhai, ended, bereft>>
  BY DEF Keep
<1>16. keptLate' = (IF bhai = "up" THEN keptLate ELSE keptLate \cup {c})
  BY DEF Keep
<1>17. misfired' = FALSE
  <2>1. misfired' = (misfired \/ \E d \in {e \in old : ~(group[e].leader = "reaped" /\ CallOpen(e))} :
                                     group[d].leader = "reaped" /\ ~group[d].job)
    BY <1>4 DEF Keep, Misfires
  <2>2. ASSUME NEW d \in old, group[d].leader = "reaped" PROVE CallOpen(d)
    <3>1. d \in Commands /\ KeptSession(d)
      BY <1>1, <1>5, Ranged DEF KeptSession
    <3> QED
      BY <1>2, <2>2, <3>1, CommandTyped DEF Stands
  <2> QED
    BY <1>1, <2>1, <2>2
<1>18. ASSUME NEW d \in Commands, d # c
       PROVE  Told(d)' /\ Stands(d)' /\ group'[d] \in GroupSet
  <2>1. group'[d] \in {group[d], Killed(group[d])} /\ work'[d] = work[d]
    BY <1>10, <1>14, <1>18, CommandTyped
  <2>2. /\ KeptSession(d)' => KeptSession(d)
        /\ KeptSession(d) => KeptSession(d)' \/ group'[d] = Killed(group[d])
    BY <1>6, <1>8, <1>9, <1>10, <1>18 DEF KeptSession
  <2>3. /\ userStops'[d] = userStops[d] /\ ended'[d] = ended[d] /\ given'[d] = given[d]
        /\ pipe'[d] = pipe[d] /\ bhai' = bhai /\ keptLate \subseteq keptLate'
        /\ bereft' = bereft
    BY <1>15, <1>16
  <2> QED
    BY <2>1, <2>2, <2>3, KilledOrNot
<1>19. group'[c] = group[c]
  BY <1>2, <1>5, <1>10 DEF KeptSession
<1>20. Told(c)'
  BY <1>15, <1>19, CommandTyped DEF Told
<1>21. Stands(c)'
  <2>1. group[c].leader \in {"running", "zombie"}
    BY <1>2, CommandTyped DEF Stands
  <2>2. (bhai' # "up" => c \in keptLate') /\ KeptSession(c)'
    BY <1>8, <1>9, <1>15, <1>16 DEF KeptSession
  <2> QED
    BY <1>2, <1>13, <1>14, <1>15, <1>19, <2>1, <2>2, CommandTyped DEF Stands, Lives, CallOpen
<1>22. CommandTypes'
  <2>1. \A d \in Commands : group'[d] \in GroupSet
    BY <1>18, <1>19, CommandTyped
  <2>2. group' \in [Commands -> GroupSet]
    BY <1>11, <2>1
  <2>3. work' \in [Commands -> WorkSet]
    BY <1>13, <1>14, CommandTyped
  <2>4. keptLate' \subseteq Commands
    BY <1>1, <1>16 DEF CommandTypes
  <2> QED
    BY <1>1, <1>8, <1>9, <1>15, <1>17, <2>2, <2>3, <2>4 DEF CommandTypes
<1> QED
  BY <1>18, <1>20, <1>21, <1>22 DEF CommandInv

LEMMA CommandsEnded == ASSUME CommandInv, Clear \/ Leaves \/ Signalled PROVE CommandInv'
<1>1. CommandTypes /\ misfired = FALSE
  BY DEF CommandInv, CommandTypes
<1>2. /\ KillAll /\ bhai \in {"up", "leaving", "dying"}
      /\ bhai' \in {bhai, "leaving", "dying"}
      /\ UNCHANGED <<pipe, given, work, userStops, ended, keptLate, bereft>>
  BY DEF Clear, Leaves, Signalled, SignalKills, Serving
<1>3. table' = <<>> /\ \A d \in Commands : ~KeptSession(d)'
  BY <1>2 DEF KillAll, KeptSession, Range
<1>4. \A c \in Commands : /\ group'[c] \in {group[c], Killed(group[c])}
                          /\ KeptSession(c) => group'[c] = Killed(group[c])
  BY <1>2 DEF KillAll
<1>5. ASSUME NEW c \in Commands PROVE Told(c)' /\ Stands(c)' /\ group'[c] \in GroupSet
  <2>1. /\ group'[c] \in {group[c], Killed(group[c])} /\ work'[c] = work[c]
        /\ userStops'[c] = userStops[c] /\ ended'[c] = ended[c] /\ given'[c] = given[c]
        /\ pipe'[c] = pipe[c] /\ keptLate' = keptLate /\ bereft' = bereft
    BY <1>2, <1>4
  <2>2. ~KeptSession(c)' /\ (KeptSession(c) => group'[c] = Killed(group[c]))
    BY <1>3, <1>4
  <2>3. bhai' = bhai \/ (bhai' \in {"leaving", "dying"} /\ bhai \notin {"gone", "dead"})
    BY <1>2
  <2> QED
    BY <2>1, <2>2, <2>3, KilledOrNot
<1>6. misfired' = FALSE
  <2>1. ASSUME NEW c \in Range(table), group[c].leader = "reaped" PROVE CallOpen(c)
    <3>1. c \in Commands /\ KeptSession(c)
      <4>1. table \in Seq(Commands)
        BY <1>1 DEF CommandTypes
      <4> QED
        BY <4>1, Ranged DEF KeptSession
    <3> QED
      BY <1>2, <2>1, <3>1, CommandTyped DEF Stands
  <2> QED
    BY <1>1, <1>2, <2>1 DEF KillAll, Misfires
<1>7. group' \in [Commands -> GroupSet]
  <2>1. group' = [c \in Commands |-> group'[c]]
    BY <1>2 DEF KillAll
  <2> QED
    BY <1>5, <2>1
<1>8. table' \in Seq(Commands) /\ Distinct(table')
  BY <1>3, EmptySeq DEF Distinct
<1>9. CommandTypes'
  BY <1>1, <1>2, <1>6, <1>7, <1>8 DEF CommandTypes
<1> QED
  BY <1>5, <1>9 DEF CommandInv

LEMMA CommandsDropped == ASSUME CommandInv, BhaiGone PROVE CommandInv'
<1>1. CommandTypes /\ 0 <= StopGrace
  BY CommandsAssumption DEF CommandInv
<1>2. /\ bhai = "leaving" /\ bhai' = "gone" /\ Dropped
      /\ UNCHANGED <<pipe, given, table, misfired, ended, keptLate, bereft>>
  BY DEF BhaiGone
<1>3. ASSUME NEW c \in Commands
      PROVE  /\ work'[c].pc = "none" /\ userStops'[c].pc = "none" /\ userStops'[c].age = 0
             /\ work'[c] \in WorkSet /\ userStops'[c] \in StopSet
  BY DEF BhaiGone, WorkSet, StopSet
<1>4. ASSUME NEW c \in Commands PROVE Told(c)' /\ Stands(c)' /\ group'[c] \in GroupSet
  <2>1. /\ group'[c] \in GroupSet
        /\ group'[c].printed = group[c].printed /\ group'[c].eof = group[c].eof
        /\ group'[c].job => group[c].job
        /\ group'[c].leader = group[c].leader
              \/ (group[c].leader = "running" /\ group'[c].leader = "zombie")
        /\ ~KeptSession(c) /\ group[c].leader \in {"running", "zombie"} =>
              group'[c].leader = "zombie" /\ ~group'[c].job
    <3>1. CASE ~KeptSession(c) /\ group[c].leader \in {"running", "zombie"}
      <4>1. group'[c] = Killed(group[c])
        BY <1>2, <3>1 DEF Dropped
      <4> QED
        BY <3>1, <4>1, OneKilled
    <3>2. CASE ~(~KeptSession(c) /\ group[c].leader \in {"running", "zombie"})
      <4>1. group'[c] = group[c]
        BY <1>2, <3>2 DEF Dropped
      <4> QED
        BY <3>2, <4>1, CommandTyped
    <3> QED
      BY <3>1, <3>2
  <2>2. Told(c)'
    BY <1>2, <2>1, CommandTyped DEF Told
  <2>3. Stands(c)'
    BY <1>1, <1>2, <1>3, <2>1, CommandTyped DEF Stands, Lives, CallOpen, KeptSession, Leaders
  <2> QED
    BY <2>1, <2>2, <2>3
<1>5. group' \in [Commands -> GroupSet]
  <2>1. group' = [c \in Commands |-> group'[c]]
    BY <1>2 DEF Dropped
  <2> QED
    BY <1>4, <2>1
<1>6. work' \in [Commands -> WorkSet] /\ userStops' \in [Commands -> StopSet]
  BY <1>3 DEF BhaiGone
<1>7. CommandTypes'
  BY <1>1, <1>2, <1>5, <1>6 DEF CommandTypes
<1> QED
  BY <1>4, <1>7 DEF CommandInv

LEMMA CommandsFell == ASSUME CommandInv, DiesOfSignal PROVE CommandInv'
<1>1. CommandTypes /\ 0 <= StopGrace
  BY CommandsAssumption DEF CommandInv
<1>2. /\ bhai = "dying" /\ bhai' = "dead"
      /\ UNCHANGED <<group, pipe, given, table, misfired, ended, keptLate>>
  BY DEF DiesOfSignal
<1>3. ASSUME NEW c \in Commands
      PROVE  /\ work'[c].pc = "none" /\ userStops'[c].pc = "none" /\ userStops'[c].age = 0
             /\ work'[c] \in WorkSet /\ userStops'[c] \in StopSet
  BY DEF DiesOfSignal, WorkSet, StopSet
<1>4. ASSUME NEW c \in Commands PROVE Told(c)' /\ Stands(c)'
  <2>1. Told(c)'
    BY <1>2, CommandTyped DEF Told
  <2>2. work[c].pc \in {"starting", "keeping"} \/ userStops[c].pc \in {"asked", "grace"}
          => c \in bereft'
    BY DEF DiesOfSignal
  <2>3. Stands(c)'
    BY <1>1, <1>2, <1>3, <2>2, CommandTyped DEF Stands, Lives, CallOpen, KeptSession
  <2> QED
    BY <2>1, <2>3
<1>5. work' \in [Commands -> WorkSet] /\ userStops' \in [Commands -> StopSet]
  BY <1>3 DEF DiesOfSignal
<1>6. CommandTypes'
  BY <1>1, <1>2, <1>5 DEF CommandTypes
<1> QED
  BY <1>4, <1>6 DEF CommandInv

LEMMA CommandsWait == ASSUME CommandInv, Tick PROVE CommandInv'
<1>1. CommandTypes
  BY DEF CommandInv
<1>2. /\ \A c \in Commands : ~ReadyPiece(c)
      /\ UNCHANGED <<group, pipe, given, table, bhai, misfired, ended, keptLate, bereft>>
  BY DEF Tick
<1>3. ASSUME NEW c \in Commands
      PROVE  /\ work'[c] \in WorkSet /\ work'[c].pc = work[c].pc
             /\ userStops'[c] \in StopSet /\ userStops'[c].pc = userStops[c].pc
             /\ userStops'[c].age \in {userStops[c].age, userStops[c].age + 1}
             /\ userStops'[c].age # userStops[c].age => userStops[c].pc \in {"asked", "grace"}
  <2>1. /\ work'[c] = [work[c] EXCEPT !.left = IF @ > 0 THEN @ - 1 ELSE 0]
        /\ userStops'[c] = [userStops[c] EXCEPT !.age =
                IF userStops[c].pc \in {"asked", "grace"} /\ @ < StopGrace + 2 THEN @ + 1 ELSE @]
    BY DEF Tick
  <2>2. PICK n \in Nat, m \in Nat :
            /\ work'[c] = [work[c] EXCEPT !.left = n]
            /\ userStops'[c] = [userStops[c] EXCEPT !.age = m]
            /\ m \in {userStops[c].age, userStops[c].age + 1}
            /\ m # userStops[c].age => userStops[c].pc \in {"asked", "grace"}
    <3>0. work[c].left \in Nat /\ userStops[c].age \in Nat
      BY CommandTyped
    <3>1. PICK n \in Nat : n = IF work[c].left > 0 THEN work[c].left - 1 ELSE 0
      BY <3>0
    <3>2. PICK m \in Nat : m = IF userStops[c].pc \in {"asked", "grace"}
                                       /\ userStops[c].age < StopGrace + 2
                                   THEN userStops[c].age + 1 ELSE userStops[c].age
      BY <3>0
    <3>3. /\ work'[c] = [work[c] EXCEPT !.left = n]
          /\ userStops'[c] = [userStops[c] EXCEPT !.age = m]
      BY <2>1, <3>1, <3>2
    <3> QED
      BY <3>2, <3>3
  <2>3. work'[c] \in WorkSet /\ work'[c].pc = work[c].pc
    BY <2>2, CommandTyped DEF WorkSet
  <2>4. /\ userStops'[c] \in StopSet /\ userStops'[c].pc = userStops[c].pc
        /\ userStops'[c].age = m
    BY <2>2, CommandTyped DEF StopSet
  <2> QED
    BY <2>2, <2>3, <2>4
<1>4. ASSUME NEW c \in Commands PROVE Told(c)' /\ Stands(c)'
  <2>1. userStops'[c].age <= StopGrace
    <3>1. userStops[c].age <= StopGrace /\ userStops[c].age \in Nat /\ StopGrace \in Nat
      BY CommandTyped, CommandsAssumption DEF Stands
    <3>2. CASE userStops[c].pc \in {"asked", "grace"}
      <4>1. userStops[c].pc = "grace"
        BY <1>2, <3>2 DEF ReadyPiece, StopSeen
      <4>2. userStops[c].age < StopGrace
        BY <1>2, <3>1, <4>1 DEF ReadyPiece
      <4> QED
        BY <1>3, <3>1, <4>2
    <3>3. CASE userStops[c].pc \notin {"asked", "grace"}
      BY <1>3, <3>1, <3>3
    <3> QED
      BY <3>2, <3>3
  <2>2. Told(c)'
    BY <1>2, CommandTyped DEF Told
  <2>3. Stands(c)'
    BY <1>2, <1>3, <2>1, CommandTyped DEF Stands, Lives, CallOpen, KeptSession
  <2> QED
    BY <2>2, <2>3
<1>5. work' \in [Commands -> WorkSet] /\ userStops' \in [Commands -> StopSet]
  <2>1. work' = [c \in Commands |-> work'[c]] /\ userStops' = [c \in Commands |-> userStops'[c]]
    BY DEF Tick
  <2> QED
    BY <1>3, <2>1
<1>6. CommandTypes'
  BY <1>1, <1>2, <1>5 DEF CommandTypes
<1> QED
  BY <1>4, <1>6 DEF CommandInv

LEMMA CommandStep == CommandInv /\ [CommandNext]_commandVars => CommandInv'
<1>1. SUFFICES ASSUME CommandInv, [CommandNext]_commandVars PROVE CommandInv'
  OBVIOUS
<1>2. ASSUME NEW c \in Commands, CommandSteps(c) PROVE CommandInv'
  BY <1>1, <1>2, CommandRuns, CommandReads, CommandCalls, CommandAnswers, CommandKept,
     CommandStops DEF CommandSteps
<1>3. CASE Clear \/ Leaves \/ Signalled
  BY <1>1, <1>3, CommandsEnded
<1>4. CASE BhaiGone
  BY <1>1, <1>4, CommandsDropped
<1>5. CASE Tick
  BY <1>1, <1>5, CommandsWait
<1>6. CASE DiesOfSignal
  BY <1>1, <1>6, CommandsFell
<1>7. CASE UNCHANGED commandVars
  BY <1>1, <1>7 DEF commandVars, CommandInv, CommandTypes, Told, Stands, Lives, CallOpen,
     KeptSession
<1> QED
  BY <1>1, <1>2, <1>3, <1>4, <1>5, <1>6, <1>7 DEF CommandNext

\* However calls, polls, the user's stops, /clear and bhai's end fall, a command's output is
\* told once, in order and whole, and the command is killed when it must be and never after
\* its group is another's (tools/bash.rs, tools/stdin.rs).
THEOREM CommandsAreKept == CommandSpec => []CommandsKept
<1>1. CommandInit => CommandInv
  BY CommandsStart
<1>2. CommandInv => CommandsKept
  BY CommandsFollow
<1> QED
  BY <1>1, <1>2, CommandStep, PTL DEF CommandSpec

-----------------------------------------------------------------------------
(* The MCP servers. *)

ConfSet == [defn : Nat, approved : Nat, serves : Nat, pinned : Nat]
ConnSet == [server : Configured, catalog : Nat, live : {"starting", "up", "dead"}]
EntrySet == [state : {"none", "up", "down"}, conn : Nat]
CallPlaces == {"idle", "found", "late", "starting", "started", "foundLate", "calling"}
ReloadPlaces == {"idle", "reloading", "lock", "close", "closing", "start", "keep"}
McpTaskSet ==
    [pc : CallPlaces \cup ReloadPlaces, server : Configured \cup {"none"}, conn : Nat,
     pending : SUBSET Nat, skip : BOOLEAN, old : SUBSET Nat]
McpTypes ==
    /\ conf \in [Configured -> ConfSet] /\ conns \in Seq(ConnSet)
    /\ services \in [open : BOOLEAN, kept : SUBSET (DOMAIN conns)]
    /\ entry \in [Configured -> EntrySet] /\ reloaded \in [Launched -> EntrySet]
    /\ late \in [Deferred -> EntrySet] /\ mcpTask \in [Tasks -> McpTaskSet]
    /\ \A t \in Tasks : mcpTask[t].pending \subseteq DOMAIN conns /\ mcpTask[t].old \subseteq DOMAIN conns
    /\ \A s \in Launched : entry[s] # NoEntry

\* Who starts deferred servers holds late's lock, and nobody has started those before.
CallerHolds(c) ==
    /\ mcpTask[c].pc \in CallPlaces
    /\ mcpTask[c].pc # "idle" => mcpTask[c].server \in Configured
    /\ mcpTask[c].pc = "found" => mcpTask[c].server \in Launched
    /\ mcpTask[c].pc \in {"late", "starting", "started", "foundLate"} => mcpTask[c].server \in Deferred
    /\ mcpTask[c].pc = "starting" => lateBy = c
    /\ mcpTask[c].pending # {} => mcpTask[c].pc = "starting"
    /\ \A i \in mcpTask[c].pending :
          conns[i].server \in Deferred /\ late[conns[i].server] = NoEntry
\* A reload has its server to itself, once it has closed what was kept of it.
Reloading(r) == mcpTask[r].pc \in {"close", "closing", "start", "keep"}
ReloadHolds(r) ==
    /\ mcpTask[r].pc \in ReloadPlaces /\ mcpTask[r].old = {}
    /\ mcpTask[r].pc # "idle" => mcpTask[r].server \in Configured
    /\ mcpTask[r].pc = "lock" => mcpTask[r].server \in Deferred
    /\ Reloading(r) \/ mcpTask[r].pc = "lock" => reloadBy = r
    /\ Reloading(r) /\ mcpTask[r].server \in Deferred => lateBy = r
    /\ mcpTask[r].pending # {} => mcpTask[r].pc \in {"closing", "keep"}
    /\ \A i \in mcpTask[r].pending : conns[i].server = mcpTask[r].server
    /\ services.open /\ mcpTask[r].pc \in {"closing", "start", "keep"} =>
          \A i \in services.kept : conns[i].server # mcpTask[r].server
\* What runs is kept, or in the hands of a task.
InHand == UNION {mcpTask[t].pending : t \in Tasks}
Held == \A i \in DOMAIN conns : conns[i].live # "dead" => i \in services.kept \cup InHand
KeptKnown ==
    \A i \in services.kept : conns[i].server \in Deferred => late[conns[i].server] # NoEntry
Once ==
    services.open => \A i, j \in DOMAIN conns :
        conns[i].live # "dead" /\ conns[j].live # "dead" /\ conns[i].server = conns[j].server => i = j
\* What a call must not reach is neither shown nor about to be.
Shown(s) == IF s \in Launched THEN Now(s) ELSE late[s]
Coming(t) == mcpTask[t].pc \in {"keep", "starting"}
Fresh(c) ==
    mcpTask[c].pc # "idle" =>
        /\ mcpTask[c].pc # "calling" /\ Shown(mcpTask[c].server).state = "up" =>
              Shown(mcpTask[c].server).conn \notin mcpTask[c].old
        /\ mcpTask[c].pc = "calling" => mcpTask[c].conn \notin mcpTask[c].old
        /\ \A t \in Tasks : Coming(t) => mcpTask[t].pending \cap mcpTask[c].old = {}
Stays(t) == (t \in McpCallers => CallerHolds(t) /\ Fresh(t)) /\ (t \in Reloads => ReloadHolds(t))
McpInv ==
    McpTypes /\ (\A t \in Tasks : Stays(t)) /\ Held /\ KeptKnown /\ Once /\ PinHolds

LEMMA McpTyped ==
    ASSUME McpInv
    PROVE  /\ McpTypes /\ Held /\ KeptKnown /\ Once /\ PinHolds
           /\ conf \in [Configured -> ConfSet] /\ conns \in Seq(ConnSet)
           /\ DOMAIN conns = 1 .. Len(conns) /\ Len(conns) \in Nat
           /\ services.open \in BOOLEAN /\ services.kept \subseteq DOMAIN conns
           /\ services = [open |-> services.open, kept |-> services.kept]
           /\ entry \in [Configured -> EntrySet] /\ reloaded \in [Launched -> EntrySet]
           /\ late \in [Deferred -> EntrySet] /\ mcpTask \in [Tasks -> McpTaskSet]
           /\ \A t \in Tasks :
                /\ Stays(t) /\ mcpTask[t] \in McpTaskSet /\ t # "none"
                /\ mcpTask[t].pending \subseteq DOMAIN conns /\ mcpTask[t].old \subseteq DOMAIN conns
                /\ t \in McpCallers => CallerHolds(t) /\ Fresh(t)
                /\ t \in Reloads => ReloadHolds(t)
           /\ \A i \in DOMAIN conns : conns[i] \in ConnSet
           /\ \A s \in Launched : s \notin Deferred /\ entry[s] # NoEntry
           /\ \A c \in McpCallers : c \notin Reloads /\ c \in Tasks
           /\ \A r \in Reloads : r \notin McpCallers /\ r \in Tasks
  BY McpAssumption DEF McpInv, McpTypes, Stays, Tasks

\* What a step of t, or of nobody's, leaves to the other tasks.
Apart(t) ==
    /\ \A u \in Tasks \ {t} :
          mcpTask'[u] = mcpTask[u] /\ (lateBy = u => lateBy' = u) /\ (reloadBy = u => reloadBy' = u)
    /\ \A i \in DOMAIN conns : i \in DOMAIN conns' /\ conns'[i].server = conns[i].server
    /\ services'.open => services.open
    /\ \A i \in services'.kept : i \in services.kept \/ (t \in Tasks /\ i \in mcpTask[t].pending)
    /\ late' = late \/ (t \in Tasks /\ lateBy = t)
    /\ \A s \in Configured : Shown(s)' = Shown(s) \/ Shown(s)'.state # "up"
          \/ (t \in Tasks /\ Coming(t) /\ Shown(s)'.conn \in mcpTask[t].pending)
    /\ t \in Tasks /\ Coming(t)' => \A i \in mcpTask'[t].pending :
          i \notin DOMAIN conns \/ (Coming(t) /\ i \in mcpTask[t].pending)

LEMMA OthersStay ==
    ASSUME McpInv, NEW t, Apart(t), NEW u \in Tasks, u # t
    PROVE  Stays(u)'
<1>1. /\ mcpTask'[u] = mcpTask[u] /\ (lateBy = u => lateBy' = u) /\ (reloadBy = u => reloadBy' = u)
      /\ mcpTask[u].pending \subseteq DOMAIN conns /\ mcpTask[u].old \subseteq DOMAIN conns
  BY McpTyped DEF Apart
<1>2. \A i \in DOMAIN conns : conns'[i].server = conns[i].server
  BY DEF Apart
<1>3. ASSUME u \in McpCallers PROVE CallerHolds(u)'
  <2>1. CallerHolds(u)
    BY <1>3, McpTyped
  <2>2. mcpTask[u].pending = {} \/ late' = late
    BY <1>3, <2>1 DEF CallerHolds, Apart
  <2> QED
    BY <1>1, <1>2, <2>1, <2>2 DEF CallerHolds
<1>4. ASSUME u \in McpCallers PROVE Fresh(u)'
  <2>1. CASE mcpTask[u].pc = "idle"
    BY <1>1, <2>1 DEF Fresh
  <2>2. CASE mcpTask[u].pc # "idle"
    <3>1. Fresh(u) /\ mcpTask[u].server \in Configured
      BY <1>4, <2>2, McpTyped DEF CallerHolds
    <3>2. PICK s \in Configured : s = mcpTask[u].server
      BY <3>1
    <3>3. ASSUME mcpTask[u].pc # "calling", Shown(s)'.state = "up"
          PROVE  Shown(s)'.conn \notin mcpTask[u].old
      <4>1. CASE Shown(s)' = Shown(s)
        BY <2>2, <3>1, <3>2, <3>3, <4>1 DEF Fresh
      <4>2. CASE t \in Tasks /\ Coming(t) /\ Shown(s)'.conn \in mcpTask[t].pending
        BY <2>2, <3>1, <4>2 DEF Fresh
      <4> QED
        BY <3>3, <4>1, <4>2 DEF Apart
    <3>4. ASSUME NEW v \in Tasks, Coming(v)' PROVE mcpTask'[v].pending \cap mcpTask[u].old = {}
      <4>1. CASE v # t
        BY <2>2, <3>1, <3>4, <4>1 DEF Apart, Fresh, Coming
      <4>2. CASE v = t
        BY <1>1, <2>2, <3>1, <3>4, <4>2 DEF Apart, Fresh
      <4> QED
        BY <4>1, <4>2
    <3> QED
      BY <1>1, <2>2, <3>1, <3>2, <3>3, <3>4 DEF Fresh
  <2> QED
    BY <2>1, <2>2
<1>5. ASSUME u \in Reloads PROVE ReloadHolds(u)'
  <2>1. ReloadHolds(u)
    BY <1>5, McpTyped
  <2>2. ASSUME services'.open, mcpTask[u].pc \in {"closing", "start", "keep"}, NEW i \in services'.kept
        PROVE  conns'[i].server # mcpTask[u].server
    <3>1. CASE i \in services.kept
      <4>1. services.open /\ conns[i].server # mcpTask[u].server /\ i \in DOMAIN conns
        BY <2>1, <2>2, <3>1, McpTyped DEF ReloadHolds, Apart
      <4> QED
        BY <1>2, <4>1
    <3>2. CASE t \in Tasks /\ i \in mcpTask[t].pending
      <4>1. i \in DOMAIN conns /\ conns'[i].server = conns[i].server
        BY <1>2, <3>2, McpTyped
      <4>2. reloadBy = u /\ (mcpTask[u].server \in Deferred => lateBy = u)
        BY <2>1, <2>2 DEF ReloadHolds, Reloading
      <4>3. CASE t \in McpCallers
        <5>1. lateBy = t /\ conns[i].server \in Deferred
          BY <3>2, <4>3, McpTyped DEF CallerHolds
        <5> QED
          BY <4>1, <4>2, <5>1
      <4>4. CASE t \in Reloads
        <5>1. reloadBy = t
          BY <3>2, <4>4, McpTyped DEF ReloadHolds, Reloading
        <5> QED
          BY <4>2, <5>1
      <4> QED
        BY <3>2, <4>3, <4>4 DEF Tasks
    <3> QED
      BY <2>2, <3>1, <3>2 DEF Apart
  <2> QED
    BY <1>1, <1>2, <2>1, <2>2 DEF ReloadHolds, Reloading
<1> QED
  BY <1>3, <1>4, <1>5 DEF Stays

\* What runs does not run twice, and serves what it was approved with.
LEMMA McpKeeps ==
    ASSUME McpInv, NEW t, Apart(t), t \in Tasks => Stays(t)',
           McpTypes', Held', KeptKnown', Once', PinHolds'
    PROVE  McpInv'
<1>1. \A u \in Tasks : Stays(u)'
  BY OthersStay
<1> QED
  BY <1>1 DEF McpInv

\* A step that moves a task, and nothing it or the session holds.
Moves(t) ==
    /\ UNCHANGED <<conf, conns, services, entry, reloaded, late>>
    /\ \E m \in McpTaskSet :
        /\ mcpTask' = [mcpTask EXCEPT ![t] = m] /\ m.pending = mcpTask[t].pending
        /\ m.old \subseteq DOMAIN conns
        /\ m.pending # {} /\ m.pc \in {"keep", "starting"} => Coming(t)
    /\ \A u \in Tasks \ {t} : (lateBy = u => lateBy' = u) /\ (reloadBy = u => reloadBy' = u)

LEMMA MovesKeep ==
    ASSUME McpInv, NEW t \in Tasks, Moves(t), Stays(t)' PROVE McpInv'
<1>1. PICK m \in McpTaskSet :
        /\ mcpTask' = [mcpTask EXCEPT ![t] = m] /\ m.pending = mcpTask[t].pending
        /\ m.old \subseteq DOMAIN conns
        /\ m.pending # {} /\ m.pc \in {"keep", "starting"} => Coming(t)
  BY DEF Moves
<1>2. /\ mcpTask' \in [Tasks -> McpTaskSet] /\ mcpTask'[t] = m
      /\ \A u \in Tasks \ {t} : mcpTask'[u] = mcpTask[u]
      /\ \A u \in Tasks : mcpTask'[u].pending = mcpTask[u].pending
  BY <1>1, McpTyped
<1>3. UNCHANGED conf /\ UNCHANGED conns /\ UNCHANGED services /\ UNCHANGED entry
      /\ UNCHANGED reloaded /\ UNCHANGED late
  BY DEF Moves
<1>4. McpTypes'
  BY <1>1, <1>2, <1>3, McpTyped DEF McpTypes
<1>5. UNCHANGED InHand
  BY <1>2 DEF InHand
<1>6. Held' /\ KeptKnown' /\ Once' /\ PinHolds'
  BY <1>3, <1>5, McpTyped DEF Held, KeptKnown, Once, PinHolds
<1>7. Coming(t)' => \A i \in mcpTask'[t].pending :
        i \notin DOMAIN conns \/ (Coming(t) /\ i \in mcpTask[t].pending)
  BY <1>1, <1>2 DEF Coming
<1>8. \A s \in Configured : Shown(s)' = Shown(s)
  BY <1>3 DEF Shown, Now
<1>9. Apart(t)
  BY <1>2, <1>3, <1>7, <1>8 DEF Apart, Moves
<1> QED
  BY <1>4, <1>6, <1>9, McpKeeps

\* A task that ends holds nothing.
LEMMA EndsStays ==
    ASSUME McpInv, NEW t \in Tasks, Ends(t) PROVE Stays(t)' /\ mcpTask'[t] = NoTask /\ NoTask \in McpTaskSet
<1>1. mcpTask'[t] = NoTask
  BY McpTyped DEF Ends
<1>2. NoTask \in McpTaskSet
  BY DEF NoTask, McpTaskSet, CallPlaces
<1>3. t \in McpCallers => CallerHolds(t)' /\ Fresh(t)'
  BY <1>1 DEF NoTask, CallerHolds, Fresh, CallPlaces
<1>4. t \in Reloads => ReloadHolds(t)'
  BY <1>1 DEF NoTask, ReloadHolds, Reloading, ReloadPlaces
<1> QED
  BY <1>1, <1>2, <1>3, <1>4 DEF Stays

LEMMA EndsMoves ==
    ASSUME McpInv, NEW t \in Tasks, Ends(t), mcpTask[t].pending = {},
           UNCHANGED <<conf, conns, services, entry, reloaded, late>>,
           \A u \in Tasks \ {t} : (lateBy = u => lateBy' = u) /\ (reloadBy = u => reloadBy' = u)
    PROVE  McpInv'
<1>1. Stays(t)' /\ NoTask \in McpTaskSet
  BY EndsStays
<1>2. Moves(t)
  BY <1>1 DEF Moves, Ends, NoTask
<1> QED
  BY <1>1, <1>2, MovesKeep

\* A move of a caller that keeps what it is about.
LEMMA PeerMoves ==
    ASSUME McpInv, NEW c \in McpCallers, NEW m \in McpTaskSet,
           mcpTask' = [mcpTask EXCEPT ![c] = m],
           m.old = mcpTask[c].old, m.pending = {}, mcpTask[c].pending = {}, m.server = mcpTask[c].server,
           m.pc = "calling" \/ (m.pc \in {"started", "foundLate"} /\ mcpTask[c].server \in Deferred),
           m.pc = "calling" => m.conn \notin m.old, mcpTask[c].pc \notin {"idle", "calling"},
           UNCHANGED <<conf, conns, services, entry, reloaded, late, lateBy, reloadBy>>
    PROVE  McpInv'
<1>1. c \in Tasks /\ mcpTask'[c] = m /\ c \notin Reloads /\ CallerHolds(c) /\ Fresh(c)
      /\ mcpTask[c].old \subseteq DOMAIN conns
      /\ \A u \in Tasks \ {c} : mcpTask'[u] = mcpTask[u]
  BY McpTyped
<1>2. UNCHANGED late /\ UNCHANGED lateBy /\ UNCHANGED conns
      /\ UNCHANGED entry /\ UNCHANGED reloaded
  OBVIOUS
<1>3. CallerHolds(c)'
  BY <1>1 DEF CallerHolds, CallPlaces
<1>4. Shown(m.server)' = Shown(m.server)
  BY <1>2 DEF Shown, Now
<1>5. \A t \in Tasks : Coming(t)' => mcpTask'[t].pending \cap m.old = {}
  BY <1>1 DEF Fresh, Coming
<1>6. Fresh(c)'
  BY <1>1, <1>4, <1>5 DEF Fresh
<1>7. Moves(c)
  BY <1>1 DEF Moves
<1> QED
  BY <1>1, <1>3, <1>6, <1>7, MovesKeep DEF Stays

LEMMA CallsToolKept ==
    ASSUME McpInv, NEW c \in McpCallers, mcpTask[c].pc \in {"found", "foundLate"},
           CallsTool(c, Shown(mcpTask[c].server)),
           UNCHANGED <<conf, conns, services, entry, reloaded, late, lateBy, reloadBy>>
    PROVE  McpInv'
<1>1. c \in Tasks /\ CallerHolds(c) /\ Fresh(c) /\ mcpTask[c] \in McpTaskSet
  BY McpTyped
<1>2. mcpTask[c].pending = {}
  BY <1>1 DEF CallerHolds
<1>3. PICK e : e = Shown(mcpTask[c].server)
  OBVIOUS
<1>4. CASE e.state = "up"
  <2>1. PICK m : m = [mcpTask[c] EXCEPT !.pc = "calling", !.conn = e.conn]
    OBVIOUS
  <2>2. e \in EntrySet
    BY <1>1, <1>3, McpTyped DEF Shown, Now, CallerHolds, Configured
  <2>3. m \in McpTaskSet
    BY <1>1, <2>1, <2>2 DEF McpTaskSet, EntrySet, CallPlaces
  <2>4. mcpTask' = [mcpTask EXCEPT ![c] = m]
    BY <1>1, <1>3, <1>4, <2>1, McpTyped DEF CallsTool
  <2>5. m.conn \notin m.old
    BY <1>1, <1>3, <1>4, <2>1 DEF Fresh, McpTaskSet
  <2> QED
    BY <1>1, <1>2, <2>1, <2>3, <2>4, <2>5, PeerMoves DEF McpTaskSet
<1>5. CASE e.state # "up"
  BY <1>1, <1>2, <1>3, <1>5, EndsMoves DEF CallsTool
<1> QED
  BY <1>4, <1>5

LEMMA McpCalls ==
    ASSUME McpInv, NEW c \in McpCallers,
           FindPeer(c) \/ LateTools(c) \/ LatePeer(c) \/ CallReturns(c)
    PROVE  McpInv'
<1>1. c \in Tasks /\ CallerHolds(c) /\ mcpTask[c] \in McpTaskSet
  BY McpTyped
<1>2. CASE FindPeer(c)
  <2>1. Shown(mcpTask[c].server) = Peer(mcpTask[c].server)
    BY <1>1, <1>2 DEF FindPeer, At, Shown, Peer, CallerHolds
  <2> QED
    BY <1>2, <2>1, CallsToolKept DEF FindPeer, At
<1>3. CASE LatePeer(c)
  <2>1. Shown(mcpTask[c].server) = late[mcpTask[c].server]
    BY <1>1, <1>3, McpAssumption DEF LatePeer, At, Shown, CallerHolds
  <2> QED
    BY <1>3, <2>1, CallsToolKept DEF LatePeer, At
<1>4. CASE LateTools(c)
  <2>1. mcpTask[c].pending = {} /\ mcpTask[c].server \in Deferred /\ mcpTask[c].pc = "started"
    BY <1>1, <1>4 DEF LateTools, At, CallerHolds
  <2>2. CASE late[mcpTask[c].server].state = "up"
    <3>1. PICK m : m = [mcpTask[c] EXCEPT !.pc = "foundLate"]
      OBVIOUS
    <3>2. m \in McpTaskSet /\ mcpTask' = [mcpTask EXCEPT ![c] = m]
      BY <1>1, <1>4, <2>2, <3>1, McpTyped DEF McpTaskSet, CallPlaces, LateTools
    <3> QED
      BY <1>1, <1>4, <2>1, <3>1, <3>2, PeerMoves DEF LateTools, McpTaskSet
  <2>3. CASE late[mcpTask[c].server].state # "up"
    BY <1>1, <1>4, <2>1, <2>3, EndsMoves DEF LateTools
  <2> QED
    BY <2>2, <2>3
<1>5. CASE CallReturns(c)
  <2>1. mcpTask[c].pending = {}
    BY <1>1, <1>5 DEF CallReturns, At, CallerHolds
  <2> QED
    BY <1>1, <1>5, <2>1, EndsMoves DEF CallReturns
<1> QED
  BY <1>2, <1>3, <1>4, <1>5

\* What a call that begins must not reach is behind every connection there is to be.
LEMMA SupersededApart ==
    ASSUME McpInv, NEW s \in Configured
    PROVE  /\ Superseded(s) \subseteq DOMAIN conns
           /\ Shown(s).state = "up" => Shown(s).conn \notin Superseded(s)
           /\ \A t \in Tasks : mcpTask[t].pending \cap Superseded(s) = {}
  BY DEF Superseded, Shown

LEMMA McpBegins == ASSUME McpInv, NEW c \in McpCallers, BeginCall(c) PROVE McpInv'
<1>1. c \in Tasks /\ c \notin Reloads /\ CallerHolds(c) /\ mcpTask[c] \in McpTaskSet /\ mcpTask[c].pc = "idle"
  BY McpTyped DEF BeginCall, At
<1>2. PICK s \in ViewOf[c] :
        mcpTask' = [mcpTask EXCEPT ![c].server = s,
               ![c].pc = IF s \in Launched THEN "found" ELSE "late", ![c].old = Superseded(s)]
  BY DEF BeginCall
<1>3. s \in Configured /\ (s \in Launched \/ s \in Deferred)
  BY <1>2, McpAssumption DEF Configured
<1>4. PICK m : m = [mcpTask[c] EXCEPT !.server = s,
               !.pc = IF s \in Launched THEN "found" ELSE "late", !.old = Superseded(s)]
  OBVIOUS
<1>5. m.server = s /\ m.old = Superseded(s) /\ m.pc = (IF s \in Launched THEN "found" ELSE "late")
      /\ m.pending = mcpTask[c].pending
  BY <1>1, <1>4 DEF McpTaskSet
<1>6. mcpTask' = [mcpTask EXCEPT ![c] = m]
  BY <1>1, <1>2, <1>4, McpTyped
<1>7. Superseded(s) \subseteq Nat
  BY <1>3, SupersededApart, McpTyped
<1>8. m \in McpTaskSet
  BY <1>1, <1>3, <1>4, <1>7 DEF McpTaskSet, CallPlaces
<1>9. m.pending = {}
  BY <1>1, <1>5 DEF CallerHolds
<1>10. mcpTask'[c] = m /\ \A u \in Tasks \ {c} : mcpTask'[u] = mcpTask[u]
  BY <1>1, <1>6, McpTyped
<1>11. UNCHANGED <<conf, conns, services, entry, reloaded, late>> /\ UNCHANGED <<lateBy, reloadBy>>
       /\ UNCHANGED entry /\ UNCHANGED reloaded /\ UNCHANGED late
  BY DEF BeginCall
<1>12. CallerHolds(c)'
  BY <1>3, <1>5, <1>9, <1>10 DEF CallerHolds, CallPlaces
<1>13. Shown(s)' = Shown(s)
  BY <1>11 DEF Shown, Now
<1>14. \A t \in Tasks : mcpTask'[t].pending \cap m.old = {}
  BY <1>3, <1>5, <1>9, <1>10, SupersededApart
<1>15. Fresh(c)'
  BY <1>3, <1>5, <1>10, <1>13, <1>14, SupersededApart DEF Fresh
<1>16. Moves(c)
  BY <1>3, <1>5, <1>6, <1>8, <1>9, <1>11, SupersededApart DEF Moves
<1> QED
  BY <1>1, <1>12, <1>15, <1>16, MovesKeep DEF Stays

\* A move of a reload.
LEMMA ReloadMoves ==
    ASSUME McpInv, NEW r \in Reloads, NEW m \in McpTaskSet,
           mcpTask' = [mcpTask EXCEPT ![r] = m], m.old = {}, m.pending = {}, mcpTask[r].pending = {},
           m.pc \in {"reloading", "lock", "close", "start", "keep"}, m.server \in Configured,
           m.pc = "lock" => m.server \in Deferred, m.pc # "reloading" => reloadBy' = r,
           m.pc \in {"close", "start", "keep"} /\ m.server \in Deferred => lateBy' = r,
           services.open /\ m.pc \in {"start", "keep"} =>
               \A i \in services.kept : conns[i].server # m.server,
           UNCHANGED <<conf, conns, services, entry, reloaded, late>>,
           \A u \in Tasks \ {r} : (lateBy = u => lateBy' = u) /\ (reloadBy = u => reloadBy' = u)
    PROVE  McpInv'
<1>1. r \in Tasks /\ r \notin McpCallers /\ mcpTask'[r] = m
  BY McpTyped
<1>2. UNCHANGED conns /\ UNCHANGED services
  OBVIOUS
<1>3. ReloadHolds(r)'
  BY <1>1, <1>2 DEF ReloadHolds, Reloading, ReloadPlaces
<1>4. Moves(r)
  BY <1>1 DEF Moves
<1> QED
  BY <1>1, <1>3, <1>4, MovesKeep DEF Stays

LEMMA McpReloads ==
    ASSUME McpInv, NEW r \in Reloads,
           \/ Reload(r) \/ LockReload(r) \/ LockLate(r)
           \/ (Close(r) /\ ~services.open) \/ (StartAgain(r) /\ mcpTask[r].skip)
    PROVE  McpInv'
<1>1. r \in Tasks /\ ReloadHolds(r) /\ mcpTask[r] \in McpTaskSet /\ mcpTask \in [Tasks -> McpTaskSet]
  BY McpTyped
<1>2. CASE Reload(r)
  <2>1. PICK s \in Configured :
          mcpTask' = [mcpTask EXCEPT ![r].pc = "reloading", ![r].server = s, ![r].skip = Changed(s)]
    BY <1>2 DEF Reload
  <2>2. PICK m : m = [mcpTask[r] EXCEPT !.pc = "reloading", !.server = s, !.skip = Changed(s)]
    OBVIOUS
  <2>3. mcpTask[r].pc = "idle" /\ mcpTask[r].pending = {} /\ mcpTask[r].old = {} /\ Changed(s) \in BOOLEAN
    BY <1>1, <1>2 DEF Reload, At, ReloadHolds, Changed
  <2>4. m \in McpTaskSet /\ m.pc = "reloading" /\ m.server = s /\ m.old = {} /\ m.pending = {}
    BY <1>1, <2>2, <2>3 DEF McpTaskSet, ReloadPlaces
  <2>5. mcpTask' = [mcpTask EXCEPT ![r] = m]
    BY <1>1, <2>1, <2>2
  <2> QED
    BY <1>1, <1>2, <2>3, <2>4, <2>5, ReloadMoves DEF Reload
<1>3. CASE LockReload(r)
  <2>1. PICK m : m = [mcpTask[r] EXCEPT !.pc = IF mcpTask[r].server \in Deferred THEN "lock" ELSE "close"]
    OBVIOUS
  <2>2. /\ mcpTask[r].pc = "reloading" /\ mcpTask[r].pending = {} /\ mcpTask[r].old = {}
        /\ mcpTask[r].server \in Configured /\ reloadBy = "none" /\ reloadBy' = r
    BY <1>1, <1>3 DEF LockReload, At, ReloadHolds
  <2>3. m \in McpTaskSet /\ m.pc = (IF mcpTask[r].server \in Deferred THEN "lock" ELSE "close")
        /\ m.server = mcpTask[r].server /\ m.old = {} /\ m.pending = {}
    BY <1>1, <2>1, <2>2 DEF McpTaskSet, ReloadPlaces
  <2>4. mcpTask' = [mcpTask EXCEPT ![r] = m]
    BY <1>1, <1>3, <2>1 DEF LockReload
  <2>5. UNCHANGED lateBy /\ UNCHANGED <<conf, conns, services, entry, reloaded, late>>
    BY <1>3 DEF LockReload
  <2>6. \A u \in Tasks \ {r} : (lateBy = u => lateBy' = u) /\ (reloadBy = u => reloadBy' = u)
    BY <2>2, <2>5, McpTyped
  <2> QED
    BY <1>1, <2>2, <2>3, <2>4, <2>5, <2>6, ReloadMoves
<1>4. CASE LockLate(r)
  <2>1. PICK m : m = [mcpTask[r] EXCEPT !.pc = "close"]
    OBVIOUS
  <2>2. /\ mcpTask[r].pc = "lock" /\ mcpTask[r].pending = {} /\ mcpTask[r].old = {}
        /\ mcpTask[r].server \in Configured /\ reloadBy = r /\ lateBy = "none" /\ lateBy' = r
    BY <1>1, <1>4 DEF LockLate, At, ReloadHolds
  <2>3. m \in McpTaskSet /\ m.pc = "close" /\ m.server = mcpTask[r].server /\ m.old = {} /\ m.pending = {}
    BY <1>1, <2>1, <2>2 DEF McpTaskSet, ReloadPlaces
  <2>4. mcpTask' = [mcpTask EXCEPT ![r] = m]
    BY <1>1, <1>4, <2>1 DEF LockLate
  <2>5. UNCHANGED reloadBy /\ UNCHANGED <<conf, conns, services, entry, reloaded, late>>
    BY <1>4 DEF LockLate
  <2>6. \A u \in Tasks \ {r} : (lateBy = u => lateBy' = u) /\ (reloadBy = u => reloadBy' = u)
    BY <2>2, <2>5, McpTyped
  <2> QED
    BY <1>1, <2>2, <2>3, <2>4, <2>5, <2>6, ReloadMoves
<1>5. CASE Close(r) /\ ~services.open
  <2>1. PICK m : m = [mcpTask[r] EXCEPT !.pc = "start"]
    OBVIOUS
  <2>2. /\ mcpTask[r].pc = "close" /\ mcpTask[r].pending = {} /\ mcpTask[r].old = {}
        /\ mcpTask[r].server \in Configured /\ reloadBy = r
        /\ mcpTask[r].server \in Deferred => lateBy = r
    BY <1>1, <1>5 DEF Close, At, ReloadHolds, Reloading
  <2>3. m \in McpTaskSet /\ m.pc = "start" /\ m.server = mcpTask[r].server /\ m.old = {} /\ m.pending = {}
    BY <1>1, <2>1, <2>2 DEF McpTaskSet, ReloadPlaces
  <2>4. mcpTask' = [mcpTask EXCEPT ![r] = m]
    BY <1>1, <1>5, <2>1 DEF Close
  <2>5. UNCHANGED reloadBy /\ UNCHANGED lateBy /\ UNCHANGED <<conf, conns, services, entry, reloaded, late>>
    BY <1>5 DEF Close
  <2> QED
    BY <1>1, <1>5, <2>2, <2>3, <2>4, <2>5, ReloadMoves
<1>6. CASE StartAgain(r) /\ mcpTask[r].skip
  <2>1. PICK m : m = [mcpTask[r] EXCEPT !.pc = "keep"]
    OBVIOUS
  <2>2. /\ mcpTask[r].pc = "start" /\ mcpTask[r].pending = {} /\ mcpTask[r].old = {}
        /\ mcpTask[r].server \in Configured /\ reloadBy = r
        /\ mcpTask[r].server \in Deferred => lateBy = r
        /\ services.open => \A i \in services.kept : conns[i].server # mcpTask[r].server
    BY <1>1, <1>6 DEF StartAgain, At, ReloadHolds, Reloading
  <2>3. m \in McpTaskSet /\ m.pc = "keep" /\ m.server = mcpTask[r].server /\ m.old = {} /\ m.pending = {}
    BY <1>1, <2>1, <2>2 DEF McpTaskSet, ReloadPlaces
  <2>4. mcpTask' = [mcpTask EXCEPT ![r] = m]
    BY <1>1, <1>6, <2>1 DEF StartAgain
  <2>5. UNCHANGED reloadBy /\ UNCHANGED lateBy /\ UNCHANGED <<conf, conns, services, entry, reloaded, late>>
    BY <1>6 DEF StartAgain
  <2> QED
    BY <1>1, <2>2, <2>3, <2>4, <2>5, ReloadMoves
<1> QED
  BY <1>2, <1>3, <1>4, <1>5, <1>6

\* A server's start: nothing of it runs, as far as the session is open, and its task holds it.
Launches(t, s) ==
    /\ conns' = Append(conns, NewConn(s, "starting"))
    /\ services.open => \A i \in DOMAIN conns : conns[i].live # "dead" => conns[i].server # s
    /\ UNCHANGED <<conf, services, entry, reloaded, late>>
    /\ \E m \in McpTaskSet :
        /\ mcpTask' = [mcpTask EXCEPT ![t] = m] /\ m.old = mcpTask[t].old
        /\ m.pending = mcpTask[t].pending \cup {Len(conns) + 1}
    /\ mcpTask[t].pending # {} => Coming(t)
    /\ \A u \in Tasks \ {t} : (lateBy = u => lateBy' = u) /\ (reloadBy = u => reloadBy' = u)

LEMMA OneMore ==
    ASSUME McpInv, NEW t \in Tasks, NEW s \in Configured, Launches(t, s)
    PROVE  /\ conns' \in Seq(ConnSet) /\ DOMAIN conns' = DOMAIN conns \cup {Len(conns) + 1}
           /\ Len(conns) + 1 \notin DOMAIN conns /\ Len(conns) + 1 \in Nat
           /\ \A i \in DOMAIN conns : conns'[i] = conns[i]
           /\ conns'[Len(conns) + 1].server = s /\ conns'[Len(conns) + 1].live = "starting"
<1>1. conns \in Seq(ConnSet) /\ NewConn(s, "starting") \in ConnSet /\ Len(conns) \in Nat
      /\ DOMAIN conns = 1 .. Len(conns)
  BY McpTyped DEF NewConn, ConnSet, ConfSet
<1>2. conns' = Append(conns, NewConn(s, "starting"))
  BY DEF Launches
<1>3. /\ conns' \in Seq(ConnSet) /\ Len(conns') = Len(conns) + 1
      /\ \A i \in 1 .. Len(conns) : conns'[i] = conns[i]
      /\ conns'[Len(conns) + 1] = NewConn(s, "starting")
  BY <1>1, <1>2, AppendProperties
<1>4. DOMAIN conns' = 1 .. Len(conns) + 1
  BY <1>3
<1> QED
  BY <1>1, <1>3, <1>4 DEF NewConn

LEMMA LaunchesKeep ==
    ASSUME McpInv, NEW t \in Tasks, NEW s \in Configured, Launches(t, s), Stays(t)' PROVE McpInv'
<1>1. PICK n : n = Len(conns) + 1
  OBVIOUS
<1>2. /\ conns' \in Seq(ConnSet) /\ DOMAIN conns' = DOMAIN conns \cup {n} /\ n \notin DOMAIN conns
      /\ n \in Nat /\ \A i \in DOMAIN conns : conns'[i] = conns[i]
      /\ conns'[n].server = s /\ conns'[n].live = "starting"
  BY <1>1, OneMore
<1>3. PICK m \in McpTaskSet :
        /\ mcpTask' = [mcpTask EXCEPT ![t] = m] /\ m.old = mcpTask[t].old
        /\ m.pending = mcpTask[t].pending \cup {n}
  BY <1>1 DEF Launches
<1>4. /\ mcpTask' \in [Tasks -> McpTaskSet] /\ mcpTask'[t] = m
      /\ \A u \in Tasks \ {t} : mcpTask'[u] = mcpTask[u]
  BY <1>3, McpTyped
<1>5. UNCHANGED conf /\ UNCHANGED services /\ UNCHANGED entry /\ UNCHANGED reloaded /\ UNCHANGED late
  BY DEF Launches
<1>6. McpTypes'
  <2>1. services' \in [open : BOOLEAN, kept : SUBSET (DOMAIN conns')]
    BY <1>2, <1>5, McpTyped
  <2>2. \A u \in Tasks : mcpTask'[u].pending \subseteq DOMAIN conns' /\ mcpTask'[u].old \subseteq DOMAIN conns'
    BY <1>2, <1>3, <1>4, McpTyped
  <2> QED
    BY <1>2, <1>4, <1>5, <2>1, <2>2, McpTyped DEF McpTypes
<1>7. \A i \in InHand \cup {n} : i \in InHand'
  <2>1. \A u \in Tasks : mcpTask[u].pending \subseteq mcpTask'[u].pending
    BY <1>3, <1>4
  <2>2. n \in mcpTask'[t].pending
    BY <1>3, <1>4
  <2> QED
    BY <2>1, <2>2 DEF InHand
<1>8. Held'
  BY <1>2, <1>5, <1>7, McpTyped DEF Held
<1>9. KeptKnown'
  BY <1>2, <1>5, McpTyped DEF KeptKnown
<1>10. Once'
  <2>1. services.open => \A i \in DOMAIN conns : conns[i].live # "dead" => conns[i].server # s
    BY DEF Launches
  <2> QED
    BY <1>2, <1>5, <2>1, McpTyped DEF Once
<1>11. PinHolds'
  BY <1>2, <1>5, McpTyped DEF PinHolds
<1>12. \A i \in mcpTask'[t].pending : i \notin DOMAIN conns \/ (Coming(t) /\ i \in mcpTask[t].pending)
  BY <1>2, <1>3, <1>4 DEF Launches
<1>13. \A u \in Configured : Shown(u)' = Shown(u)
  BY <1>5 DEF Shown, Now
<1>14. \A u \in Tasks \ {t} : (lateBy = u => lateBy' = u) /\ (reloadBy = u => reloadBy' = u)
  BY DEF Launches
<1>15. Apart(t)
  BY <1>2, <1>4, <1>5, <1>12, <1>13, <1>14 DEF Apart
<1> QED
  BY <1>6, <1>8, <1>9, <1>10, <1>11, <1>15, McpKeeps

\* Who holds late's lock is the only one with a deferred server in hand.
LEMMA LateAlone ==
    ASSUME McpInv, NEW i \in DOMAIN conns, conns[i].server \in Deferred,
           late[conns[i].server] = NoEntry, conns[i].live # "dead"
    PROVE  \E t \in Tasks : lateBy = t /\ i \in mcpTask[t].pending
<1>1. i \notin services.kept
  BY McpTyped DEF KeptKnown
<1>2. PICK t \in Tasks : i \in mcpTask[t].pending
  BY <1>1, McpTyped DEF Held, InHand
<1>3. CASE t \in McpCallers
  BY <1>2, <1>3, McpTyped DEF CallerHolds
<1>4. CASE t \in Reloads
  BY <1>2, <1>4, McpTyped DEF ReloadHolds, Reloading
<1> QED
  BY <1>2, <1>3, <1>4 DEF Tasks

\* A start by a caller.
LEMMA CallerStarts ==
    ASSUME McpInv, NEW c \in McpCallers, NEW s \in Pending(c), lateBy \in {"none", c}, lateBy' = c,
           Spawns(s), UNCHANGED <<conf, services, entry, reloaded, late, reloadBy>>,
           NEW m \in McpTaskSet, mcpTask' = [mcpTask EXCEPT ![c] = m],
           m = [mcpTask[c] EXCEPT !.pc = "starting", !.pending = @ \cup {Len(conns) + 1}],
           mcpTask[c].pc \in {"late", "starting"}, \A i \in mcpTask[c].pending : conns[i].server # s
    PROVE  McpInv'
<1>1. c \in Tasks /\ c \notin Reloads /\ CallerHolds(c) /\ Fresh(c) /\ mcpTask[c] \in McpTaskSet
      /\ mcpTask[c].old \subseteq DOMAIN conns
  BY McpTyped
<1>2. s \in Configured /\ s \in Deferred /\ late[s] = NoEntry
  BY DEF Pending, Configured
<1>3. \A i \in DOMAIN conns : conns[i].live # "dead" => conns[i].server # s
  BY <1>2, LateAlone, McpTyped
<1>4. /\ m.pc = "starting" /\ m.pending = mcpTask[c].pending \cup {Len(conns) + 1}
      /\ m.old = mcpTask[c].old /\ m.server = mcpTask[c].server
  BY <1>1 DEF McpTaskSet
<1>5. mcpTask[c].pending # {} => Coming(c)
  BY <1>1 DEF CallerHolds, Coming
<1>6. Launches(c, s)
  <2>1. \A u \in Tasks \ {c} : (lateBy = u => lateBy' = u) /\ (reloadBy = u => reloadBy' = u)
    BY McpTyped
  <2>2. conns' = Append(conns, NewConn(s, "starting"))
    BY DEF Spawns
  <2>3. UNCHANGED <<conf, services, entry, reloaded, late>>
    OBVIOUS
  <2> QED
    BY <1>3, <1>4, <1>5, <2>1, <2>2, <2>3 DEF Launches
<1>7. /\ mcpTask'[c] = m /\ \A u \in Tasks \ {c} : mcpTask'[u] = mcpTask[u]
  BY <1>1, McpTyped
<1>8. /\ Len(conns) + 1 \notin DOMAIN conns /\ \A i \in DOMAIN conns : conns'[i] = conns[i]
      /\ conns'[Len(conns) + 1].server = s
  BY <1>1, <1>2, <1>6, OneMore
<1>9. CallerHolds(c)'
  <2>1. \A i \in m.pending : conns'[i].server \in Deferred /\ late[conns'[i].server] = NoEntry
    BY <1>1, <1>2, <1>4, <1>8, McpTyped DEF CallerHolds
  <2>2. m.server \in Configured /\ m.server \in Deferred
    BY <1>1, <1>4 DEF CallerHolds
  <2> QED
    BY <1>4, <1>7, <2>1, <2>2 DEF CallerHolds, CallPlaces
<1>10. Fresh(c)'
  <2>1. \A t \in Tasks : Coming(t)' => mcpTask'[t].pending \cap m.old = {}
    BY <1>1, <1>4, <1>5, <1>7, <1>8 DEF Fresh, Coming
  <2>2. UNCHANGED entry /\ UNCHANGED reloaded /\ UNCHANGED late
    OBVIOUS
  <2>3. Shown(m.server)' = Shown(m.server)
    BY <2>2 DEF Shown, Now
  <2> QED
    BY <1>1, <1>4, <1>7, <2>1, <2>3 DEF Fresh
<1> QED
  BY <1>1, <1>2, <1>6, <1>9, <1>10, LaunchesKeep DEF Stays

LEMMA McpCallerStarts ==
    ASSUME McpInv, NEW c \in McpCallers, StartDeferred(c) \/ StartsMore(c) PROVE McpInv'
<1>1. c \in Tasks /\ c \notin Reloads /\ CallerHolds(c) /\ mcpTask[c] \in McpTaskSet
      /\ mcpTask \in [Tasks -> McpTaskSet] /\ Len(conns) + 1 \in Nat
      /\ mcpTask[c].pending \subseteq DOMAIN conns
  BY McpTyped
<1>2. CASE StartDeferred(c) /\ Pending(c) = {}
  <2>1. PICK m : m = [mcpTask[c] EXCEPT !.pc = "started"]
    OBVIOUS
  <2>2. mcpTask[c].pc = "late" /\ mcpTask[c].pending = {} /\ mcpTask[c].server \in Deferred
    BY <1>1, <1>2 DEF StartDeferred, At, CallerHolds
  <2>3. m \in McpTaskSet /\ mcpTask' = [mcpTask EXCEPT ![c] = m]
    BY <1>1, <1>2, <2>1 DEF McpTaskSet, CallPlaces, StartDeferred
  <2>4. m.pc = "started" /\ m.old = mcpTask[c].old /\ m.pending = {} /\ m.server = mcpTask[c].server
    BY <1>1, <2>1, <2>2 DEF McpTaskSet
  <2>5. UNCHANGED <<conf, conns, services, entry, reloaded, late, lateBy, reloadBy>>
    BY <1>2 DEF StartDeferred
  <2> QED
    BY <2>2, <2>3, <2>4, <2>5, PeerMoves
<1>3. CASE StartDeferred(c) /\ Pending(c) # {}
  <2>1. PICK s \in Pending(c) :
            /\ Spawns(s) /\ lateBy' = c
            /\ mcpTask' = [mcpTask EXCEPT ![c].pc = "starting", ![c].pending = {Len(conns) + 1}]
    BY <1>3 DEF StartDeferred
  <2>2. mcpTask[c].pc = "late" /\ mcpTask[c].pending = {} /\ lateBy = "none"
    BY <1>1, <1>3 DEF StartDeferred, At, CallerHolds
  <2>3. PICK m : m = [mcpTask[c] EXCEPT !.pc = "starting", !.pending = @ \cup {Len(conns) + 1}]
    OBVIOUS
  <2>4. m \in McpTaskSet
    BY <1>1, <2>2, <2>3 DEF McpTaskSet, CallPlaces
  <2>5. m = [mcpTask[c] EXCEPT !.pc = "starting", !.pending = {Len(conns) + 1}]
    BY <1>1, <2>2, <2>3 DEF McpTaskSet
  <2>6. mcpTask' = [mcpTask EXCEPT ![c] = m]
    BY <1>1, <2>1, <2>5
  <2>7. UNCHANGED <<conf, services, entry, reloaded, late, reloadBy>>
    BY <1>3 DEF StartDeferred
  <2> QED
    BY <2>1, <2>2, <2>3, <2>4, <2>6, <2>7, CallerStarts
<1>4. CASE StartsMore(c)
  <2>1. PICK s \in Pending(c) :
            /\ s \notin {conns[i].server : i \in Started(c)} /\ Spawns(s)
            /\ mcpTask' = [mcpTask EXCEPT ![c].pending = @ \cup {Len(conns) + 1}]
    BY <1>4 DEF StartsMore
  <2>2. mcpTask[c].pc = "starting" /\ lateBy = c /\ lateBy' = c
    BY <1>1, <1>4 DEF StartsMore, At, CallerHolds
  <2>3. \A i \in mcpTask[c].pending : conns[i].server # s
    BY <1>1, <2>1 DEF Started
  <2>4. PICK m : m = [mcpTask[c] EXCEPT !.pc = "starting", !.pending = @ \cup {Len(conns) + 1}]
    OBVIOUS
  <2>5. m \in McpTaskSet
    <3>1. mcpTask[c].pending \cup {Len(conns) + 1} \in SUBSET Nat
      BY <1>1 DEF McpTaskSet
    <3> QED
      BY <1>1, <2>4, <3>1 DEF McpTaskSet, CallPlaces
  <2>6. m = [mcpTask[c] EXCEPT !.pending = @ \cup {Len(conns) + 1}]
    BY <1>1, <2>2, <2>4 DEF McpTaskSet
  <2>7. mcpTask' = [mcpTask EXCEPT ![c] = m]
    BY <1>1, <2>1, <2>6
  <2>8. UNCHANGED <<conf, services, entry, reloaded, late, reloadBy>>
    BY <1>4 DEF StartsMore
  <2>9. lateBy \in {"none", c} /\ mcpTask[c].pc \in {"late", "starting"} /\ Spawns(s)
    BY <2>1, <2>2
  <2>10. lateBy' = c
    BY <2>2
  <2> QED
    BY <2>3, <2>4, <2>5, <2>7, <2>8, <2>9, <2>10, CallerStarts
<1> QED
  BY <1>2, <1>3, <1>4

\* Whoever reloads a server is the only one to have a connection to it in hand.
LEMMA ReloadAlone ==
    ASSUME McpInv, NEW r \in Reloads, Reloading(r), NEW t \in Tasks, t # r,
           NEW i \in mcpTask[t].pending
    PROVE  conns[i].server # mcpTask[r].server
<1>1. reloadBy = r /\ (mcpTask[r].server \in Deferred => lateBy = r)
  BY McpTyped DEF ReloadHolds
<1>2. CASE t \in McpCallers
  BY <1>1, <1>2, McpTyped DEF CallerHolds
<1>3. CASE t \in Reloads
  BY <1>1, <1>3, McpTyped DEF ReloadHolds, Reloading
<1> QED
  BY <1>2, <1>3 DEF Tasks

LEMMA McpStartsAgain ==
    ASSUME McpInv, NEW r \in Reloads, StartAgain(r), ~mcpTask[r].skip PROVE McpInv'
<1>1. r \in Tasks /\ r \notin McpCallers /\ ReloadHolds(r) /\ mcpTask[r] \in McpTaskSet
      /\ mcpTask \in [Tasks -> McpTaskSet] /\ Len(conns) + 1 \in Nat
  BY McpTyped
<1>2. mcpTask[r].pc = "start" /\ Reloading(r) /\ mcpTask[r].pending = {} /\ mcpTask[r].old = {}
      /\ mcpTask[r].server \in Configured
  BY <1>1 DEF StartAgain, At, Reloading, ReloadHolds
<1>3. PICK s \in Configured : s = mcpTask[r].server
  BY <1>2
<1>4. services.open => \A i \in DOMAIN conns : conns[i].live # "dead" => conns[i].server # s
  <2> SUFFICES ASSUME services.open, NEW i \in DOMAIN conns, conns[i].live # "dead", conns[i].server = s
               PROVE  FALSE
    OBVIOUS
  <2>1. i \notin services.kept
    BY <1>1, <1>2, <1>3 DEF ReloadHolds
  <2>2. PICK t \in Tasks : i \in mcpTask[t].pending
    BY <2>1, McpTyped DEF Held, InHand
  <2> QED
    BY <1>2, <1>3, <2>2, ReloadAlone
<1>5. PICK m : m = [mcpTask[r] EXCEPT !.pc = "keep", !.pending = {Len(conns) + 1}]
  OBVIOUS
<1>6. m \in McpTaskSet /\ m.pc = "keep" /\ m.pending = {Len(conns) + 1} /\ m.old = {} /\ m.server = s
  BY <1>1, <1>2, <1>3, <1>5 DEF McpTaskSet, ReloadPlaces
<1>7. mcpTask' = [mcpTask EXCEPT ![r] = m] /\ mcpTask'[r] = m
  BY <1>1, <1>5 DEF StartAgain
<1>8. UNCHANGED <<conf, services, entry, reloaded, late>> /\ UNCHANGED lateBy /\ UNCHANGED reloadBy
      /\ UNCHANGED services
  BY DEF StartAgain
<1>9. Launches(r, s)
  <2>1. conns' = Append(conns, NewConn(s, "starting"))
    BY <1>3 DEF StartAgain, Spawns
  <2>2. \A u \in Tasks \ {r} : (lateBy = u => lateBy' = u) /\ (reloadBy = u => reloadBy' = u)
    BY <1>8
  <2> QED
    BY <1>2, <1>4, <1>6, <1>7, <1>8, <2>1, <2>2 DEF Launches
<1>10. \A i \in DOMAIN conns : conns'[i] = conns[i]
  BY <1>1, <1>3, <1>9, OneMore
<1>11. conns'[Len(conns) + 1].server = s
  BY <1>1, <1>3, <1>9, OneMore
<1>12. ReloadHolds(r)'
  <2>1. services.open => \A i \in services.kept : conns'[i].server # s
    BY <1>1, <1>2, <1>3, <1>10, McpTyped DEF ReloadHolds
  <2>2. reloadBy = r /\ (s \in Deferred => lateBy = r)
    BY <1>1, <1>2, <1>3 DEF ReloadHolds
  <2> QED
    BY <1>6, <1>7, <1>8, <1>11, <2>1, <2>2 DEF ReloadHolds, Reloading, ReloadPlaces
<1> QED
  BY <1>1, <1>3, <1>9, <1>12, LaunchesKeep DEF Stays

\* Connections that end: they are the same otherwise.
Ending(is) ==
    conns' = [i \in DOMAIN conns |-> [conns[i] EXCEPT !.live = IF i \in is THEN "dead" ELSE @]]

LEMMA EndingKeeps ==
    ASSUME McpInv, NEW is, Ending(is)
    PROVE  /\ conns' \in Seq(ConnSet) /\ DOMAIN conns' = DOMAIN conns
           /\ \A i \in DOMAIN conns :
                /\ conns'[i].server = conns[i].server /\ conns'[i].catalog = conns[i].catalog
                /\ i \in is => conns'[i].live = "dead"
                /\ i \notin is => conns'[i].live = conns[i].live
<1>1. /\ conns \in Seq(ConnSet) /\ DOMAIN conns = 1 .. Len(conns) /\ Len(conns) \in Nat
      /\ \A i \in DOMAIN conns : conns[i] \in ConnSet
  BY McpTyped
<1>2. DOMAIN conns' = DOMAIN conns /\ conns' = [i \in 1 .. Len(conns) |-> conns'[i]]
  BY <1>1 DEF Ending
<1>3. ASSUME NEW i \in DOMAIN conns
      PROVE  /\ conns'[i] \in ConnSet
             /\ conns'[i].server = conns[i].server /\ conns'[i].catalog = conns[i].catalog
             /\ i \in is => conns'[i].live = "dead"
             /\ i \notin is => conns'[i].live = conns[i].live
  <2>1. conns'[i] = [conns[i] EXCEPT !.live = IF i \in is THEN "dead" ELSE @]
    BY DEF Ending
  <2>2. conns[i] \in ConnSet
    BY <1>1
  <2> QED
    BY <2>1, <2>2 DEF ConnSet
<1>4. conns' \in Seq(ConnSet)
  BY <1>1, <1>2, <1>3
<1> QED
  BY <1>2, <1>3, <1>4

LEMMA EndingHolds ==
    ASSUME McpInv, NEW is, Ending(is), UNCHANGED conf, services'.open => services.open
    PROVE  Once' /\ PinHolds'
<1>1. Once'
  BY EndingKeeps, McpTyped DEF Once
<1>2. PinHolds'
  BY EndingKeeps, McpTyped DEF PinHolds
<1> QED
  BY <1>1, <1>2

\* A task drops what it holds.
LEMMA DropsKeep ==
    ASSUME McpInv, NEW t \in Tasks, Ending(mcpTask[t].pending),
           UNCHANGED <<conf, services, entry, reloaded, late>>,
           NEW m \in McpTaskSet, mcpTask' = [mcpTask EXCEPT ![t] = m], m.pending = {},
           m.old = {}, Stays(t)',
           \A u \in Tasks \ {t} : (lateBy = u => lateBy' = u) /\ (reloadBy = u => reloadBy' = u)
    PROVE  McpInv'
<1>1. UNCHANGED conf /\ UNCHANGED services /\ UNCHANGED entry /\ UNCHANGED reloaded /\ UNCHANGED late
  OBVIOUS
<1>2. /\ mcpTask' \in [Tasks -> McpTaskSet] /\ mcpTask'[t] = m
      /\ \A u \in Tasks \ {t} : mcpTask'[u] = mcpTask[u]
  BY McpTyped
<1>3. conns' \in Seq(ConnSet) /\ DOMAIN conns' = DOMAIN conns
  BY EndingKeeps
<1>4. McpTypes'
  BY <1>1, <1>2, <1>3, McpTyped DEF McpTypes
<1>5. Held'
  <2> SUFFICES ASSUME NEW i \in DOMAIN conns, conns'[i].live # "dead"
               PROVE  i \in services.kept \cup InHand'
    BY <1>1, <1>3 DEF Held
  <2>1. i \notin mcpTask[t].pending /\ conns[i].live # "dead"
    BY EndingKeeps
  <2>2. i \in services.kept \/ \E u \in Tasks : i \in mcpTask[u].pending
    BY <2>1, McpTyped DEF Held, InHand
  <2> QED
    BY <1>2, <2>1, <2>2 DEF InHand
<1>6. KeptKnown'
  BY <1>1, EndingKeeps, McpTyped DEF KeptKnown
<1>7. Once' /\ PinHolds'
  BY <1>1, EndingHolds
<1>8. \A s \in Configured : Shown(s)' = Shown(s)
  BY <1>1 DEF Shown, Now
<1>9. \A i \in DOMAIN conns : conns'[i].server = conns[i].server
  BY EndingKeeps
<1>10. Apart(t)
  BY <1>1, <1>2, <1>3, <1>8, <1>9 DEF Apart
<1> QED
  BY <1>4, <1>5, <1>6, <1>7, <1>10, McpKeeps

LEMMA McpAbandons == ASSUME McpInv, NEW c \in McpCallers, AbandonsStart(c) PROVE McpInv'
<1>1. c \in Tasks /\ c \notin Reloads /\ mcpTask[c].pending \subseteq DOMAIN conns
  BY McpTyped
<1>2. Stays(c)' /\ NoTask \in McpTaskSet
  BY <1>1, EndsStays DEF AbandonsStart
<1>3. Started(c) = mcpTask[c].pending
  BY <1>1 DEF Started
<1>4. Ending(mcpTask[c].pending)
  BY <1>3 DEF Ending, AbandonsStart
<1>5. \A u \in Tasks \ {c} : (lateBy = u => lateBy' = u) /\ (reloadBy = u => reloadBy' = u)
  BY DEF AbandonsStart
<1>6. UNCHANGED <<conf, services, entry, reloaded, late>> /\ mcpTask' = [mcpTask EXCEPT ![c] = NoTask]
  BY DEF AbandonsStart, Ends
<1>7. NoTask.pending = {} /\ NoTask.old = {}
  BY DEF NoTask
<1> QED
  BY <1>1, <1>2, <1>4, <1>5, <1>6, <1>7, DropsKeep

LEMMA McpCloses ==
    ASSUME McpInv, NEW r \in Reloads, Closed(r) PROVE McpInv'
<1>1. r \in Tasks /\ r \notin McpCallers /\ ReloadHolds(r) /\ mcpTask[r] \in McpTaskSet
      /\ mcpTask \in [Tasks -> McpTaskSet]
  BY McpTyped
<1>2. /\ mcpTask[r].pc = "closing" /\ mcpTask[r].old = {} /\ mcpTask[r].server \in Configured
      /\ reloadBy = r /\ (mcpTask[r].server \in Deferred => lateBy = r)
      /\ services.open => \A i \in services.kept : conns[i].server # mcpTask[r].server
  BY <1>1 DEF Closed, At, ReloadHolds, Reloading
<1>3. PICK m : m = [mcpTask[r] EXCEPT !.pc = "start", !.pending = {}]
  OBVIOUS
<1>4. m \in McpTaskSet /\ m.pc = "start" /\ m.pending = {} /\ m.old = {} /\ m.server = mcpTask[r].server
  BY <1>1, <1>2, <1>3 DEF McpTaskSet, ReloadPlaces
<1>5. mcpTask' = [mcpTask EXCEPT ![r] = m] /\ mcpTask'[r] = m
  BY <1>1, <1>3 DEF Closed
<1>6. UNCHANGED <<conf, services, entry, reloaded, late>> /\ UNCHANGED lateBy /\ UNCHANGED reloadBy
      /\ UNCHANGED services
  BY DEF Closed
<1>7. Ending(mcpTask[r].pending)
  BY DEF Closed, Ending
<1>8. services.open => \A i \in services.kept : conns'[i].server # m.server
  BY <1>2, <1>4, <1>7, EndingKeeps, McpTyped
<1>9. ReloadHolds(r)'
  BY <1>2, <1>4, <1>5, <1>6, <1>8 DEF ReloadHolds, Reloading, ReloadPlaces
<1>10. \A u \in Tasks \ {r} : (lateBy = u => lateBy' = u) /\ (reloadBy = u => reloadBy' = u)
  BY <1>6
<1> QED
  BY <1>1, <1>4, <1>5, <1>6, <1>7, <1>9, <1>10, DropsKeep DEF Stays

\* What came up is kept, or dropped if the session is closing.
LEMMA KeepsOrEnds ==
    ASSUME McpInv, NEW is \in SUBSET DOMAIN conns, Keeps(is), UNCHANGED conf
    PROVE  /\ conns' \in Seq(ConnSet) /\ DOMAIN conns' = DOMAIN conns
           /\ \A i \in DOMAIN conns :
                /\ conns'[i].server = conns[i].server
                /\ conns'[i].live # "dead" => conns[i].live # "dead"
                /\ conns'[i].live # "dead" /\ i \in is => i \in services'.kept
           /\ services' \in [open : BOOLEAN, kept : SUBSET (DOMAIN conns)]
           /\ services'.open = services.open
           /\ services.kept \subseteq services'.kept /\ services'.kept \subseteq services.kept \cup is
           /\ Once' /\ PinHolds'
<1>1. CASE services.open
  <2>1. services' = [services EXCEPT !.kept = @ \cup is] /\ UNCHANGED conns
    BY <1>1 DEF Keeps
  <2>2. services' = [open |-> services.open, kept |-> services.kept \cup is]
    BY <2>1, McpTyped
  <2>3. Once' /\ PinHolds'
    BY <1>1, <2>1, <2>2, McpTyped DEF Once, PinHolds
  <2> QED
    BY <2>1, <2>2, <2>3, McpTyped
<1>2. CASE ~services.open
  <2>1. Ending(is) /\ UNCHANGED services
    BY <1>2 DEF Keeps, Ending
  <2>2. Once' /\ PinHolds'
    BY <2>1, EndingHolds
  <2>3. services' \in [open : BOOLEAN, kept : SUBSET (DOMAIN conns)]
    BY <2>1, McpTyped DEF McpTypes
  <2> QED
    BY <2>1, <2>2, <2>3, EndingKeeps
<1> QED
  BY <1>1, <1>2, McpTyped

\* The end of a start.
StartEnds(t) ==
    /\ Coming(t) /\ Settled(t) /\ Keeps({i \in Started(t) : conns[i].live = "up"})
    /\ UNCHANGED conf /\ UNCHANGED entry
    /\ reloaded' \in [Launched -> EntrySet] /\ late' \in [Deferred -> EntrySet]
    /\ late' = late \/ lateBy = t
    /\ \A s \in Deferred : late[s] # NoEntry => late'[s] # NoEntry
    /\ \A i \in mcpTask[t].pending : conns[i].server \in Deferred => late'[conns[i].server] # NoEntry
    /\ \A s \in Configured : Shown(s)' = Shown(s) \/ Shown(s)'.state # "up"
          \/ Shown(s)'.conn \in mcpTask[t].pending
    /\ \E m \in McpTaskSet :
        mcpTask' = [mcpTask EXCEPT ![t] = m] /\ m.pending = {} /\ m.old \subseteq mcpTask[t].old
    /\ \A u \in Tasks \ {t} : (lateBy = u => lateBy' = u) /\ (reloadBy = u => reloadBy' = u)

LEMMA StartEndsKeeps ==
    ASSUME McpInv, NEW t \in Tasks, StartEnds(t), Stays(t)' PROVE McpInv'
<1>1. PICK m \in McpTaskSet :
        mcpTask' = [mcpTask EXCEPT ![t] = m] /\ m.pending = {} /\ m.old \subseteq mcpTask[t].old
  BY DEF StartEnds
<1>2. /\ mcpTask' \in [Tasks -> McpTaskSet] /\ mcpTask'[t] = m
      /\ \A u \in Tasks \ {t} : mcpTask'[u] = mcpTask[u]
  BY <1>1, McpTyped
<1>3. PICK is \in SUBSET DOMAIN conns : is = {i \in Started(t) : conns[i].live = "up"}
  BY DEF Started
<1>4. Keeps(is) /\ UNCHANGED conf /\ UNCHANGED entry
  BY <1>3 DEF StartEnds
<1>5. /\ conns' \in Seq(ConnSet) /\ DOMAIN conns' = DOMAIN conns
      /\ \A i \in DOMAIN conns :
                /\ conns'[i].server = conns[i].server
                /\ conns'[i].live # "dead" => conns[i].live # "dead"
                /\ conns'[i].live # "dead" /\ i \in is => i \in services'.kept
      /\ services' \in [open : BOOLEAN, kept : SUBSET (DOMAIN conns)]
      /\ services'.open = services.open
      /\ services.kept \subseteq services'.kept /\ services'.kept \subseteq services.kept \cup is
      /\ Once' /\ PinHolds'
  BY <1>4, KeepsOrEnds
<1>6. \A i \in mcpTask[t].pending : i \in DOMAIN conns /\ (i \in is \/ conns[i].live = "dead")
  <2>1. \A i \in mcpTask[t].pending : i \in Started(t) /\ i \in DOMAIN conns /\ conns[i].live # "starting"
    BY McpTyped DEF StartEnds, Settled, Started
  <2>2. \A i \in DOMAIN conns : conns[i].live \in {"starting", "up", "dead"}
    BY McpTyped DEF ConnSet
  <2> QED
    BY <1>3, <2>1, <2>2
<1>7. is \subseteq mcpTask[t].pending
  BY <1>3 DEF Started
<1>8. McpTypes'
  <2>1. \A u \in Tasks : mcpTask'[u].pending \subseteq DOMAIN conns' /\ mcpTask'[u].old \subseteq DOMAIN conns'
    BY <1>1, <1>2, <1>5, McpTyped
  <2>2. reloaded' \in [Launched -> EntrySet] /\ late' \in [Deferred -> EntrySet]
    BY DEF StartEnds
  <2> QED
    BY <1>2, <1>4, <1>5, <2>1, <2>2, McpTyped DEF McpTypes
<1>9. Held'
  <2> SUFFICES ASSUME NEW i \in DOMAIN conns, conns'[i].live # "dead"
               PROVE  i \in services'.kept \cup InHand'
    BY <1>5 DEF Held
  <2>1. conns[i].live # "dead"
    BY <1>5
  <2>2. i \in services.kept \/ \E u \in Tasks : i \in mcpTask[u].pending
    BY <2>1, McpTyped DEF Held, InHand
  <2>3. i \in mcpTask[t].pending => i \in services'.kept
    BY <1>5, <1>6, <2>1
  <2> QED
    BY <1>2, <1>5, <2>2, <2>3 DEF InHand
<1>10. KeptKnown'
  <2> SUFFICES ASSUME NEW i \in services'.kept, conns'[i].server \in Deferred
               PROVE  late'[conns'[i].server] # NoEntry
    BY DEF KeptKnown
  <2>1. i \in DOMAIN conns /\ conns'[i].server = conns[i].server
    BY <1>5, <1>7, McpTyped
  <2>2. CASE i \in services.kept
    BY <2>1, <2>2, McpTyped DEF KeptKnown, StartEnds
  <2>3. CASE i \in mcpTask[t].pending
    BY <2>1, <2>3 DEF StartEnds
  <2> QED
    BY <1>5, <1>7, <2>2, <2>3
<1>11. Apart(t)
  <2>1. \A i \in services'.kept : i \in services.kept \/ i \in mcpTask[t].pending
    BY <1>5, <1>7
  <2>2. mcpTask'[t].pending = {}
    BY <1>1, <1>2
  <2> QED
    BY <1>2, <1>5, <2>1, <2>2 DEF Apart, StartEnds
<1> QED
  BY <1>5, <1>8, <1>9, <1>10, <1>11, McpKeeps

LEMMA CameShown ==
    ASSUME NEW i \in DOMAIN conns, i \in Nat
    PROVE  /\ Came(i) \in EntrySet /\ Came(i) # NoEntry /\ Down \in EntrySet /\ Down # NoEntry
           /\ Down.state # "up" /\ (Came(i).state # "up" \/ Came(i).conn = i)
  BY DEF Came, Up, Down, NoEntry, EntrySet

LEMMA McpKeepsLate == ASSUME McpInv, NEW c \in McpCallers, KeepLate(c) PROVE McpInv'
<1>1. c \in Tasks /\ c \notin Reloads /\ CallerHolds(c) /\ Fresh(c) /\ mcpTask[c] \in McpTaskSet
      /\ mcpTask \in [Tasks -> McpTaskSet] /\ mcpTask[c].pending \subseteq DOMAIN conns
      /\ mcpTask[c].old \subseteq DOMAIN conns
  BY McpTyped
<1>2. mcpTask[c].pc = "starting" /\ mcpTask[c].server \in Deferred /\ lateBy = c
      /\ mcpTask[c].server \in Configured
  BY <1>1 DEF KeepLate, At, CallerHolds
<1>3. Started(c) = mcpTask[c].pending
  BY <1>1 DEF Started
<1>4. late' = [s \in Deferred |->
           IF s \in Pending(c) THEN Came(CHOOSE i \in Started(c) : conns[i].server = s) ELSE late[s]]
  BY DEF KeepLate
<1>5. ASSUME NEW s \in Deferred, s \in Pending(c)
      PROVE  /\ late'[s] \in EntrySet /\ late'[s] # NoEntry
             /\ late'[s].state # "up" \/ late'[s].conn \in mcpTask[c].pending
  <2>1. \E i \in Started(c) : conns[i].server = s
    BY <1>5 DEF KeepLate
  <2>2. PICK i : i = CHOOSE j \in Started(c) : conns[j].server = s
    OBVIOUS
  <2>3. i \in mcpTask[c].pending /\ i \in DOMAIN conns /\ i \in Nat
    BY <1>1, <1>3, <2>1, <2>2 DEF McpTaskSet
  <2>4. late'[s] = Came(i)
    BY <1>4, <1>5, <2>2
  <2> QED
    BY <2>3, <2>4, CameShown
<1>6. ASSUME NEW s \in Deferred, s \notin Pending(c) PROVE late'[s] = late[s]
  BY <1>4, <1>6
<1>7. late' \in [Deferred -> EntrySet]
  <2>1. \A s \in Deferred : late'[s] \in EntrySet
    BY <1>5, <1>6, McpTyped
  <2>2. late' = [s \in Deferred |-> late'[s]]
    BY <1>4
  <2> QED
    BY <2>1, <2>2
<1>8. PICK m : m = [mcpTask[c] EXCEPT !.pc = "started", !.pending = {}]
  OBVIOUS
<1>9. /\ m \in McpTaskSet /\ m.pc = "started" /\ m.pending = {} /\ m.old = mcpTask[c].old
      /\ m.server = mcpTask[c].server
  BY <1>1, <1>8 DEF McpTaskSet, CallPlaces
<1>10. mcpTask' = [mcpTask EXCEPT ![c] = m] /\ mcpTask'[c] = m
       /\ \A u \in Tasks \ {c} : mcpTask'[u] = mcpTask[u]
  BY <1>1, <1>8 DEF KeepLate
<1>11. UNCHANGED conf /\ UNCHANGED entry /\ UNCHANGED reloaded /\ UNCHANGED reloadBy /\ lateBy' = "none"
  BY DEF KeepLate
<1>12. ASSUME NEW s \in Configured
       PROVE Shown(s)' = Shown(s) \/ Shown(s)'.state # "up" \/ Shown(s)'.conn \in mcpTask[c].pending
  <2>1. CASE s \in Launched
    BY <1>11, <2>1 DEF Shown, Now
  <2>2. CASE s \notin Launched
    BY <1>5, <1>6, <2>2 DEF Shown, Configured
  <2> QED
    BY <2>1, <2>2
<1>13. StartEnds(c)
  <2>1. \A u \in Tasks \ {c} : (lateBy = u => lateBy' = u) /\ (reloadBy = u => reloadBy' = u)
    BY <1>2, <1>11
  <2>2. \A s \in Deferred : late[s] # NoEntry => late'[s] # NoEntry
    BY <1>5, <1>6
  <2>3. \A i \in mcpTask[c].pending : conns[i].server \in Deferred => late'[conns[i].server] # NoEntry
    <3>1. \A i \in mcpTask[c].pending : conns[i].server \in Pending(c)
      BY <1>3 DEF KeepLate
    <3> QED
      BY <1>5, <3>1
  <2>4. Coming(c) /\ Settled(c) /\ Keeps({i \in Started(c) : conns[i].live = "up"})
    BY <1>2 DEF KeepLate, Coming
  <2>5. reloaded' \in [Launched -> EntrySet]
    BY <1>11, McpTyped
  <2> QED
    BY <1>2, <1>7, <1>9, <1>10, <1>11, <1>12, <2>1, <2>2, <2>3, <2>4, <2>5 DEF StartEnds
<1>14. CallerHolds(c)'
  BY <1>2, <1>9, <1>10 DEF CallerHolds, CallPlaces
<1>15. Fresh(c)'
  <2>1. \A t \in Tasks : Coming(t)' => mcpTask'[t].pending \cap m.old = {}
    BY <1>2, <1>1, <1>9, <1>10 DEF Fresh, Coming
  <2>2. mcpTask[c].pending \cap m.old = {}
    BY <1>1, <1>2, <1>9 DEF Fresh, Coming
  <2>3. PICK s \in Configured : s = mcpTask[c].server
    BY <1>2
  <2>4. Shown(s)'.state = "up" => Shown(s)'.conn \notin m.old
    <3>1. Shown(s).state = "up" => Shown(s).conn \notin m.old
      BY <1>1, <1>2, <1>9, <2>3 DEF Fresh
    <3> QED
      BY <1>12, <2>2, <3>1
  <2> QED
    BY <1>9, <1>10, <2>1, <2>3, <2>4 DEF Fresh
<1> QED
  BY <1>1, <1>13, <1>14, <1>15, StartEndsKeeps DEF Stays

LEMMA McpKeepsReloaded == ASSUME McpInv, NEW r \in Reloads, KeepReloaded(r) PROVE McpInv'
<1>1. r \in Tasks /\ r \notin McpCallers /\ ReloadHolds(r) /\ mcpTask[r] \in McpTaskSet
      /\ mcpTask[r].pending \subseteq DOMAIN conns
  BY McpTyped
<1>2. mcpTask[r].pc = "keep" /\ mcpTask[r].server \in Configured /\ reloadBy = r
      /\ (mcpTask[r].server \in Deferred => lateBy = r)
      /\ \A i \in mcpTask[r].pending : conns[i].server = mcpTask[r].server
  BY <1>1 DEF KeepReloaded, At, ReloadHolds, Reloading
<1>3. Started(r) = mcpTask[r].pending
  BY <1>1 DEF Started
<1>4. PICK s \in Configured : s = mcpTask[r].server
  BY <1>2
<1>5. PICK is : is = {i \in Started(r) : conns[i].live = "up"}
  OBVIOUS
<1>6. PICK came : came = IF is = {} THEN Down ELSE Came(CHOOSE i \in is : TRUE)
  OBVIOUS
<1>7. /\ Keeps(is)
      /\ IF s \in Deferred
         THEN late' = [late EXCEPT ![s] = came] /\ lateBy' = "none" /\ UNCHANGED reloaded
         ELSE reloaded' = [reloaded EXCEPT ![s] = came] /\ UNCHANGED <<late, lateBy>>
      /\ reloadBy' = "none" /\ UNCHANGED conf /\ UNCHANGED entry /\ Ends(r) /\ Settled(r)
  BY <1>4, <1>5, <1>6 DEF KeepReloaded
<1>8. /\ came \in EntrySet /\ came # NoEntry
      /\ came.state # "up" \/ came.conn \in mcpTask[r].pending
  <2>1. CASE is = {}
    BY <1>6, <2>1 DEF Down, NoEntry, EntrySet
  <2>2. CASE is # {}
    <3>1. PICK i : i = CHOOSE j \in is : TRUE
      OBVIOUS
    <3>2. i \in mcpTask[r].pending /\ i \in DOMAIN conns /\ i \in Nat
      BY <1>1, <1>3, <1>5, <2>2, <3>1 DEF McpTaskSet
    <3>3. came = Came(i)
      BY <1>6, <2>2, <3>1
    <3> QED
      BY <3>2, <3>3, CameShown
  <2> QED
    BY <2>1, <2>2
<1>9. Stays(r)' /\ mcpTask'[r] = NoTask /\ NoTask \in McpTaskSet
  BY <1>1, <1>7, EndsStays
<1>10. /\ s \in Deferred => late'[s] = came /\ \A u \in Deferred \ {s} : late'[u] = late[u]
       /\ s \notin Deferred => late' = late
       /\ late' \in [Deferred -> EntrySet]
  BY <1>7, <1>8, McpTyped
<1>11. /\ s \in Launched => reloaded'[s] = came /\ \A u \in Launched \ {s} : reloaded'[u] = reloaded[u]
       /\ s \notin Launched => reloaded' = reloaded
       /\ reloaded' \in [Launched -> EntrySet]
  BY <1>7, <1>8, McpTyped DEF Configured
<1>12. ASSUME NEW u \in Configured
       PROVE Shown(u)' = Shown(u) \/ Shown(u)'.state # "up" \/ Shown(u)'.conn \in mcpTask[r].pending
  <2>1. CASE u \in Launched
    <3>1. CASE u = s
      <4>1. Shown(u)' = came
        BY <1>8, <1>11, <2>1, <3>1 DEF Shown, Now
      <4> QED
        BY <1>8, <4>1
    <3>2. CASE u # s
      <4>1. reloaded'[u] = reloaded[u] /\ entry' = entry
        BY <1>7, <1>11, <2>1, <3>2
      <4> QED
        BY <2>1, <4>1 DEF Shown, Now
    <3> QED
      BY <3>1, <3>2
  <2>2. CASE u \notin Launched
    BY <1>8, <1>10, <2>2 DEF Shown, Configured
  <2> QED
    BY <2>1, <2>2
<1>13. StartEnds(r)
  <2>1. \A u \in Tasks \ {r} : (lateBy = u => lateBy' = u) /\ (reloadBy = u => reloadBy' = u)
    BY <1>2, <1>4, <1>7
  <2>2. \A u \in Deferred : late[u] # NoEntry => late'[u] # NoEntry
    BY <1>8, <1>10
  <2>3. \A i \in mcpTask[r].pending : conns[i].server \in Deferred => late'[conns[i].server] # NoEntry
    BY <1>2, <1>4, <1>8, <1>10
  <2>4. Coming(r) /\ Settled(r) /\ Keeps({i \in Started(r) : conns[i].live = "up"})
    BY <1>2, <1>5, <1>7 DEF Coming
  <2>5. late' = late \/ lateBy = r
    BY <1>2, <1>4, <1>10
  <2>6. mcpTask' = [mcpTask EXCEPT ![r] = NoTask] /\ NoTask.pending = {} /\ NoTask.old = {}
    BY <1>7 DEF Ends, NoTask
  <2> QED
    BY <1>7, <1>9, <1>10, <1>11, <1>12, <2>1, <2>2, <2>3, <2>4, <2>5, <2>6 DEF StartEnds
<1> QED
  BY <1>1, <1>9, <1>13, StartEndsKeeps

LEMMA McpTakes == ASSUME McpInv, NEW r \in Reloads, Close(r), services.open PROVE McpInv'
<1>1. r \in Tasks /\ r \notin McpCallers /\ ReloadHolds(r) /\ mcpTask[r] \in McpTaskSet
      /\ mcpTask \in [Tasks -> McpTaskSet] /\ services.kept \subseteq DOMAIN conns
      /\ services = [open |-> services.open, kept |-> services.kept]
  BY McpTyped
<1>2. mcpTask[r].pc = "close" /\ mcpTask[r].pending = {} /\ mcpTask[r].old = {}
      /\ mcpTask[r].server \in Configured /\ reloadBy = r
      /\ (mcpTask[r].server \in Deferred => lateBy = r)
  BY <1>1 DEF Close, At, ReloadHolds, Reloading
<1>3. PICK of : of = OfServer(r)
  OBVIOUS
<1>4. of \subseteq services.kept
      /\ \A i \in services.kept : i \in of <=> conns[i].server = mcpTask[r].server
  BY <1>3 DEF OfServer
<1>5. of \subseteq Nat
  BY <1>1, <1>4, McpTyped
<1>6. PICK m : m = [mcpTask[r] EXCEPT !.pc = "closing", !.pending = of]
  OBVIOUS
<1>7. m \in McpTaskSet /\ m.pc = "closing" /\ m.pending = of /\ m.old = {} /\ m.server = mcpTask[r].server
  BY <1>1, <1>2, <1>5, <1>6 DEF McpTaskSet, ReloadPlaces
<1>8. mcpTask' = [mcpTask EXCEPT ![r] = m]
  BY <1>1, <1>3, <1>6 DEF Close
<1>9. services' = [open |-> services.open, kept |-> services.kept \ of]
  BY <1>1, <1>3 DEF Close
<1>10. UNCHANGED conf /\ UNCHANGED conns /\ UNCHANGED entry /\ UNCHANGED reloaded /\ UNCHANGED late
       /\ UNCHANGED lateBy /\ UNCHANGED reloadBy
  BY DEF Close
<1>11. /\ mcpTask' \in [Tasks -> McpTaskSet] /\ mcpTask'[r] = m
       /\ \A u \in Tasks \ {r} : mcpTask'[u] = mcpTask[u]
  BY <1>1, <1>7, <1>8
<1>12. McpTypes'
  <2>1. \A u \in Tasks : mcpTask'[u].pending \subseteq DOMAIN conns /\ mcpTask'[u].old \subseteq DOMAIN conns
    BY <1>1, <1>4, <1>7, <1>11, McpTyped
  <2>2. services' \in [open : BOOLEAN, kept : SUBSET (DOMAIN conns)]
    BY <1>1, <1>9, McpTyped
  <2> QED
    BY <1>10, <1>11, <2>1, <2>2, McpTyped DEF McpTypes
<1>13. Held'
  <2> SUFFICES ASSUME NEW i \in DOMAIN conns, conns[i].live # "dead"
               PROVE  i \in services'.kept \cup InHand'
    BY <1>10 DEF Held
  <2>1. i \in services.kept \/ \E u \in Tasks : i \in mcpTask[u].pending
    BY McpTyped DEF Held, InHand
  <2> QED
    BY <1>1, <1>2, <1>7, <1>9, <1>11, <2>1 DEF InHand
<1>14. KeptKnown' /\ Once' /\ PinHolds'
  BY <1>9, <1>10, McpTyped DEF KeptKnown, Once, PinHolds
<1>15. ReloadHolds(r)'
  BY <1>2, <1>4, <1>7, <1>9, <1>10, <1>11 DEF ReloadHolds, Reloading, ReloadPlaces
<1>16. Apart(r)
  <2>1. \A s \in Configured : Shown(s)' = Shown(s)
    BY <1>10 DEF Shown, Now
  <2>2. ~Coming(r)'
    BY <1>7, <1>11 DEF Coming
  <2> QED
    BY <1>9, <1>10, <1>11, <2>1, <2>2 DEF Apart
<1> QED
  BY <1>1, <1>12, <1>13, <1>14, <1>15, <1>16, McpKeeps DEF Stays

\* A step of no task: the tasks are where they were, and the connections what they were of.
NoOne ==
    /\ UNCHANGED <<entry, reloaded, late, lateBy, reloadBy, mcpTask>>
    /\ conns' \in Seq(ConnSet) /\ DOMAIN conns' = DOMAIN conns
    /\ \A i \in DOMAIN conns :
         conns'[i].server = conns[i].server /\ (conns'[i].live # "dead" => conns[i].live # "dead")
    /\ services' \in [open : BOOLEAN, kept : SUBSET (DOMAIN conns)]
    /\ services'.open => services.open
    /\ services'.kept \subseteq services.kept
    /\ \A i \in services.kept : i \in services'.kept \/ conns'[i].live = "dead"
    /\ conf' \in [Configured -> ConfSet]

LEMMA NoOneKeeps == ASSUME McpInv, NoOne, PinHolds' PROVE McpInv'
<1>1. UNCHANGED entry /\ UNCHANGED reloaded /\ UNCHANGED late /\ UNCHANGED lateBy
      /\ UNCHANGED reloadBy /\ UNCHANGED mcpTask
  BY DEF NoOne
<1>2. McpTypes'
  BY <1>1, McpTyped DEF McpTypes, NoOne
<1>3. UNCHANGED InHand
  BY <1>1 DEF InHand
<1>4. Held'
  <2> SUFFICES ASSUME NEW i \in DOMAIN conns, conns'[i].live # "dead"
               PROVE  i \in services'.kept \cup InHand'
    BY DEF Held, NoOne
  <2>1. i \in services.kept \cup InHand
    BY McpTyped DEF Held, NoOne
  <2> QED
    BY <1>3, <2>1 DEF NoOne
<1>5. KeptKnown'
  <2>1. \A i \in services'.kept : i \in services.kept /\ i \in DOMAIN conns /\ conns'[i].server = conns[i].server
    BY McpTyped DEF NoOne
  <2> QED
    BY <1>1, <2>1, McpTyped DEF KeptKnown
<1>6. Once'
  BY McpTyped DEF Once, NoOne
<1>7. PICK t : t \notin Tasks
  BY McpAssumption DEF Tasks
<1>8. \A s \in Configured : Shown(s)' = Shown(s)
  BY <1>1 DEF Shown, Now
<1>9. Apart(t)
  BY <1>1, <1>7, <1>8 DEF Apart, NoOne
<1> QED
  BY <1>2, <1>4, <1>5, <1>6, <1>7, <1>9, McpKeeps

LEMMA McpComes == ASSUME McpInv, NEW i \in DOMAIN conns, Comes(i) PROVE McpInv'
<1>1. /\ conns \in Seq(ConnSet) /\ conns[i] \in ConnSet /\ conf \in [Configured -> ConfSet]
      /\ conns[i].live = "starting" /\ PinHolds /\ Once
  BY McpTyped DEF Comes
<1>2. UNCHANGED <<entry, reloaded, late, lateBy, reloadBy, mcpTask>> /\ UNCHANGED services
  BY DEF Comes
<1>3. /\ conns' \in Seq(ConnSet) /\ DOMAIN conns' = DOMAIN conns
      /\ \A j \in DOMAIN conns :
           /\ conns'[j].server = conns[j].server /\ conns'[j].catalog = conns[j].catalog
           /\ conns'[j].live # "dead" => conns[j].live # "dead"
           /\ j # i => conns'[j] = conns[j]
  <2>1. PICK how \in {"up", "dead"} : conns' = [conns EXCEPT ![i].live = how]
    BY DEF Comes
  <2>2. [conns[i] EXCEPT !.live = how] \in ConnSet /\ [conns[i] EXCEPT !.live = how].server = conns[i].server
        /\ [conns[i] EXCEPT !.live = how].catalog = conns[i].catalog
    BY <1>1 DEF ConnSet
  <2>3. conns' = [conns EXCEPT ![i] = [conns[i] EXCEPT !.live = how]]
    BY <2>1
  <2> QED
    BY <1>1, <2>2, <2>3
<1>4. PICK s \in Configured : s = conns[i].server
  BY <1>1 DEF ConnSet
<1>5. conf' \in [Configured -> ConfSet]
  <2>1. CASE conf' = Pinned(i)
    <3>1. PICK p : p = IF s \in Repo THEN conns[i].catalog ELSE conf[s].pinned
      OBVIOUS
    <3>2. conf' = [conf EXCEPT ![s] = [conf[s] EXCEPT !.pinned = p]]
      BY <1>4, <2>1, <3>1 DEF Pinned
    <3>3. p \in Nat /\ conf[s] \in ConfSet
      BY <1>1, <1>4, <3>1 DEF ConnSet, ConfSet
    <3>4. [conf[s] EXCEPT !.pinned = p] \in ConfSet
      BY <3>3 DEF ConfSet
    <3> QED
      BY <1>1, <3>2, <3>4
  <2>2. CASE UNCHANGED conf
    BY <1>1, <2>2
  <2> QED
    BY <2>1, <2>2 DEF Comes
<1>6. NoOne
  BY <1>2, <1>3, <1>5, McpTyped DEF NoOne
<1>7. PinHolds'
  <2> SUFFICES ASSUME services.open, NEW j \in DOMAIN conns, conns'[j].live = "up", conns'[j].server \in Repo
               PROVE  conf'[conns'[j].server].pinned \in {0, conns'[j].catalog}
    BY <1>2, <1>3 DEF PinHolds
  <2>1. CASE j = i
    <3>1. conf' = Pinned(i)
      <4>1. CASE conns' = [conns EXCEPT ![i].live = "dead"]
        BY <1>1, <2>1, <4>1 DEF ConnSet
      <4> QED
        BY <4>1 DEF Comes
    <3>2. s \in Repo
      BY <1>3, <1>4, <2>1
    <3>3. conf'[s].pinned = conns[i].catalog
      BY <1>1, <1>4, <3>1, <3>2 DEF Pinned, ConfSet
    <3> QED
      BY <1>3, <1>4, <2>1, <3>3
  <2>2. CASE j # i
    <3>1. conns'[j] = conns[j] /\ conns[j].server # s
      BY <1>1, <1>3, <1>4, <2>2 DEF Once
    <3>2. conf'[conns[j].server] = conf[conns[j].server]
      <4>1. conns[j].server \in Configured
        BY McpTyped DEF ConnSet
      <4>2. conf' = conf \/ \E c : conf' = [conf EXCEPT ![s] = c]
        BY <1>4 DEF Comes, Pinned
      <4> QED
        BY <1>1, <3>1, <4>1, <4>2
    <3> QED
      BY <1>1, <3>1, <3>2 DEF PinHolds
  <2> QED
    BY <2>1, <2>2
<1> QED
  BY <1>6, <1>7, NoOneKeeps

LEMMA McpShuts ==
    ASSUME McpInv, Shutdown \/ Shut PROVE McpInv'
<1>1. CASE Shutdown
  <2>1. services' = [open |-> FALSE, kept |-> services.kept] /\ UNCHANGED conf /\ UNCHANGED conns
        /\ UNCHANGED <<entry, reloaded, late, lateBy, reloadBy, mcpTask>>
    BY <1>1 DEF Shutdown
  <2>2. NoOne
    BY <2>1, McpTyped DEF NoOne
  <2>3. PinHolds'
    BY <2>1 DEF PinHolds
  <2> QED
    BY <2>2, <2>3, NoOneKeeps
<1>2. CASE Shut
  <2>1. PICK i \in services.kept :
        /\ services' = [services EXCEPT !.kept = @ \ {i}]
        /\ conns' = [conns EXCEPT ![i].live = "dead"]
    BY <1>2 DEF Shut
  <2>2. services' = [open |-> services.open, kept |-> services.kept \ {i}] /\ ~services.open
    BY <1>2, <2>1, McpTyped DEF Shut
  <2>3. UNCHANGED conf /\ UNCHANGED <<entry, reloaded, late, lateBy, reloadBy, mcpTask>>
    BY <1>2 DEF Shut
  <2>4. /\ conns' \in Seq(ConnSet) /\ DOMAIN conns' = DOMAIN conns
        /\ \A j \in DOMAIN conns :
             conns'[j].server = conns[j].server /\ (conns'[j].live # "dead" => conns[j].live # "dead")
        /\ conns'[i].live = "dead"
    <3>1. conns[i] \in ConnSet /\ i \in DOMAIN conns /\ conns \in Seq(ConnSet)
      BY McpTyped
    <3>2. [conns[i] EXCEPT !.live = "dead"] \in ConnSet
          /\ [conns[i] EXCEPT !.live = "dead"].server = conns[i].server
          /\ [conns[i] EXCEPT !.live = "dead"].live = "dead"
      BY <3>1 DEF ConnSet
    <3>3. conns' = [conns EXCEPT ![i] = [conns[i] EXCEPT !.live = "dead"]]
      BY <2>1
    <3> QED
      <4>1. conns' \in Seq(ConnSet)
        BY <3>1, <3>2, <3>3
      <4>2. DOMAIN conns' = DOMAIN conns /\ conns'[i] = [conns[i] EXCEPT !.live = "dead"]
            /\ \A j \in DOMAIN conns : j # i => conns'[j] = conns[j]
        BY <3>1, <3>3
      <4> QED
        BY <3>2, <4>1, <4>2
  <2>5. NoOne
    BY <2>2, <2>3, <2>4, McpTyped DEF NoOne
  <2>6. PinHolds'
    BY <2>2 DEF PinHolds
  <2> QED
    BY <2>5, <2>6, NoOneKeeps
<1> QED
  BY <1>1, <1>2

LEMMA McpEdits ==
    ASSUME McpInv, NEW s \in Configured, Redefined(s) \/ Updated(s) \/ Approve(s) PROVE McpInv'
<1>1. conf[s] \in ConfSet
  BY McpTyped
<1>2. PICK c : conf' = [conf EXCEPT ![s] = c]
        /\ c \in {[conf[s] EXCEPT !.defn = @ + 1], [conf[s] EXCEPT !.serves = @ + 1],
                  [conf[s] EXCEPT !.approved = conf[s].defn, !.pinned = 0]}
  BY DEF Redefined, Updated, Approve, Edited
<1>3. c \in ConfSet /\ c.pinned \in {0, conf[s].pinned}
  <2>1. CASE c = [conf[s] EXCEPT !.defn = @ + 1]
    BY <1>1, <2>1 DEF ConfSet
  <2>2. CASE c = [conf[s] EXCEPT !.serves = @ + 1]
    BY <1>1, <2>2 DEF ConfSet
  <2>3. CASE c = [conf[s] EXCEPT !.approved = conf[s].defn, !.pinned = 0]
    BY <1>1, <2>3 DEF ConfSet
  <2> QED
    BY <1>2, <2>1, <2>2, <2>3
<1>4. UNCHANGED conns /\ UNCHANGED services
      /\ UNCHANGED <<entry, reloaded, late, lateBy, reloadBy, mcpTask>>
  BY DEF Redefined, Updated, Approve, Edited
<1>5. conf' \in [Configured -> ConfSet] /\ \A u \in Configured : conf'[u].pinned \in {0, conf[u].pinned}
  BY <1>2, <1>3, McpTyped
<1>6. NoOne
  BY <1>4, <1>5, McpTyped DEF NoOne
<1>7. PinHolds'
  <2> SUFFICES ASSUME services.open, NEW i \in DOMAIN conns, conns[i].live = "up", conns[i].server \in Repo
               PROVE  conf'[conns[i].server].pinned \in {0, conns[i].catalog}
    BY <1>4 DEF PinHolds
  <2>1. conns[i].server \in Configured /\ conf[conns[i].server].pinned \in {0, conns[i].catalog}
    BY McpTyped DEF PinHolds, ConnSet
  <2> QED
    BY <1>5, <2>1
<1> QED
  BY <1>6, <1>7, NoOneKeeps

LEMMA McpStarts == ASSUME McpInit PROVE McpInv
<1>1. PICK up \in SUBSET {s \in Launched : ~Changed(s)} :
        \E order \in [1..Cardinality(up) -> up] :
            /\ \A i, j \in DOMAIN order : i # j => order[i] # order[j]
            /\ conns = [i \in DOMAIN order |-> NewConn(order[i], "up")]
            /\ entry = [s \in Configured |->
                   IF s \in up THEN Up(CHOOSE i \in DOMAIN order : order[i] = s) ELSE Down]
  BY DEF McpInit
<1>2. PICK order \in [1..Cardinality(up) -> up] :
            /\ \A i, j \in DOMAIN order : i # j => order[i] # order[j]
            /\ conns = [i \in DOMAIN order |-> NewConn(order[i], "up")]
            /\ entry = [s \in Configured |->
                   IF s \in up THEN Up(CHOOSE i \in DOMAIN order : order[i] = s) ELSE Down]
  BY <1>1
<1>3. Cardinality(up) \in Nat /\ up \subseteq Launched
  BY <1>1, McpAssumption, FS_Subset, FS_CardinalityType
<1>4. PICK n \in Nat : n = Cardinality(up)
  BY <1>3
<1>5. DOMAIN order = 1 .. n /\ \A i \in 1 .. n : order[i] \in up
  BY <1>2, <1>4
<1>6. /\ conf \in [Configured -> ConfSet]
      /\ \A s \in Configured : conf[s].serves = 1 /\ conf[s].pinned \in {0, 1}
  <2>1. PICK stale \in SUBSET Repo : conf = [s \in Configured |->
           [defn |-> 1, approved |-> IF s \in stale THEN 0 ELSE 1,
            serves |-> 1, pinned |-> IF s \in Repo \ stale THEN 1 ELSE 0]]
    BY DEF McpInit
  <2> QED
    BY <2>1 DEF ConfSet
<1>7. ASSUME NEW i \in 1 .. n
      PROVE  conns[i].server = order[i] /\ conns[i].live = "up" /\ conns[i] \in ConnSet
             /\ conns[i].catalog = 1 /\ order[i] \in Launched /\ order[i] \in Configured
  <2>1. order[i] \in Launched /\ order[i] \in Configured
    BY <1>3, <1>5 DEF Configured
  <2>2. conns[i] = [server |-> order[i], catalog |-> 1, live |-> "up"]
    BY <1>2, <1>5, <1>6, <2>1 DEF NewConn
  <2> QED
    BY <2>1, <2>2 DEF ConnSet
<1>8. conns \in Seq(ConnSet) /\ DOMAIN conns = 1 .. n
  <2>1. conns = [i \in 1 .. n |-> conns[i]]
    BY <1>2, <1>5
  <2> QED
    BY <1>7, <2>1
<1>9. entry \in [Configured -> EntrySet] /\ \A s \in Configured : entry[s] # NoEntry
  <2>1. ASSUME NEW s \in Configured PROVE entry[s] \in EntrySet /\ entry[s] # NoEntry
    <3>1. CASE s \notin up
      BY <1>2, <3>1 DEF Down, NoEntry, EntrySet
    <3>2. CASE s \in up
      <4>1. \E i \in DOMAIN order : order[i] = s
        <5>1. IsFiniteSet(up)
          BY <1>3, McpAssumption, FS_Subset
        <5>2. Cardinality(1 .. n) = n
          BY FS_Interval
        <5>3. order \in Injection(1 .. n, up)
          BY <1>2, <1>4, <1>5 DEF Injection, IsInjective
        <5>4. order \in Surjection(1 .. n, up)
          BY <1>4, <5>1, <5>2, <5>3, FS_Injection
        <5> QED
          BY <1>5, <3>2, <5>4 DEF Surjection
      <4> QED
        BY <1>2, <1>5, <3>2, <4>1 DEF Up, NoEntry, EntrySet
    <3> QED
      BY <3>1, <3>2
  <2> QED
    BY <1>2, <2>1
<1>10. /\ services = [open |-> TRUE, kept |-> DOMAIN conns] /\ lateBy = "none" /\ reloadBy = "none"
       /\ reloaded = [s \in Launched |-> NoEntry] /\ late = [s \in Deferred |-> NoEntry]
       /\ mcpTask = [t \in Tasks |-> NoTask]
  BY DEF McpInit
<1>11. McpTypes
  <2>1. NoTask \in McpTaskSet /\ NoTask.pending = {} /\ NoTask.old = {}
    BY DEF NoTask, McpTaskSet, CallPlaces
  <2>2. NoEntry \in EntrySet
    BY DEF NoEntry, EntrySet
  <2>3. services \in [open : BOOLEAN, kept : SUBSET (DOMAIN conns)]
    BY <1>10
  <2>4. \A s \in Launched : entry[s] # NoEntry
    BY <1>9 DEF Configured
  <2> QED
    BY <1>6, <1>8, <1>9, <1>10, <2>1, <2>2, <2>3, <2>4 DEF McpTypes
<1>12. \A t \in Tasks : Stays(t)
  <2>1. \A t \in Tasks : mcpTask[t].pc = "idle" /\ mcpTask[t].pending = {} /\ mcpTask[t].old = {}
    BY <1>10 DEF NoTask
  <2>2. \A t \in Tasks : CallerHolds(t) /\ Fresh(t) /\ ReloadHolds(t)
    BY <2>1 DEF CallerHolds, Fresh, ReloadHolds, Reloading, CallPlaces, ReloadPlaces
  <2> QED
    BY <2>2 DEF Stays
<1>13. Held
  BY <1>10 DEF Held
<1>14. KeptKnown
  <2>1. \A i \in 1 .. n : conns[i].server \in Launched
    BY <1>7
  <2> QED
    BY <1>8, <1>10, <2>1, McpAssumption DEF KeptKnown
<1>15. Once
  <2>1. \A i, j \in 1 .. n : conns[i].server = conns[j].server => i = j
    BY <1>2, <1>5, <1>7
  <2> QED
    BY <1>8, <2>1 DEF Once
<1>16. PinHolds
  BY <1>6, <1>7, <1>8 DEF PinHolds
<1> QED
  BY <1>11, <1>12, <1>13, <1>14, <1>15, <1>16 DEF McpInv

LEMMA McpStep == ASSUME McpInv, [McpNext]_mcpVars PROVE McpInv'
<1>1. ASSUME NEW c \in McpCallers, CallerSteps(c) PROVE McpInv'
  BY <1>1, McpBegins, McpCalls, McpCallerStarts, McpKeepsLate, McpAbandons DEF CallerSteps
<1>2. ASSUME NEW r \in Reloads, ReloadSteps(r) PROVE McpInv'
  BY <1>2, McpReloads, McpTakes, McpCloses, McpStartsAgain, McpKeepsReloaded DEF ReloadSteps
<1>3. CASE UNCHANGED mcpVars
  BY <1>3 DEF mcpVars, McpInv, McpTypes, Stays, CallerHolds, ReloadHolds, Reloading, Held, InHand,
     KeptKnown, Once, Shown, Now, Coming, Fresh, PinHolds
<1> QED
  BY <1>1, <1>2, <1>3, McpComes, McpEdits, McpShuts DEF McpNext

LEMMA McpFollows == ASSUME McpInv PROVE ServersApart
<1>1. RunOnce
  <2> SUFFICES ASSUME services.open, NEW s \in Configured PROVE Cardinality(Running(s)) <= 1
    BY DEF RunOnce
  <2>1. \A i, j \in Running(s) : i = j
    BY McpTyped DEF Once, Running
  <2>2. CASE Running(s) = {}
    <3>1. Cardinality(Running(s)) = 0
      BY <2>2, FS_EmptySet
    <3> QED
      BY <3>1
  <2>3. CASE Running(s) # {}
    <3>1. PICK i : Running(s) = {i}
      BY <2>1, <2>3
    <3>2. Cardinality(Running(s)) = 1
      BY <3>1, FS_Singleton
    <3> QED
      BY <3>2
  <2> QED
    BY <2>2, <2>3
<1>2. NoneLeftUp
  BY McpTyped DEF Held, InHand, NoneLeftUp
<1>3. FollowsReload
  BY McpTyped DEF FollowsReload, Fresh, At
<1> QED
  BY <1>1, <1>2, <1>3, McpTyped DEF ServersApart

\* However first calls of children, reloads, edits of the config and the session's end fall:
\* a server runs once at a time, none outlives the session, a call never reaches what a reload
\* replaced, and what runs of .mcp.json serves what was approved (mcp/mod.rs, mcp/servers.rs).
THEOREM ServersStayApart == McpSpec => []ServersApart
<1>1. McpInit => McpInv
  BY McpStarts
<1>2. McpInv /\ [McpNext]_mcpVars => McpInv'
  BY McpStep
<1>3. McpInv => ServersApart
  BY McpFollows
<1> QED
  BY <1>1, <1>2, <1>3, PTL DEF McpSpec

-----------------------------------------------------------------------------
(* The worktrees.  Picked rows are nobody's at work; what the holder of the lock has yet to  *)
(* write still lists every worktree; and what is being removed has nothing to lose.          *)

RowType == [child : Leasers, pid : Pids \cup {0}, kept : BOOLEAN]
OnBranch == {"no", "ours", "other"}
JobPlaces == {"none", "lock", "look", "remove", "drop"}
Listings == [Leasers -> OnBranch] \cup {<<>>}
JobType == [pc : JobPlaces, at : Nat \ {0}, left : Seq(RowType), listing : Listings]
TreeTypes ==
    /\ rows \in Seq(RowType)
    /\ trees \in [Leasers -> [dir : BOOLEAN, dirty : BOOLEAN, branch : {"none", "base", "ahead"},
                              on : OnBranch]]
    /\ tasks \in [Leasers -> {"none", "leasing", "creating", "adding", "undoing", "working", "releasing"}]
    /\ procs \in [BhaiProcs -> [pc : {"down", "starting", "up", "quitting", "gone"}, pid : Pids \cup {0}]]
    /\ jobs \in [Owners -> JobType] /\ regLock \in Owners \cup {"none"}
    /\ loose \in SUBSET Leasers /\ lost \in SUBSET Leasers

Holds(t) == regLock = t
ProcRuns(c) == procs[ParentOf[c]].pc \in {"up", "quitting", "gone"}
\* The row of a child at work there, that no sweep may pick.
Live(r) == AtWork(r.child) /\ r.child \notin loose /\ r = NewRow(r.child)
\* A row the registry has once the holder of the lock has saved, or may have.
StaysListed(t, r) ==
    \/ \E k \in DOMAIN jobs[t].left : jobs[t].left[k] = r
    \/ \E i \in DOMAIN rows : jobs[t].at <= i /\ rows[i] = r
InRows(r) == \E i \in DOMAIN rows : rows[i] = r
Listed(r) == InRows(r) /\ \A t \in Owners : Holds(t) => StaysListed(t, r)
\* A row of the child, other than those: there now, and once the holder has saved.
RowsBut(c, no) == {r \in RowType : r.child = c /\ r \notin no}
HasRow(c, no) ==
    /\ \E r \in RowsBut(c, no) : InRows(r)
    /\ \A t \in Owners : Holds(t) => \E r \in RowsBut(c, no) : StaysListed(t, r)

\* Of a child: its task and its process agree, and unless it is excused its rows, its
\* worktree and whoever settles them do.
Spared(t, c) ==
    /\ trees[c].branch # "ahead" /\ tasks[c] # "working"
    /\ AtWork(c) => rows[jobs[t].at] # NewRow(c)
    /\ jobs[t].pc = "drop" => ~trees[c].dir
Worked(c) ==
    /\ AtWork(c) => Listed(NewRow(c)) /\ ~(Holds(ParentOf[c]) /\ procs[ParentOf[c]].pc = "quitting")
    /\ tasks[c] = "working" => trees[c].dir /\ ~Beside(c, {})
Housed(c) ==
    /\ trees[c].dir => HasRow(c, {})
    /\ trees[c].dir /\ tasks[c] \notin {"working", "releasing"} /\ ProcRuns(c) => HasRow(c, {NewRow(c)})
    /\ Holds(c) /\ trees[c].dir /\ (\E i \in RowsOf(c) : i < jobs[c].at) =>
         \E k \in DOMAIN jobs[c].left : jobs[c].left[k].child = c /\ jobs[c].left[k].kept
Spares(c) ==
    \A t \in Owners :
        jobs[t].pc \in {"remove", "drop"} /\ rows[jobs[t].at].child = c => Spared(t, c)
ChildHolds(c) ==
    /\ tasks[c] # "none" => ProcRuns(c)
    /\ jobs[c].pc # "none" <=> tasks[c] = "releasing"
    /\ c \in lost => c \in loose
    /\ c \notin loose => Worked(c) /\ Housed(c) /\ Spares(c)
\* Of a job: who holds the lock, and what is left so far is rows, the picked ones marked.
LeftIsOfRows(t) ==
    \A k \in DOMAIN jobs[t].left : \E i \in DOMAIN rows :
        \/ jobs[t].left[k] = rows[i]
        \/ jobs[t].left[k] = [rows[i] EXCEPT !.kept = TRUE] /\ ~Live(rows[i])
OwnMarked(p) ==
    \A k \in DOMAIN jobs[p].left : jobs[p].left[k].pid = procs[p].pid => jobs[p].left[k].kept
JobHolds(t) ==
    /\ jobs[t].pc \in {"look", "remove", "drop"} <=> Holds(t)
    /\ jobs[t].pc \in {"none", "lock"} => jobs[t].at = 1 /\ jobs[t].left = <<>>
    /\ jobs[t].pc \in {"remove", "drop"} => jobs[t].at \in DOMAIN rows
    /\ LeftIsOfRows(t)
    /\ t \in BhaiProcs =>
         /\ jobs[t].pc # "none" => procs[t].pc \in {"starting", "up", "quitting"}
         /\ procs[t].pc \in {"starting", "quitting"} => jobs[t].pc # "none"
         /\ procs[t].pc = "starting" => OwnMarked(t)
ProcsApart ==
    \A p, q \in BhaiProcs :
        procs[p].pc # "down" /\ procs[q].pc # "down" /\ procs[p].pid = procs[q].pid => p = q
TreeInv ==
    /\ TreeTypes /\ ProcsApart
    /\ \A c \in Leasers : ChildHolds(c)
    /\ \A t \in Owners : JobHolds(t)

LEMMA TreesStart == ASSUME TreeInit PROVE TreeInv
<1>1. /\ rows = <<>> /\ trees = [c \in Leasers |-> NoTree] /\ tasks = [c \in Leasers |-> "none"]
      /\ procs = [p \in BhaiProcs |-> [pc |-> "down", pid |-> 0]]
      /\ jobs = [t \in Owners |-> NoJob] /\ regLock = "none" /\ loose = {} /\ lost = {}
  BY DEF TreeInit
<1>2. TreeTypes
  BY <1>1 DEF TreeTypes, NoTree, NoJob, JobType, JobPlaces, Listings, OnBranch
<1>3. ProcsApart
  BY <1>1 DEF ProcsApart
<1>4. ASSUME NEW c \in Leasers PROVE ChildHolds(c)
  BY <1>1, OwnersApart DEF ChildHolds, Owners, NoTree, NoJob, Worked, Housed, Spares, AtWork, Holds
<1>5. ASSUME NEW t \in Owners PROVE JobHolds(t)
  <2>1. jobs[t] = NoJob /\ DOMAIN jobs[t].left = {} /\ regLock # t
    BY <1>1, OwnersApart DEF NoJob, Owners
  <2> QED
    BY <1>1, <2>1 DEF JobHolds, NoJob, Holds, LeftIsOfRows, OwnMarked
<1> QED
  BY <1>2, <1>3, <1>4, <1>5 DEF TreeInv

LEMMA TreesFollow == ASSUME TreeInv PROVE TreesKept
<1>1. \A c \in Leasers : trees[c].dir /\ c \notin loose => RowsOf(c) # {}
  BY DEF TreeInv, ChildHolds, Housed, HasRow, RowsBut, InRows, RowsOf
<1>2. WorkKept
  BY DEF TreeInv, TreeTypes, ChildHolds, WorkKept
<1>3. HasItsTree
  BY DEF TreeInv, ChildHolds, Worked, HasItsTree
<1> QED
  BY <1>1, <1>2, <1>3 DEF Findable, TreesKept

LEMMA TreeTyped ==
    ASSUME TreeTypes
    PROVE  /\ \A i \in DOMAIN rows : rows[i] \in RowType /\ rows[i].child \in Leasers /\ i \in Nat
           /\ \A t \in Owners : jobs[t].left \in Seq(RowType) /\ jobs[t].at \in Nat \ {0} /\ jobs[t] \in JobType
           /\ \A t \in Owners : \A k \in DOMAIN jobs[t].left :
                 jobs[t].left[k] \in RowType /\ jobs[t].left[k].child \in Leasers
<1>1. \A i \in DOMAIN rows : rows[i] \in RowType /\ i \in Nat
  BY DEF TreeTypes
<1>2. \A r \in RowType : r.child \in Leasers
  BY DEF RowType
<1>3. \A t \in Owners : jobs[t] \in JobType
  BY DEF TreeTypes
<1>4. \A j \in JobType : j.left \in Seq(RowType) /\ j.at \in Nat \ {0}
  BY DEF JobType
<1>5. \A s \in Seq(RowType) : \A k \in DOMAIN s : s[k] \in RowType
  OBVIOUS
<1> QED
  BY <1>1, <1>2, <1>3, <1>4, <1>5

\* While the registry, the processes and the lock stay as they are, and so does the holder's job.
Steady == UNCHANGED <<rows, procs, regLock>> /\ \A t \in Owners : Holds(t) => jobs'[t] = jobs[t]
LEMMA ListingStays ==
    ASSUME TreeInv, Steady
    PROVE  /\ \A c \in Leasers : NewRow(c)' = NewRow(c) /\ PidOf(c)' = PidOf(c) /\ ProcRuns(c)' = ProcRuns(c)
           /\ \A c \in Leasers : Holds(ParentOf[c])' <=> Holds(ParentOf[c])
           /\ \A c \in Leasers : Beside(c, {})' = Beside(c, {})
           /\ \A c \in Leasers : Listed(NewRow(c)) => Listed(NewRow(c))'
           /\ \A c \in Leasers : HasRow(c, {}) => HasRow(c, {})'
           /\ \A c \in Leasers : HasRow(c, {NewRow(c)}) => HasRow(c, {NewRow(c)})'
<1>1. \A c \in Leasers : NewRow(c)' = NewRow(c) /\ PidOf(c)' = PidOf(c) /\ ProcRuns(c)' = ProcRuns(c)
  BY DEF Steady, NewRow, PidOf, ProcRuns
<1>2. rows' = rows /\ regLock' = regLock /\ \A t \in Owners : Holds(t)' = Holds(t)
  BY DEF Steady, Holds
<1>3. \A r : InRows(r)' = InRows(r)
  BY <1>2 DEF InRows
<1>4. \A t \in Owners : Holds(t) => \A r : StaysListed(t, r)' = StaysListed(t, r)
  BY <1>2 DEF Steady, StaysListed
<1>10. \A c \in Leasers : Holds(ParentOf[c])' <=> Holds(ParentOf[c])
  BY <1>2 DEF Holds
<1>5. \A c \in Leasers : Beside(c, {})' = Beside(c, {})
  BY <1>1, <1>2 DEF Beside, RowsOf
<1>6. \A c \in Leasers : Listed(NewRow(c)) => Listed(NewRow(c))'
  BY <1>1, <1>2, <1>3, <1>4 DEF Listed
<1>7. \A c \in Leasers : /\ RowsBut(c, {})' = RowsBut(c, {})
                        /\ RowsBut(c, {NewRow(c)})' = RowsBut(c, {NewRow(c)})
  BY <1>1 DEF RowsBut
<1>8. \A c \in Leasers : HasRow(c, {}) => HasRow(c, {})'
  BY <1>2, <1>3, <1>4, <1>7 DEF HasRow
<1>9. \A c \in Leasers : HasRow(c, {NewRow(c)}) => HasRow(c, {NewRow(c)})'
  BY <1>2, <1>3, <1>4, <1>7 DEF HasRow
<1> QED
  BY <1>1, <1>5, <1>6, <1>8, <1>9, <1>10

\* One child moves: its task or its tree, and what excuses it.
ChildAlone(c) ==
    /\ \A d \in Leasers \ {c} : tasks'[d] = tasks[d] /\ trees'[d] = trees[d]
    /\ loose' \in {loose, loose \cup {c}} /\ lost' = lost
    /\ \A t \in Owners \ {c} : jobs'[t] = jobs[t]
LEMMA ChildMoves ==
    ASSUME TreeInv, TreeTypes', NEW c \in Leasers, Steady, ChildAlone(c),
           AtWork(c)' /\ c \notin loose' => AtWork(c),
           ChildHolds(c)', jobs'[c] # jobs[c] => JobHolds(c)'
    PROVE  TreeInv'
<1>1. ASSUME NEW d \in Leasers, d # c PROVE ChildHolds(d)'
  <2>1. /\ tasks'[d] = tasks[d] /\ trees'[d] = trees[d] /\ jobs'[d] = jobs[d] /\ AtWork(d)' = AtWork(d)
        /\ d \in loose' <=> d \in loose
    BY <1>1 DEF ChildAlone, Owners, AtWork
  <2>2. ChildHolds(d)
    BY DEF TreeInv
  <2>3. /\ rows' = rows /\ procs' = procs /\ \A t \in Owners : Holds(t)' = Holds(t)
        /\ ParentOf[d] \in Owners /\ d \in Owners
    BY ParentType DEF Steady, Holds, Owners
  <2>4. Worked(d) => Worked(d)'
    BY <2>1, <2>3, ListingStays DEF Worked
  <2>5. Housed(d) => Housed(d)'
    BY <2>1, <2>3, ListingStays DEF Housed, RowsOf
  <2>6. ASSUME Spares(d) PROVE Spares(d)'
    <3>1. ASSUME NEW t \in Owners, jobs'[t].pc \in {"remove", "drop"} PROVE jobs'[t] = jobs[t]
      BY <3>1 DEF ChildAlone, Steady, JobHolds, Holds
    <3>2. ASSUME NEW t \in Owners, jobs'[t] = jobs[t], Spared(t, d) PROVE Spared(t, d)'
      BY <2>1, <2>3, <3>2, ListingStays DEF Spared
    <3> QED
      BY <2>3, <2>6, <3>1, <3>2 DEF Spares
  <2> QED
    BY <2>1, <2>2, <2>4, <2>5, <2>6, ListingStays DEF ChildHolds, ChildAlone
<1>2. ASSUME NEW t \in Owners, jobs'[t] = jobs[t] PROVE JobHolds(t)'
  <2>1. jobs'[t] = jobs[t] /\ rows' = rows /\ procs' = procs /\ JobHolds(t) /\ Holds(t)' = Holds(t)
    BY <1>2 DEF ChildAlone, Steady, TreeInv, Holds
  <2>2. ASSUME NEW i \in DOMAIN rows, ~Live(rows[i]) PROVE ~Live(rows[i])'
    <3>1. rows[i].child \in Leasers /\ rows'[i] = rows[i]
      BY <2>1, TreeTyped DEF TreeInv
    <3>2. CASE rows[i].child = c
      BY <2>1, <2>2, <3>1, <3>2, ListingStays DEF Live, ChildAlone
    <3>3. CASE rows[i].child # c
      BY <2>1, <2>2, <3>1, <3>3, ListingStays DEF Live, ChildAlone, AtWork
    <3> QED
      BY <3>2, <3>3
  <2>3. LeftIsOfRows(t) => LeftIsOfRows(t)'
    BY <2>1, <2>2 DEF LeftIsOfRows
  <2>4. OwnMarked(t) => OwnMarked(t)'
    BY <2>1 DEF OwnMarked
  <2> QED
    BY <2>1, <2>3, <2>4 DEF JobHolds
<1>3. ProcsApart'
  BY DEF TreeInv, ProcsApart, Steady
<1> QED
  BY <1>1, <1>2, <1>3 DEF TreeInv, ChildAlone

LEMMA JobRecord ==
    ASSUME NEW e, e \in Seq(RowType), e \in Listings
    PROVE  [pc |-> "lock", at |-> 1, left |-> e, listing |-> e] \in JobType
  BY DEF JobType, JobPlaces
\* A job that is begun: it has yet to take the lock.
LEMMA JobBegun ==
    ASSUME NEW j, j = [NoJob EXCEPT !.pc = "lock"]
    PROVE  j \in JobType /\ j.pc = "lock" /\ j.at = 1 /\ j.left = <<>> /\ DOMAIN j.left = {}
<1>1. PICK e : e = <<>> /\ DOMAIN e = {}
  OBVIOUS
<1>2. j = [pc |-> "lock", at |-> 1, left |-> e, listing |-> e]
  BY <1>1 DEF NoJob
<1>3. e \in Seq(RowType) /\ e \in Listings
  BY <1>1 DEF Listings
<1>4. j \in JobType
  BY <1>2, <1>3, JobRecord
<1>5. j.pc = "lock" /\ j.at = 1 /\ j.left = e
  BY <1>2
<1> QED
  BY <1>1, <1>4, <1>5

\* A child that is not at work, and does not come to be.
LEMMA IdleMoves ==
    ASSUME TreeInv, NEW c \in Leasers, tasks[c] # "releasing",
           ~AtWork(c), ~AtWork(c)', tasks'[c] # "releasing",
           UNCHANGED <<rows, procs, jobs, regLock, loose, lost>>,
           TreeTypes', \A d \in Leasers \ {c} : tasks'[d] = tasks[d] /\ trees'[d] = trees[d],
           tasks'[c] # "none" => ProcRuns(c),
           trees'[c].dir => trees[c].dir, trees'[c].branch = "ahead" => trees[c].branch = "ahead"
    PROVE  TreeInv'
<1>1. Steady /\ ChildAlone(c) /\ c \in Owners
  BY DEF Steady, ChildAlone, Owners
<1>2. ChildHolds(c) /\ JobHolds(c) /\ \A t \in Owners : Holds(t)' = Holds(t)
  BY <1>1 DEF TreeInv, Holds
<1>3. jobs[c].pc = "none" /\ ~Holds(c)
  BY <1>1, <1>2 DEF ChildHolds, JobHolds
<1>4. Worked(c)'
  BY DEF Worked, AtWork
<1>5. Housed(c) => Housed(c)'
  BY <1>1, <1>2, <1>3, ListingStays DEF Housed, AtWork
<1>6. Spares(c) => Spares(c)'
  <2>1. ASSUME NEW t \in Owners, Spared(t, c) PROVE Spared(t, c)'
    BY <1>1, <1>2, <2>1 DEF Spared, AtWork
  <2> QED
    BY <2>1 DEF Spares
<1>7. ChildHolds(c)'
  BY <1>1, <1>2, <1>3, <1>4, <1>5, <1>6, ListingStays DEF ChildHolds
<1> QED
  BY <1>1, <1>7, ChildMoves

LEMMA TreeTypesMove ==
    ASSUME TreeTypes, NEW c \in Leasers,
           NEW task \in {"none", "leasing", "creating", "adding", "undoing", "working", "releasing"},
           tasks' = [tasks EXCEPT ![c] = task],
           UNCHANGED <<rows, trees, procs, jobs, regLock, lost>>, loose' \in SUBSET Leasers
    PROVE  TreeTypes' /\ tasks'[c] = task /\ \A d \in Leasers \ {c} : tasks'[d] = tasks[d]
  BY DEF TreeTypes

LEMMA TreeAsks == ASSUME TreeInv, NEW c \in Leasers, Asks(c) PROVE TreeInv'
<1>1. /\ tasks' = [tasks EXCEPT ![c] = "leasing"] /\ tasks[c] = "none" /\ procs[ParentOf[c]].pc = "up"
      /\ UNCHANGED <<rows, trees, procs, jobs, regLock, loose, lost>>
  BY DEF Asks
<1>2. TreeTypes' /\ tasks'[c] = "leasing" /\ \A d \in Leasers \ {c} : tasks'[d] = tasks[d]
  BY <1>1, TreeTypesMove DEF TreeInv, TreeTypes
<1> QED
  BY <1>1, <1>2, IdleMoves DEF AtWork, ProcRuns

LEMMA TreeUnkept ==
    ASSUME TreeInv, NEW c \in Leasers, Lease(c), KeptFor(c) = {} PROVE TreeInv'
<1>1. /\ tasks' = [tasks EXCEPT ![c] = "creating"] /\ tasks[c] = "leasing"
      /\ UNCHANGED <<rows, trees, procs, jobs, regLock, loose, lost>>
  BY DEF Lease
<1>2. TreeTypes' /\ tasks'[c] = "creating" /\ \A d \in Leasers \ {c} : tasks'[d] = tasks[d]
  BY <1>1, TreeTypesMove DEF TreeInv, TreeTypes
<1> QED
  BY <1>1, <1>2, IdleMoves DEF AtWork, TreeInv, ChildHolds

LEMMA TreeChanges ==
    ASSUME TreeInv, NEW c \in Leasers, NEW x,
           x \in [dir : BOOLEAN, dirty : BOOLEAN, branch : {"none", "base", "ahead"}, on : OnBranch],
           trees' = [trees EXCEPT ![c] = x],
           UNCHANGED <<rows, tasks, procs, jobs, regLock, loose, lost>>,
           x.dir => trees[c].dir, x.branch = "ahead" => trees[c].branch = "ahead" \/ tasks[c] = "working",
           tasks[c] = "working" => x.dir = trees[c].dir
    PROVE  TreeInv'
<1>1. TreeTypes' /\ trees'[c] = x /\ \A d \in Leasers \ {c} : trees'[d] = trees[d]
  BY DEF TreeInv, TreeTypes
<1>2. Steady /\ ChildAlone(c) /\ c \in Owners /\ \A t \in Owners : Holds(t)' = Holds(t)
  BY <1>1 DEF Steady, ChildAlone, Owners, Holds
<1>3. ChildHolds(c) /\ (AtWork(c)' <=> AtWork(c))
  BY DEF TreeInv, AtWork
<1>4. Worked(c) => Worked(c)'
  BY <1>1, <1>2, <1>3, ListingStays DEF Worked
<1>5. Housed(c) => Housed(c)'
  BY <1>1, <1>2, ListingStays DEF Housed, RowsOf
<1>6. Spares(c) => Spares(c)'
  <2>1. ASSUME NEW t \in Owners, Spared(t, c) PROVE Spared(t, c)'
    BY <1>1, <1>2, <1>3, <2>1, ListingStays DEF Spared
  <2> QED
    BY <2>1 DEF Spares
<1>7. ChildHolds(c)'
  BY <1>1, <1>2, <1>3, <1>4, <1>5, <1>6, ListingStays DEF ChildHolds
<1> QED
  BY <1>1, <1>2, <1>3, <1>7, ChildMoves

LEMMA TreeUsed == ASSUME TreeInv, NEW c \in Leasers, Works(c) \/ Merges(c) \/ Deletes(c) PROVE TreeInv'
<1>1. trees[c] \in [dir : BOOLEAN, dirty : BOOLEAN, branch : {"none", "base", "ahead"}, on : OnBranch]
  BY DEF TreeInv, TreeTypes
<1>2. trees \in [Leasers -> [dir : BOOLEAN, dirty : BOOLEAN,
                             branch : {"none", "base", "ahead"}, on : OnBranch]]
  BY DEF TreeInv, TreeTypes
<1>3. CASE Works(c)
  <2>1. PICK x \in {[trees[c] EXCEPT !.dirty = TRUE], [trees[c] EXCEPT !.dirty = FALSE, !.branch = "ahead"],
                    [trees[c] EXCEPT !.on = "other"]} : trees' = [trees EXCEPT ![c] = x]
    BY <1>2, <1>3 DEF Works
  <2>2. x \in [dir : BOOLEAN, dirty : BOOLEAN, branch : {"none", "base", "ahead"}, on : OnBranch]
        /\ x.dir = trees[c].dir
    BY <1>1, <2>1 DEF OnBranch
  <2> QED
    BY <1>3, <2>1, <2>2, TreeChanges DEF Works
<1>4. CASE Merges(c)
  <2>1. PICK x : x = [trees[c] EXCEPT !.branch = "base"]
    OBVIOUS
  <2>2. trees' = [trees EXCEPT ![c] = x] /\ x.dir = trees[c].dir /\ x.branch = "base"
        /\ x \in [dir : BOOLEAN, dirty : BOOLEAN, branch : {"none", "base", "ahead"}, on : OnBranch]
    BY <1>1, <1>2, <1>4, <2>1 DEF Merges
  <2> QED
    BY <1>4, <2>2, TreeChanges DEF Merges
<1>5. CASE Deletes(c)
  <2>1. PICK x : x = [trees[c] EXCEPT !.dir = FALSE, !.dirty = FALSE]
    OBVIOUS
  <2>2. trees' = [trees EXCEPT ![c] = x] /\ x.dir = FALSE /\ x.branch = trees[c].branch
        /\ x \in [dir : BOOLEAN, dirty : BOOLEAN, branch : {"none", "base", "ahead"}, on : OnBranch]
    BY <1>1, <1>2, <1>5, <2>1 DEF Deletes
  <2> QED
    BY <1>5, <2>2, TreeChanges DEF Deletes
<1> QED
  BY <1>3, <1>4, <1>5

LEMMA TreeAdds == ASSUME TreeInv, NEW c \in Leasers, AddTree(c) PROVE TreeInv'
<1>1. tasks[c] = "adding" /\ ChildHolds(c) /\ AtWork(c) /\ ProcRuns(c) /\ c \in Owners
  BY DEF TreeInv, AddTree, ChildHolds, AtWork, Owners
<1>2. UNCHANGED <<rows, procs, jobs, regLock, lost>> /\ Steady /\ \A t \in Owners : Holds(t)' = Holds(t)
  BY DEF AddTree, Steady, Holds
<1>3. jobs[c].pc = "none" /\ ~Holds(c)
  BY <1>1 DEF TreeInv, ChildHolds, JobHolds
<1>4. CASE tasks' = [tasks EXCEPT ![c] = "undoing"] /\ UNCHANGED <<trees, loose>>
  <2>1. TreeTypes' /\ tasks'[c] = "undoing" /\ \A d \in Leasers \ {c} : tasks'[d] = tasks[d]
    BY <1>2, <1>4, TreeTypesMove DEF TreeInv, TreeTypes
  <2>2. AtWork(c)' /\ ChildAlone(c)
    BY <1>2, <1>4, <2>1 DEF AtWork, ChildAlone
  <2>3. Worked(c) => Worked(c)'
    BY <1>1, <1>2, <1>4, <2>1, ListingStays DEF Worked
  <2>4. Housed(c) => Housed(c)'
    BY <1>1, <1>2, <1>3, <1>4, <2>1, ListingStays DEF Housed
  <2>5. Spares(c) => Spares(c)'
    <3>1. ASSUME NEW t \in Owners, Spared(t, c) PROVE Spared(t, c)'
      BY <1>1, <1>2, <1>4, <2>1, <2>2, <3>1, ListingStays DEF Spared
    <3> QED
      BY <1>2, <3>1 DEF Spares
  <2>6. ChildHolds(c)'
    BY <1>1, <1>2, <1>3, <1>4, <2>1, <2>3, <2>4, <2>5, ListingStays DEF ChildHolds
  <2> QED
    BY <1>1, <1>2, <2>1, <2>2, <2>6, ChildMoves
<1>5. CASE /\ Addable(c) /\ tasks' = [tasks EXCEPT ![c] = "working"] /\ loose' = Excused(c, {})
           /\ trees' = [trees EXCEPT ![c] = [dir |-> TRUE, dirty |-> FALSE, branch |-> "base", on |-> "ours"]]
  <2>1. loose' \in {loose, loose \cup {c}} /\ (c \notin loose' => ~Beside(c, {}) /\ c \notin loose)
    BY <1>5 DEF Excused
  <2>2. TreeTypes' /\ tasks'[c] = "working" /\ trees'[c].dir /\ trees'[c].branch = "base"
        /\ \A d \in Leasers \ {c} : tasks'[d] = tasks[d] /\ trees'[d] = trees[d]
    BY <1>2, <1>5, <2>1 DEF TreeInv, TreeTypes, OnBranch
  <2>3. ChildAlone(c) /\ AtWork(c)'
    BY <1>2, <2>1, <2>2 DEF ChildAlone, AtWork
  <2>4. ASSUME c \notin loose' PROVE Worked(c)' /\ Housed(c)' /\ Spares(c)'
    <3>1. Worked(c) /\ Spares(c) /\ ~Beside(c, {}) /\ Listed(NewRow(c))
      BY <1>1, <2>1, <2>4 DEF ChildHolds, Worked
    <3>2. Worked(c)'
      BY <1>1, <1>2, <2>2, <3>1, ListingStays DEF Worked
    <3>3. NewRow(c) \in RowsBut(c, {})
      <4>1. NewRow(c).child = c /\ \E i \in DOMAIN rows : rows[i] = NewRow(c)
        BY <3>1 DEF NewRow, Listed, InRows
      <4> QED
        BY <4>1, TreeTyped DEF RowsBut, TreeInv
    <3>4. HasRow(c, {})
      BY <3>1, <3>3 DEF HasRow, Listed
    <3>5. Housed(c)'
      BY <1>1, <1>2, <1>3, <2>2, <3>4, ListingStays DEF Housed
    <3>6. ASSUME NEW t \in Owners, jobs[t].pc \in {"remove", "drop"}, rows[jobs[t].at].child = c PROVE FALSE
      <4>1. jobs[t].at \in DOMAIN rows /\ rows[jobs[t].at] # NewRow(c)
        BY <1>1, <3>1, <3>6 DEF Spares, Spared, TreeInv, JobHolds
      <4> QED
        BY <3>1, <3>6, <4>1 DEF Beside, RowsOf
    <3>7. Spares(c)'
      BY <1>2, <3>6 DEF Spares
    <3> QED
      BY <3>2, <3>5, <3>7
  <2>5. ChildHolds(c)'
    BY <1>1, <1>2, <1>3, <2>1, <2>2, <2>4, ListingStays DEF ChildHolds
  <2> QED
    BY <1>1, <1>2, <2>2, <2>3, <2>5, ChildMoves
<1> QED
  BY <1>4, <1>5 DEF AddTree

LEMMA TreeFinishes == ASSUME TreeInv, NEW c \in Leasers, Finish(c) PROVE TreeInv'
<1>1. /\ tasks[c] = "working" /\ ChildHolds(c) /\ ProcRuns(c) /\ c \in Owners /\ JobHolds(c)
      /\ tasks' = [tasks EXCEPT ![c] = "releasing"]
      /\ jobs' = [jobs EXCEPT ![c] = [NoJob EXCEPT !.pc = "lock"]]
      /\ UNCHANGED <<rows, trees, procs, regLock, loose, lost>>
  BY DEF TreeInv, Finish, ChildHolds, Owners
<1>2. jobs[c].pc = "none" /\ ~Holds(c)
  BY <1>1 DEF ChildHolds, JobHolds
<1>3. [NoJob EXCEPT !.pc = "lock"] \in JobType /\ [NoJob EXCEPT !.pc = "lock"].pc = "lock"
      /\ [NoJob EXCEPT !.pc = "lock"].at = 1 /\ [NoJob EXCEPT !.pc = "lock"].left = <<>>
  BY JobBegun
<1>4. /\ TreeTypes' /\ tasks'[c] = "releasing" /\ jobs'[c] = [NoJob EXCEPT !.pc = "lock"]
      /\ \A d \in Leasers \ {c} : tasks'[d] = tasks[d]
      /\ \A t \in Owners \ {c} : jobs'[t] = jobs[t]
  BY <1>1, <1>3 DEF TreeInv, TreeTypes
<1>5. Steady /\ ChildAlone(c) /\ ~AtWork(c)' /\ \A t \in Owners : Holds(t)' = Holds(t)
  BY <1>1, <1>2, <1>4 DEF Steady, ChildAlone, AtWork, Holds
<1>6. Worked(c)'
  BY <1>4, <1>5 DEF Worked
<1>7. Housed(c) => Housed(c)'
  BY <1>1, <1>2, <1>4, <1>5, ListingStays DEF Housed
<1>8. Spares(c) => Spares(c)'
  <2>1. ASSUME NEW t \in Owners, jobs'[t].pc \in {"remove", "drop"} PROVE jobs'[t] = jobs[t]
    BY <1>3, <1>4, <2>1
  <2>2. ASSUME NEW t \in Owners, jobs'[t] = jobs[t], Spared(t, c) PROVE Spared(t, c)'
    BY <1>1, <1>4, <1>5, <2>2 DEF Spared
  <2> QED
    BY <1>1, <2>1, <2>2 DEF Spares
<1>9. ChildHolds(c)'
  BY <1>1, <1>3, <1>4, <1>5, <1>6, <1>7, <1>8, ListingStays DEF ChildHolds
<1>10. JobHolds(c)'
  BY <1>1, <1>2, <1>3, <1>4, <1>5, OwnersApart DEF JobHolds, LeftIsOfRows
<1> QED
  BY <1>1, <1>4, <1>5, <1>9, <1>10, ChildMoves

LEMMA FreeLock ==
    ASSUME TreeInv, regLock = "none", NEW t \in Owners
    PROVE  ~Holds(t) /\ jobs[t].pc \in {"none", "lock"} /\ jobs[t].left = <<>> /\ jobs[t].at = 1
<1>1. regLock # t
  BY OwnersApart DEF Owners
<1>2. jobs[t].pc \in JobPlaces
  BY DEF TreeInv, TreeTypes, JobType
<1> QED
  BY <1>1, <1>2 DEF TreeInv, JobHolds, Holds, JobPlaces

\* The rows of one child change while nobody holds the lock.
LEMMA RowsMove ==
    ASSUME TreeInv, TreeTypes', NEW c \in Leasers, regLock = "none",
           UNCHANGED <<procs, jobs, regLock, trees, lost>>,
           \A d \in Leasers \ {c} : tasks'[d] = tasks[d],
           loose' \in {loose, loose \cup {c}},
           \A r \in RowType : r.child # c => (InRows(r)' <=> InRows(r)),
           ChildHolds(c)'
    PROVE  TreeInv'
<1>1. \A t \in Owners : ~Holds(t) /\ ~Holds(t)' /\ jobs[t].pc \in {"none", "lock"} /\ jobs[t].left = <<>>
  BY FreeLock DEF Holds
<1>2. ASSUME NEW d \in Leasers, d # c PROVE ChildHolds(d)'
  <2>1. /\ tasks'[d] = tasks[d] /\ trees'[d] = trees[d] /\ jobs'[d] = jobs[d] /\ AtWork(d)' = AtWork(d)
        /\ d \in loose' <=> d \in loose
        /\ NewRow(d)' = NewRow(d) /\ ProcRuns(d)' = ProcRuns(d) /\ ParentOf[d] \in Owners /\ d \in Owners
        /\ NewRow(d) \in RowType /\ NewRow(d).child = d
    BY <1>2, ParentType DEF AtWork, NewRow, PidOf, ProcRuns, Owners, RowType, TreeInv, TreeTypes
  <2>2. /\ RowsBut(d, {})' = RowsBut(d, {}) /\ RowsBut(d, {NewRow(d)})' = RowsBut(d, {NewRow(d)})
        /\ \A no : \A r \in RowsBut(d, no) : InRows(r)' <=> InRows(r)
    BY <1>2, <2>1 DEF RowsBut
  <2>3. Worked(d) => Worked(d)'
    <3>1. Listed(NewRow(d)) => Listed(NewRow(d))'
      BY <1>1, <1>2, <2>1 DEF Listed
    <3>2. ASSUME NEW i \in DOMAIN rows', rows'[i].child = d, rows'[i] # NewRow(d) PROVE Beside(d, {})
      <4>1. rows'[i] \in RowType
        BY <3>2 DEF TreeTypes
      <4>2. PICK r \in RowType : r = rows'[i]
        BY <4>1
      <4>3. InRows(r)'
        BY <3>2, <4>2 DEF InRows
      <4>4. InRows(r)
        BY <1>2, <3>2, <4>2, <4>3
      <4> QED
        BY <3>2, <4>2, <4>4 DEF InRows, Beside, RowsOf
    <3>3. Beside(d, {})' => Beside(d, {})
      BY <2>1, <3>2 DEF Beside, RowsOf
    <3> QED
      BY <1>1, <2>1, <3>1, <3>3 DEF Worked
  <2>4. Housed(d) => Housed(d)'
    <3>1. HasRow(d, {}) => HasRow(d, {})'
      BY <1>1, <2>2 DEF HasRow
    <3>2. HasRow(d, {NewRow(d)}) => HasRow(d, {NewRow(d)})'
      BY <1>1, <2>2 DEF HasRow
    <3> QED
      BY <1>1, <2>1, <3>1, <3>2 DEF Housed
  <2>5. Spares(d)'
    BY <1>1 DEF Spares
  <2> QED
    BY <2>1, <2>3, <2>4, <2>5 DEF TreeInv, ChildHolds
<1>3. ASSUME NEW t \in Owners PROVE JobHolds(t)'
  <2>1. LeftIsOfRows(t)' /\ OwnMarked(t)'
    BY <1>1 DEF LeftIsOfRows, OwnMarked
  <2> QED
    BY <1>1, <2>1 DEF TreeInv, JobHolds
<1>4. ProcsApart'
  BY DEF TreeInv, ProcsApart
<1> QED
  BY <1>2, <1>3, <1>4 DEF TreeInv

\* Of a child that writes to the registry: nobody holds the lock, and it does not settle.
LEMMA WriterFree ==
    ASSUME TreeInv, NEW c \in Leasers, regLock = "none",
           tasks[c] \in {"leasing", "creating", "undoing"}
    PROVE  /\ c \in Owners /\ ProcRuns(c) /\ ChildHolds(c) /\ jobs[c].pc = "none"
           /\ \A t \in Owners : ~Holds(t) /\ jobs[t].pc \in {"none", "lock"}
           /\ ParentOf[c] \in Owners
           /\ NewRow(c) \in RowType /\ NewRow(c).child = c
<1>1. c \in Owners /\ ChildHolds(c) /\ ParentOf[c] \in BhaiProcs
  BY ParentType DEF TreeInv, Owners
<1>2. PidOf(c) \in Pids \cup {0}
  BY <1>1 DEF TreeInv, TreeTypes, PidOf
<1> QED
  BY <1>1, <1>2, FreeLock DEF ChildHolds, NewRow, RowType, Owners

LEMMA TreeWrites == ASSUME TreeInv, NEW c \in Leasers, WriteRow(c) PROVE TreeInv'
<1>1. /\ tasks[c] = "creating" /\ regLock = "none" /\ rows' = Append(rows, NewRow(c))
      /\ tasks' = [tasks EXCEPT ![c] = "adding"]
      /\ UNCHANGED <<trees, procs, jobs, regLock, loose, lost>>
  BY DEF WriteRow
<1>2. /\ c \in Owners /\ ProcRuns(c) /\ ChildHolds(c) /\ jobs[c].pc = "none" /\ ParentOf[c] \in Owners
      /\ \A t \in Owners : ~Holds(t) /\ jobs[t].pc \in {"none", "lock"}
      /\ NewRow(c) \in RowType /\ NewRow(c).child = c /\ rows \in Seq(RowType)
  BY <1>1, WriterFree DEF TreeInv, TreeTypes
<1>3. /\ rows' \in Seq(RowType) /\ Len(rows') = Len(rows) + 1 /\ rows'[Len(rows) + 1] = NewRow(c)
      /\ \A i \in DOMAIN rows : rows'[i] = rows[i] /\ i \in DOMAIN rows'
      /\ DOMAIN rows' = DOMAIN rows \cup {Len(rows) + 1}
  BY <1>1, <1>2
<1>4. \A r : InRows(r)' <=> InRows(r) \/ r = NewRow(c)
  BY <1>3 DEF InRows
<1>5. TreeTypes' /\ tasks'[c] = "adding" /\ \A d \in Leasers \ {c} : tasks'[d] = tasks[d]
  BY <1>1, <1>3 DEF TreeInv, TreeTypes
<1>6. /\ NewRow(c)' = NewRow(c) /\ (ProcRuns(c)' <=> ProcRuns(c))
      /\ \A t \in Owners : ~Holds(t)'
  BY <1>1, <1>2 DEF NewRow, PidOf, ProcRuns, Holds
<1>7. Worked(c)'
  <2>1. Listed(NewRow(c))'
    BY <1>4, <1>6 DEF Listed
  <2> QED
    BY <1>2, <1>5, <1>6, <2>1 DEF Worked
<1>8. ASSUME Housed(c) PROVE Housed(c)'
  <2>1. RowsBut(c, {})' = RowsBut(c, {}) /\ RowsBut(c, {NewRow(c)})' = RowsBut(c, {NewRow(c)})
    BY <1>6 DEF RowsBut
  <2>2. HasRow(c, {}) => HasRow(c, {})'
    BY <1>4, <1>6, <2>1 DEF HasRow
  <2>3. HasRow(c, {NewRow(c)}) => HasRow(c, {NewRow(c)})'
    BY <1>4, <1>6, <2>1 DEF HasRow
  <2> QED
    BY <1>1, <1>2, <1>6, <1>8, <2>2, <2>3 DEF Housed
<1>9. Spares(c)'
  BY <1>1, <1>2 DEF Spares
<1>10. ChildHolds(c)'
  BY <1>1, <1>2, <1>5, <1>6, <1>7, <1>8, <1>9 DEF ChildHolds
<1> QED
  BY <1>1, <1>2, <1>4, <1>5, <1>10, RowsMove

LEMMA UndoneOf ==
    ASSUME TreeTypes, NEW c \in Leasers
    PROVE  /\ Undone(c) \in Seq(RowType)
           /\ \A r : (\E k \in DOMAIN Undone(c) : Undone(c)[k] = r) <=> InRows(r) /\ r # NewRow(c)
<1>1. PICK N \in Nat : N = Len(rows) /\ rows \in Seq(RowType) /\ DOMAIN rows = 1 .. N
  BY DEF TreeTypes
<1>2. PICK D : D = Seq(RowType)
  OBVIOUS
<1>3. PICK step : step = [n \in 1 .. N |-> [d \in D |-> IF rows[n] = NewRow(c) THEN d ELSE Append(d, rows[n])]]
  OBVIOUS
<1>4. step \in [1 .. N -> [D -> D]]
  BY <1>1, <1>2, <1>3
<1>5. PICK e \in D : e = <<>> /\ DOMAIN e = {}
  <2>1. <<>> \in D /\ DOMAIN <<>> = {}
    BY <1>2
  <2> QED
    BY <2>1
<1>6. PICK g \in [0 .. N -> D] : g[0] = e /\ \A n \in 1 .. N : g[n] = step[n][g[n - 1]]
  <2>1. StepsOver(N, D, e, step)
    BY <1>1, <1>4, <1>5 DEF StepsOver
  <2>2. PICK g : SteppedOver(N, D, e, step, g)
    BY <2>1, RecursionOverPlaces
  <2> QED
    BY <2>2 DEF SteppedOver
<1> DEFINE Left(f) == [n \in 0 .. Len(rows) |->
                        IF n = 0 THEN <<>>
                        ELSE IF rows[n] = NewRow(c) THEN f[n - 1] ELSE Append(f[n - 1], rows[n])]
<1>7. g = Left(g)
  <2>1. ASSUME NEW n \in 0 .. N, n # 0
        PROVE  g[n] = IF rows[n] = NewRow(c) THEN g[n - 1] ELSE Append(g[n - 1], rows[n])
    <3>1. n \in 1 .. N /\ n - 1 \in 0 .. N
      BY <2>1
    <3>2. g[n] = step[n][g[n - 1]] /\ g[n - 1] \in D
      BY <1>6, <3>1
    <3> QED
      BY <1>3, <3>1, <3>2
  <2> QED
    BY <1>1, <1>5, <1>6, <2>1
<1>8. PICK f : Undone(c) = f[Len(rows)] /\ f = Left(f)
  <2>1. Undone(c) = (CHOOSE f : f = Left(f))[Len(rows)]
    BY DEF Undone
  <2> HIDE DEF Left
  <2> QED
    BY <1>7, <2>1
<1>9. PICK holds : holds = {n \in 0 .. N : f[n] \in Seq(RowType) /\
           \A r : (\E k \in DOMAIN f[n] : f[n][k] = r) <=> (\E i \in 1 .. n : rows[i] = r) /\ r # NewRow(c)}
  OBVIOUS
<1>10. 0 \in holds
  <2>1. f[0] = e /\ 0 \in 0 .. N /\ e \in Seq(RowType) /\ DOMAIN e = {}
    BY <1>1, <1>2, <1>5, <1>8
  <2>2. ~ \E i \in 1 .. 0 : rows[i] = rows[i]
    OBVIOUS
  <2> QED
    BY <1>9, <2>1, <2>2
<1>11. ASSUME NEW n \in 1 .. N, n - 1 \in holds PROVE n \in holds
  <2>1. /\ n \in 0 .. N /\ n # 0 /\ n - 1 \in 0 .. N /\ rows[n] \in RowType
        /\ \A i : i \in 1 .. n <=> i \in 1 .. n - 1 \/ i = n
    BY <1>1
  <2>2. f[n] = IF rows[n] = NewRow(c) THEN f[n - 1] ELSE Append(f[n - 1], rows[n])
    BY <1>1, <1>8, <2>1
  <2>3. /\ f[n - 1] \in Seq(RowType)
        /\ \A r : (\E k \in DOMAIN f[n - 1] : f[n - 1][k] = r)
                 <=> (\E i \in 1 .. n - 1 : rows[i] = r) /\ r # NewRow(c)
    BY <1>9, <1>11
  <2>4. CASE rows[n] = NewRow(c)
    BY <1>9, <2>1, <2>2, <2>3, <2>4
  <2>5. CASE rows[n] # NewRow(c)
    <3>1. f[n] = Append(f[n - 1], rows[n])
      BY <2>2, <2>5
    <3>2. f[n] \in Seq(RowType)
          /\ \A r : (\E k \in DOMAIN f[n] : f[n][k] = r)
                   <=> (\E k \in DOMAIN f[n - 1] : f[n - 1][k] = r) \/ r = rows[n]
      <4>1. PICK s \in Seq(RowType) : s = f[n - 1]
        BY <2>3
      <4>2. PICK x \in RowType : x = rows[n]
        BY <2>1
      <4>3. PICK u : u = Append(s, x)
        OBVIOUS
      <4>4. /\ u \in Seq(RowType) /\ DOMAIN u = DOMAIN s \cup {Len(s) + 1} /\ u[Len(s) + 1] = x
            /\ \A k \in DOMAIN s : u[k] = s[k]
        BY <4>3
      <4> QED
        BY <3>1, <4>1, <4>2, <4>3, <4>4
    <3> QED
      BY <1>9, <2>1, <2>3, <2>5, <3>2
  <2> QED
    BY <2>4, <2>5
<1>12. N \in holds
  BY <1>10, <1>11, NumbersReached
<1>13. f[N] \in Seq(RowType) /\
       \A r : (\E k \in DOMAIN f[N] : f[N][k] = r) <=> (\E i \in 1 .. N : rows[i] = r) /\ r # NewRow(c)
  BY <1>9, <1>12
<1> QED
  BY <1>1, <1>8, <1>13 DEF InRows

LEMMA TreeUndone == ASSUME TreeInv, NEW c \in Leasers, UndoRow(c) PROVE TreeInv'
<1>1. /\ tasks[c] = "undoing" /\ regLock = "none" /\ rows' = Undone(c)
      /\ tasks' = [tasks EXCEPT ![c] = "none"]
      /\ UNCHANGED <<trees, procs, jobs, regLock, loose, lost>>
  BY DEF UndoRow
<1>2. /\ c \in Owners /\ ProcRuns(c) /\ ChildHolds(c) /\ jobs[c].pc = "none" /\ ParentOf[c] \in Owners
      /\ \A t \in Owners : ~Holds(t) /\ jobs[t].pc \in {"none", "lock"}
      /\ NewRow(c) \in RowType /\ NewRow(c).child = c
  BY <1>1, WriterFree
<1>3. rows' \in Seq(RowType) /\ \A r : InRows(r)' <=> InRows(r) /\ r # NewRow(c)
  BY <1>1, UndoneOf DEF InRows, TreeInv
<1>4. TreeTypes' /\ tasks'[c] = "none" /\ \A d \in Leasers \ {c} : tasks'[d] = tasks[d]
  BY <1>1, <1>3 DEF TreeInv, TreeTypes
<1>5. /\ NewRow(c)' = NewRow(c) /\ (ProcRuns(c)' <=> ProcRuns(c))
      /\ \A t \in Owners : ~Holds(t)'
  BY <1>1, <1>2 DEF NewRow, PidOf, ProcRuns, Holds
<1>6. Worked(c)' /\ Spares(c)'
  BY <1>1, <1>2, <1>4 DEF Worked, Spares, AtWork
<1>7. ASSUME Housed(c) PROVE Housed(c)'
  <2>1. RowsBut(c, {})' = RowsBut(c, {}) /\ RowsBut(c, {NewRow(c)})' = RowsBut(c, {NewRow(c)})
        /\ RowsBut(c, {NewRow(c)}) \subseteq RowsBut(c, {})
        /\ \A r \in RowsBut(c, {NewRow(c)}) : r # NewRow(c)
    BY <1>5 DEF RowsBut
  <2>2. HasRow(c, {NewRow(c)}) => HasRow(c, {})' /\ HasRow(c, {NewRow(c)})'
    BY <1>3, <1>5, <2>1 DEF HasRow
  <2> QED
    BY <1>1, <1>2, <1>5, <1>7, <2>2 DEF Housed
<1>8. ChildHolds(c)'
  BY <1>1, <1>2, <1>4, <1>5, <1>6, <1>7 DEF ChildHolds
<1> QED
  BY <1>1, <1>2, <1>3, <1>4, <1>8, RowsMove

LEMMA RowTaken ==
    ASSUME NEW c \in Leasers, NEW r \in RowType, r.child = c, NewRow(c) \in RowType
    PROVE  [[r EXCEPT !.kept = FALSE] EXCEPT !.pid = PidOf(c)] = NewRow(c)
<1>1. PICK x : x = [[r EXCEPT !.kept = FALSE] EXCEPT !.pid = PidOf(c)]
  OBVIOUS
<1>2. NewRow(c).child = c /\ NewRow(c).pid = PidOf(c) /\ NewRow(c).kept = FALSE
  BY DEF NewRow
<1>3. PidOf(c) \in Pids \cup {0}
  BY <1>2 DEF RowType
<1>4. x \in RowType /\ x.child = c /\ x.pid = PidOf(c) /\ x.kept = FALSE
  BY <1>1, <1>3 DEF RowType
<1>5. \A y, z \in RowType : y.child = z.child /\ y.pid = z.pid /\ y.kept = z.kept => y = z
  BY DEF RowType
<1> QED
  BY <1>1, <1>2, <1>4, <1>5

LEMMA LeastKept ==
    ASSUME TreeTypes, NEW c \in Leasers, KeptFor(c) # {}
    PROVE  Least(KeptFor(c)) \in KeptFor(c)
<1>1. KeptFor(c) \in SUBSET Nat
  BY TreeTyped DEF KeptFor, RowsOf
<1>2. \E x \in KeptFor(c) : \A y \in KeptFor(c) : x <= y
  BY <1>1, LeastOf
<1> QED
  BY <1>2 DEF Least

LEMMA TreeTaken == ASSUME TreeInv, NEW c \in Leasers, Lease(c), KeptFor(c) # {} PROVE TreeInv'
<1>1. /\ tasks[c] = "leasing" /\ regLock = "none" /\ rows' = TakenOver(c)
      /\ tasks' = [tasks EXCEPT ![c] = "working"] /\ loose' = Excused(c, {Least(KeptFor(c))})
      /\ UNCHANGED <<trees, procs, jobs, regLock, lost>>
  BY DEF Lease
<1>2. /\ c \in Owners /\ ProcRuns(c) /\ ChildHolds(c) /\ jobs[c].pc = "none" /\ ParentOf[c] \in Owners
      /\ \A t \in Owners : ~Holds(t) /\ jobs[t].pc \in {"none", "lock"}
      /\ NewRow(c) \in RowType /\ NewRow(c).child = c /\ rows \in Seq(RowType)
  BY <1>1, WriterFree DEF TreeInv, TreeTypes
<1>3. PICK i : i = Least(KeptFor(c))
  OBVIOUS
<1>4. i \in DOMAIN rows /\ rows[i].child = c /\ trees[c].dir /\ rows[i] \in RowType
  BY <1>2, <1>3, LeastKept, TreeTyped DEF TreeInv, KeptFor, RowsOf
<1>5. rows' = [rows EXCEPT ![i] = NewRow(c)]
  <2>1. rows' = [rows EXCEPT ![i] = [[rows[i] EXCEPT !.kept = FALSE] EXCEPT !.pid = PidOf(c)]]
    BY <1>1, <1>3, <1>4 DEF TakenOver
  <2>2. [[rows[i] EXCEPT !.kept = FALSE] EXCEPT !.pid = PidOf(c)] = NewRow(c)
    BY <1>2, <1>4, RowTaken
  <2> QED
    BY <2>1, <2>2
<1>6. /\ rows' \in Seq(RowType) /\ DOMAIN rows' = DOMAIN rows /\ rows'[i] = NewRow(c)
      /\ \A j \in DOMAIN rows \ {i} : rows'[j] = rows[j]
  BY <1>2, <1>4, <1>5
<1>7. \A r \in RowType : r.child # c => (InRows(r)' <=> InRows(r))
  BY <1>2, <1>4, <1>6 DEF InRows
<1>8. loose' \in {loose, loose \cup {c}} /\ (c \notin loose' => c \notin loose /\ ~Beside(c, {i}))
  BY <1>1, <1>3 DEF Excused
<1>9. TreeTypes' /\ tasks'[c] = "working" /\ \A d \in Leasers \ {c} : tasks'[d] = tasks[d]
  BY <1>1, <1>6, <1>8 DEF TreeInv, TreeTypes
<1>10. /\ NewRow(c)' = NewRow(c) /\ (ProcRuns(c)' <=> ProcRuns(c))
       /\ \A t \in Owners : ~Holds(t)'
  BY <1>1, <1>2 DEF NewRow, PidOf, ProcRuns, Holds
<1>11. Listed(NewRow(c))' /\ HasRow(c, {})'
  <2>1. InRows(NewRow(c))' /\ NewRow(c) \in RowsBut(c, {})'
    BY <1>2, <1>4, <1>6, <1>10 DEF InRows, RowsBut
  <2> QED
    BY <1>10, <2>1 DEF Listed, HasRow
<1>12. ~Beside(c, {i}) => ~Beside(c, {})'
  BY <1>4, <1>6, <1>10 DEF Beside, RowsOf
<1>13. c \notin loose' => Worked(c)' /\ Housed(c)' /\ Spares(c)'
  BY <1>1, <1>2, <1>4, <1>8, <1>9, <1>10, <1>11, <1>12 DEF Worked, Housed, Spares
<1>14. ChildHolds(c)'
  BY <1>1, <1>2, <1>8, <1>9, <1>10, <1>13 DEF ChildHolds
<1> QED
  BY <1>1, <1>2, <1>7, <1>8, <1>9, <1>14, RowsMove

\* What a child has, where it counts on no less: its rows, its worktree and its task as they
\* were, its process no further, and the lock held by nobody else.
LEMMA ChildStays ==
    ASSUME TreeInv, NEW c \in Leasers, ChildHolds(c),
           UNCHANGED <<rows, trees, loose, lost>>, tasks'[c] \in {tasks[c], "none"},
           tasks'[c] # "none" => ProcRuns(c)',
           ProcRuns(c)' => ProcRuns(c) /\ NewRow(c)' = NewRow(c),
           \A t \in Owners : jobs'[t].pc \in {"look", "remove", "drop"} => jobs'[t] = jobs[t],
           \A t \in Owners : Holds(t)' => Holds(t) /\ jobs'[t] = jobs[t],
           Holds(ParentOf[c])' /\ procs[ParentOf[c]].pc' = "quitting" => procs[ParentOf[c]].pc = "quitting",
           jobs'[c].pc # "none" <=> tasks'[c] = "releasing",
           tasks'[c] = "none" /\ tasks[c] # "none" => ~ProcRuns(c)'
    PROVE  ChildHolds(c)'
<1>1. c \in Owners /\ ParentOf[c] \in Owners
  BY ParentType DEF Owners
<1>2. \A r : InRows(r)' <=> InRows(r)
  BY DEF InRows
<1>3. \A t \in Owners : Holds(t)' => \A r : StaysListed(t, r) => StaysListed(t, r)'
  BY DEF StaysListed
<1>4. ASSUME Worked(c) PROVE Worked(c)'
  <2>1. CASE AtWork(c)'
    <3>1. AtWork(c) /\ tasks'[c] = tasks[c] /\ NewRow(c)' = NewRow(c)
      BY <2>1 DEF AtWork
    <3>2. Listed(NewRow(c))'
      BY <1>2, <1>3, <1>4, <3>1 DEF Worked, Listed
    <3>3. Beside(c, {})' = Beside(c, {})
      BY <3>1 DEF Beside, RowsOf
    <3>4. procs[ParentOf[c]].pc' = "quitting" /\ Holds(ParentOf[c])'
             => Holds(ParentOf[c]) /\ procs[ParentOf[c]].pc = "quitting"
      BY <1>1
    <3> QED
      BY <1>4, <3>1, <3>2, <3>3, <3>4 DEF Worked
  <2>2. CASE ~AtWork(c)'
    BY <2>2 DEF Worked, AtWork
  <2> QED
    BY <2>1, <2>2
<1>5. ASSUME Housed(c) PROVE Housed(c)'
  <2>1. RowsBut(c, {})' = RowsBut(c, {})
    BY DEF RowsBut
  <2>2. HasRow(c, {}) => HasRow(c, {})'
    BY <1>2, <1>3, <2>1 DEF HasRow
  <2>3. ASSUME ProcRuns(c)', HasRow(c, {NewRow(c)}) PROVE HasRow(c, {NewRow(c)})'
    <3>1. RowsBut(c, {NewRow(c)})' = RowsBut(c, {NewRow(c)})
      BY <2>3 DEF RowsBut
    <3> QED
      BY <1>2, <1>3, <2>3, <3>1 DEF HasRow
  <2>4. ProcRuns(c)' /\ tasks'[c] \notin {"working", "releasing"} => tasks[c] \notin {"working", "releasing"}
    OBVIOUS
  <2> QED
    BY <1>1, <1>5, <2>2, <2>3, <2>4 DEF Housed, RowsOf
<1>6. ASSUME Spares(c) PROVE Spares(c)'
  <2>1. ASSUME NEW t \in Owners, jobs'[t] = jobs[t], Spared(t, c) PROVE Spared(t, c)'
    BY <2>1 DEF Spared, AtWork
  <2> QED
    BY <1>6, <2>1 DEF Spares
<1> QED
  BY <1>4, <1>5, <1>6 DEF ChildHolds

\* Of a job: it is as it was, or it is begun or over.
LEMMA JobStays ==
    ASSUME TreeInv, NEW t \in Owners, JobHolds(t), UNCHANGED rows, jobs'[t] = jobs[t],
           Holds(t)' = Holds(t), t \in BhaiProcs => procs'[t] = procs[t],
           \A r \in RowType : Live(r)' => Live(r)
    PROVE  JobHolds(t)'
<1>1. \A i \in DOMAIN rows : rows[i] \in RowType
  BY TreeTyped DEF TreeInv
<1>2. LeftIsOfRows(t) => LeftIsOfRows(t)'
  BY <1>1 DEF LeftIsOfRows
<1>3. t \in BhaiProcs => (OwnMarked(t) => OwnMarked(t)')
  BY DEF OwnMarked
<1> QED
  BY <1>2, <1>3 DEF JobHolds

LEMMA JobBegins ==
    ASSUME TreeInv, NEW p \in BhaiProcs, NEW x,
           x \in [pc : {"starting", "up", "quitting"}, pid : Pids \cup {0}],
           procs' = [procs EXCEPT ![p] = x], jobs[p].pc = "none",
           jobs' = [jobs EXCEPT ![p] = [NoJob EXCEPT !.pc = "lock"]],
           UNCHANGED <<rows, trees, tasks, regLock, loose, lost>>,
           \/ procs[p].pc = "down" /\ x.pc = "starting"
           \/ procs[p].pc = "up" /\ x.pid = procs[p].pid /\ x.pc # "starting",
           ProcsApart'
    PROVE  TreeInv'
<1>1. PICK j : j = [NoJob EXCEPT !.pc = "lock"]
  OBVIOUS
<1>2. j \in JobType /\ j.pc = "lock" /\ j.at = 1 /\ j.left = <<>> /\ DOMAIN j.left = {}
  BY <1>1, JobBegun
<1>3. /\ p \in Owners /\ jobs'[p] = j /\ \A t \in Owners \ {p} : jobs'[t] = jobs[t]
      /\ procs'[p] = x /\ \A q \in BhaiProcs \ {p} : procs'[q] = procs[q]
      /\ \A t \in Owners : Holds(t)' = Holds(t)
      /\ TreeTypes'
  BY <1>1, <1>2 DEF TreeInv, TreeTypes, Owners, Holds
<1>4. ~Holds(p) /\ ~Holds(p)'
  BY <1>3 DEF TreeInv, JobHolds
<1>5. ASSUME NEW c \in Leasers PROVE ChildHolds(c)'
  <2>1. ChildHolds(c) /\ ParentOf[c] \in BhaiProcs /\ c \in Owners /\ c # p
    BY ParentType, OwnersApart DEF TreeInv, Owners
  <2>2. CASE ParentOf[c] = p
    <3>1. tasks[c] # "none" => procs[p].pc = "up"
      BY <2>1, <2>2 DEF ChildHolds, ProcRuns
    <3>2. ProcRuns(c)' => ProcRuns(c) /\ NewRow(c)' = NewRow(c)
      BY <1>3, <2>2 DEF ProcRuns, NewRow, PidOf
    <3>3. tasks[c] # "none" => ProcRuns(c)'
      BY <1>3, <2>2, <3>1 DEF ProcRuns
    <3> QED
      BY <1>2, <1>3, <1>4, <2>1, <2>2, <3>2, <3>3, ChildStays DEF ChildHolds
  <2>3. CASE ParentOf[c] # p
    <3>1. ProcRuns(c)' = ProcRuns(c) /\ NewRow(c)' = NewRow(c)
      BY <1>3, <2>1, <2>3 DEF ProcRuns, NewRow, PidOf
    <3> QED
      BY <1>2, <1>3, <1>4, <2>1, <2>3, <3>1, ChildStays DEF ChildHolds
  <2> QED
    BY <2>2, <2>3
<1>6. ASSUME NEW r \in RowType, Live(r)' PROVE Live(r)
  <2>1. r.child \in Leasers /\ ParentOf[r.child] \in BhaiProcs
    BY ParentType DEF RowType
  <2>2. AtWork(r.child) /\ tasks[r.child] # "none" /\ ProcRuns(r.child)
    BY <1>6, <2>1 DEF Live, AtWork, TreeInv, ChildHolds
  <2>3. NewRow(r.child)' = NewRow(r.child)
    BY <1>3, <2>1, <2>2 DEF ProcRuns, NewRow, PidOf
  <2> QED
    BY <1>6, <2>2, <2>3 DEF Live
<1>7. ASSUME NEW t \in Owners PROVE JobHolds(t)'
  <2>1. CASE t # p
    BY <1>3, <1>6, <2>1, JobStays DEF TreeInv
  <2>2. CASE t = p
    <3>1. jobs'[t] = j /\ DOMAIN jobs'[t].left = {} /\ procs'[t].pc \in {"starting", "up", "quitting"}
      <4>1. jobs'[t] = j /\ procs'[t] = x
        BY <1>3, <2>2
      <4>2. x.pc \in {"starting", "up", "quitting"}
        OBVIOUS
      <4> QED
        BY <1>2, <4>1, <4>2
    <3>2. LeftIsOfRows(t)' /\ OwnMarked(t)'
      BY <3>1 DEF LeftIsOfRows, OwnMarked
    <3> QED
      BY <1>2, <1>4, <2>2, <3>1, <3>2 DEF JobHolds
  <2> QED
    BY <2>1, <2>2
<1> QED
  BY <1>3, <1>5, <1>7 DEF TreeInv

LEMMA TreeBegins ==
    ASSUME TreeInv, NEW p \in BhaiProcs, StartProc(p) \/ Clean(p) \/ QuitProc(p) PROVE TreeInv'
<1>1. /\ JobHolds(p) /\ p \in Owners
      /\ procs \in [BhaiProcs -> [pc : {"down", "starting", "up", "quitting", "gone"}, pid : Pids \cup {0}]]
  BY DEF TreeInv, TreeTypes, Owners
<1>2. CASE StartProc(p)
  <2>1. PICK n \in Pids : ~Alive(n) /\ procs' = [procs EXCEPT ![p] = [pc |-> "starting", pid |-> n]]
    BY <1>2 DEF StartProc
  <2>2. [pc |-> "starting", pid |-> n] \in [pc : {"starting", "up", "quitting"}, pid : Pids \cup {0}]
    OBVIOUS
  <2>3. ProcsApart'
    BY <1>1, <2>1 DEF TreeInv, ProcsApart, Alive
  <2> QED
    BY <1>1, <1>2, <2>1, <2>2, <2>3, JobBegins DEF StartProc, JobHolds
<1>3. CASE Clean(p)
  <2>1. procs[p] \in [pc : {"starting", "up", "quitting"}, pid : Pids \cup {0}] /\ procs[p].pc = "up"
    BY <1>1, <1>3 DEF Clean
  <2>2. procs' = [procs EXCEPT ![p] = procs[p]] /\ ProcsApart'
    BY <1>1, <1>3 DEF Clean, TreeInv, ProcsApart
  <2> QED
    BY <1>3, <2>1, <2>2, JobBegins DEF Clean
<1>4. CASE QuitProc(p)
  <2>1. PICK x : x = [procs[p] EXCEPT !.pc = "quitting"]
    OBVIOUS
  <2>2. x \in [pc : {"starting", "up", "quitting"}, pid : Pids \cup {0}] /\ x.pc = "quitting"
        /\ x.pid = procs[p].pid
    BY <1>1, <2>1
  <2>3. procs' = [procs EXCEPT ![p] = x] /\ procs[p].pc = "up"
    BY <1>1, <1>4, <2>1 DEF QuitProc
  <2>4. ProcsApart'
    BY <1>1, <2>2, <2>3 DEF TreeInv, ProcsApart
  <2> QED
    BY <1>4, <2>2, <2>3, <2>4, JobBegins DEF QuitProc
<1> QED
  BY <1>2, <1>3, <1>4

LEMMA NoJobTyped ==
    /\ NoJob \in JobType /\ NoJob.pc = "none" /\ NoJob.at = 1 /\ NoJob.left = <<>>
    /\ DOMAIN NoJob.left = {}
<1>1. PICK e : e = <<>> /\ DOMAIN e = {}
  OBVIOUS
<1>2. e \in Seq(RowType) /\ e \in Listings /\ NoJob = [pc |-> "none", at |-> 1, left |-> e, listing |-> e]
  BY <1>1 DEF NoJob, Listings
<1>3. [pc |-> "none", at |-> 1, left |-> e, listing |-> e] \in JobType
  BY <1>2 DEF JobType, JobPlaces
<1> QED
  BY <1>1, <1>2, <1>3

LEMMA TreeDies == ASSUME TreeInv, NEW p \in BhaiProcs, Dies(p) PROVE TreeInv'
<1>1. /\ procs' = [procs EXCEPT ![p].pc = "down"]
      /\ jobs' = [t \in Owners |-> IF ProcOf(t) = p THEN NoJob ELSE jobs[t]]
      /\ tasks' = [c \in Leasers |-> IF ParentOf[c] = p THEN "none" ELSE tasks[c]]
      /\ regLock' = (IF regLock # "none" /\ ProcOf(regLock) = p THEN "none" ELSE regLock)
      /\ UNCHANGED <<rows, trees, loose, lost>>
  BY DEF Dies
<1>2. NoJob \in JobType /\ NoJob.pc = "none" /\ NoJob.at = 1 /\ NoJob.left = <<>>
  BY NoJobTyped
<1>3. /\ procs' \in [BhaiProcs -> [pc : {"down", "starting", "up", "quitting", "gone"}, pid : Pids \cup {0}]]
      /\ procs'[p].pc = "down" /\ procs'[p].pid = procs[p].pid
      /\ \A q \in BhaiProcs \ {p} : procs'[q] = procs[q]
  BY <1>1 DEF TreeInv, TreeTypes
<1>4. /\ \A t \in Owners : ProcOf(t) = p => jobs'[t] = NoJob /\ ~Holds(t)'
      /\ \A t \in Owners : ProcOf(t) # p => jobs'[t] = jobs[t] /\ (Holds(t)' <=> Holds(t))
  BY <1>1, OwnersApart DEF Holds, Owners
<1>5. TreeTypes'
  BY <1>1, <1>2, <1>3 DEF TreeInv, TreeTypes
<1>6. ProcsApart'
  BY <1>3 DEF TreeInv, ProcsApart
<1>7. \A c \in Leasers : /\ NewRow(c)' = NewRow(c) /\ c \in Owners /\ ProcOf(c) = ParentOf[c]
                        /\ ParentOf[c] \in BhaiProcs /\ ParentOf[c] \in Owners
                        /\ ProcOf(ParentOf[c]) = ParentOf[c]
                        /\ (ParentOf[c] # p => ProcRuns(c)' = ProcRuns(c))
                        /\ (ParentOf[c] = p => ~ProcRuns(c)')
                        /\ tasks'[c] = IF ParentOf[c] = p THEN "none" ELSE tasks[c]
  BY <1>1, <1>3, ParentType, OwnersApart DEF NewRow, PidOf, ProcRuns, Owners, ProcOf
<1>8. ASSUME NEW c \in Leasers PROVE ChildHolds(c)'
  <2>1. ChildHolds(c)
    BY DEF TreeInv
  <2>2. \A t \in Owners : jobs'[t].pc \in {"look", "remove", "drop"} => jobs'[t] = jobs[t]
    BY <1>2, <1>4
  <2>3. \A t \in Owners : Holds(t)' => Holds(t) /\ jobs'[t] = jobs[t]
    BY <1>4
  <2>4. Holds(ParentOf[c])' /\ procs[ParentOf[c]].pc' = "quitting" => procs[ParentOf[c]].pc = "quitting"
    BY <1>3, <1>7
  <2>5. jobs'[c].pc # "none" <=> tasks'[c] = "releasing"
    BY <1>2, <1>4, <1>7, <2>1 DEF ChildHolds
  <2>6. tasks'[c] # "none" => ProcRuns(c)'
    BY <1>7, <2>1 DEF ChildHolds
  <2> QED
    BY <1>1, <1>7, <2>1, <2>2, <2>3, <2>4, <2>5, <2>6, ChildStays
<1>9. ASSUME NEW r \in RowType, Live(r)' PROVE Live(r)
  <2>1. r.child \in Leasers
    BY DEF RowType
  <2> QED
    BY <1>1, <1>7, <1>9, <2>1 DEF Live, AtWork
<1>10. ASSUME NEW t \in Owners PROVE JobHolds(t)'
  <2>1. CASE ProcOf(t) # p
    <3>1. t \in BhaiProcs => procs'[t] = procs[t]
      BY <1>3, <2>1, OwnersApart DEF ProcOf
    <3>2. Holds(t)' = Holds(t)
      BY <1>4, <2>1 DEF Holds
    <3> QED
      BY <1>1, <1>4, <1>9, <2>1, <3>1, <3>2, JobStays DEF TreeInv
  <2>2. CASE ProcOf(t) = p
    <3>1. t \in BhaiProcs => procs'[t].pc = "down"
      BY <1>3, <2>2, OwnersApart DEF ProcOf
    <3> QED
      BY <1>2, <1>4, <2>2, <3>1 DEF JobHolds, LeftIsOfRows, OwnMarked
  <2> QED
    BY <2>1, <2>2
<1> QED
  BY <1>5, <1>6, <1>8, <1>10 DEF TreeInv

\* What a sweep, or a release, picks is not the row of a child at work.
LEMMA PickedIdle ==
    ASSUME TreeInv, NEW t \in Owners, Holds(t), NEW i \in DOMAIN rows, Picked(t, i)
    PROVE  ~Live(rows[i])
<1> SUFFICES ASSUME Live(rows[i]) PROVE FALSE
  OBVIOUS
<1>1. PICK c \in Leasers : c = rows[i].child
  BY TreeTyped DEF TreeInv
<1>2. /\ AtWork(c) /\ c \notin loose /\ rows[i] = NewRow(c) /\ ChildHolds(c) /\ JobHolds(t)
      /\ ParentOf[c] \in BhaiProcs
  BY <1>1, ParentType DEF Live, TreeInv
<1>3. ProcRuns(c) /\ Worked(c) /\ jobs[t].pc # "none"
  BY <1>2 DEF ChildHolds, AtWork, JobHolds
<1>4. CASE t \in Leasers
  BY <1>1, <1>2, <1>3, <1>4 DEF Picked, RowsOf, AtWork, TreeInv, ChildHolds
<1>5. CASE t \notin Leasers
  <2>1. t \in BhaiProcs /\ procs[t].pc \in {"starting", "up", "quitting"} /\ Picks(t, rows[i])
    BY <1>2, <1>3, <1>5 DEF Owners, JobHolds, Picked
  <2>2. rows[i].pid = procs[ParentOf[c]].pid /\ rows[i].kept = FALSE
    BY <1>2 DEF NewRow, PidOf
  <2>3. Alive(rows[i].pid)
    BY <1>2, <1>3, <2>2 DEF Alive, ProcRuns
  <2>4. procs[t].pid = rows[i].pid => ParentOf[c] = t
    BY <1>2, <1>3, <2>1, <2>2 DEF TreeInv, ProcsApart, ProcRuns
  <2>5. CASE procs[t].pc = "starting"
    BY <1>3, <2>1, <2>3, <2>4, <2>5 DEF Picks, ProcRuns
  <2>6. CASE procs[t].pc = "quitting"
    BY <1>2, <1>3, <2>1, <2>4, <2>6 DEF Picks, Worked
  <2>7. CASE procs[t].pc = "up"
    BY <2>1, <2>2, <2>3, <2>7 DEF Picks
  <2> QED
    BY <2>1, <2>5, <2>6, <2>7
<1> QED
  BY <1>4, <1>5

\* The holder alone is at a row.
LEMMA HolderAlone ==
    ASSUME TreeInv, NEW t \in Owners, Holds(t), NEW u \in Owners, u # t
    PROVE  ~Holds(u) /\ jobs[u].pc \in {"none", "lock"} /\ jobs[u].left = <<>> /\ jobs[u].at = 1
<1>1. ~Holds(u) /\ JobHolds(u) /\ jobs[u].pc \in JobPlaces
  BY DEF TreeInv, Holds, TreeTypes, JobType
<1> QED
  BY <1>1 DEF JobHolds, JobPlaces

\* What a step of the holder may do to the worktrees, and to what is lost.
TreesSpared ==
    /\ \A d \in Leasers :
         /\ trees'[d].dir => trees[d].dir
         /\ trees'[d].branch = "ahead" => trees[d].branch = "ahead"
         /\ tasks[d] = "working" /\ d \notin loose => trees'[d].dir = trees[d].dir
    /\ \A d \in lost' : d \in lost \/ d \in loose
    /\ UNCHANGED <<rows, tasks, procs, regLock, loose>>

\* It goes on with the row it is at.
LEMMA RowGoesOn ==
    ASSUME TreeInv, TreeTypes', NEW t \in Owners, Holds(t), jobs[t].at \in DOMAIN rows, TreesSpared,
           NEW pc \in {"remove", "drop"}, jobs' = [jobs EXCEPT ![t].pc = pc],
           NEW c \in Leasers, rows[jobs[t].at].child = c, c \notin loose => Spared(t, c)'
    PROVE  TreeInv'
<1>1. /\ jobs'[t].pc = pc /\ jobs'[t].left = jobs[t].left /\ jobs'[t].at = jobs[t].at
      /\ \A u \in Owners \ {t} : jobs'[u] = jobs[u]
      /\ UNCHANGED <<rows, tasks, procs, regLock, loose>>
      /\ jobs[t].pc \in {"look", "remove", "drop"}
  BY DEF TreesSpared, TreeInv, TreeTypes, JobType, JobHolds
<1>2. /\ \A u \in Owners : Holds(u)' = Holds(u)
      /\ \A u \in Owners : \A r : StaysListed(u, r)' = StaysListed(u, r)
      /\ \A r : InRows(r)' = InRows(r)
      /\ \A d \in Leasers : /\ NewRow(d)' = NewRow(d) /\ ProcRuns(d)' = ProcRuns(d) /\ d \in Owners
                            /\ AtWork(d)' = AtWork(d) /\ ParentOf[d] \in Owners
      /\ \A r \in RowType : Live(r)' = Live(r)
  BY <1>1, ParentType DEF Holds, StaysListed, InRows, NewRow, PidOf, ProcRuns, Owners, AtWork, Live, RowType
<1>3. ASSUME NEW d \in Leasers PROVE ChildHolds(d)'
  <2>1. ChildHolds(d)
    BY DEF TreeInv
  <2>2. jobs'[d].pc # "none" <=> jobs[d].pc # "none"
    BY <1>1, <1>2
  <2>3. ASSUME Worked(d), d \notin loose PROVE Worked(d)'
    BY <1>1, <1>2, <2>3 DEF Worked, Listed, Beside, RowsOf, TreesSpared
  <2>4. ASSUME Housed(d) PROVE Housed(d)'
    <3>1. RowsBut(d, {})' = RowsBut(d, {}) /\ RowsBut(d, {NewRow(d)})' = RowsBut(d, {NewRow(d)})
      BY <1>2 DEF RowsBut
    <3>2. (HasRow(d, {}) => HasRow(d, {})') /\ (HasRow(d, {NewRow(d)}) => HasRow(d, {NewRow(d)})')
      BY <1>2, <3>1 DEF HasRow
    <3>3. trees'[d].dir => trees[d].dir
      BY DEF TreesSpared
    <3>4. jobs'[d].left = jobs[d].left /\ jobs'[d].at = jobs[d].at /\ RowsOf(d)' = RowsOf(d)
      BY <1>1, <1>2 DEF RowsOf
    <3> QED
      BY <1>1, <1>2, <2>4, <3>2, <3>3, <3>4 DEF Housed
  <2>5. ASSUME d \notin loose PROVE Spares(d)'
    <3>1. ASSUME NEW u \in Owners, jobs'[u].pc \in {"remove", "drop"} PROVE u = t
      BY <1>1, <3>1, HolderAlone
    <3> QED
      BY <1>1, <2>5, <3>1 DEF Spares
  <2>6. d \in lost' => d \in loose
    BY <2>1 DEF ChildHolds, TreesSpared
  <2> QED
    BY <1>1, <1>2, <2>1, <2>2, <2>3, <2>4, <2>5, <2>6 DEF ChildHolds
<1>4. ASSUME NEW u \in Owners PROVE JobHolds(u)'
  <2>1. LeftIsOfRows(u) => LeftIsOfRows(u)'
    <3>1. jobs'[u].left = jobs[u].left /\ \A i \in DOMAIN rows : Live(rows[i])' = Live(rows[i])
      BY <1>1, <1>2, TreeTyped DEF TreeInv
    <3> QED
      BY <1>1, <3>1 DEF LeftIsOfRows
  <2>2. OwnMarked(u) => OwnMarked(u)'
    BY <1>1 DEF OwnMarked
  <2>3. JobHolds(u)
    BY DEF TreeInv
  <2>4. CASE u = t
    BY <1>1, <1>2, <2>1, <2>2, <2>3, <2>4 DEF JobHolds
  <2>5. CASE u # t
    BY <1>1, <1>2, <2>1, <2>2, <2>3, <2>5 DEF JobHolds
  <2> QED
    BY <2>4, <2>5
<1>5. ProcsApart'
  BY <1>1 DEF TreeInv, ProcsApart
<1> QED
  BY <1>3, <1>4, <1>5 DEF TreeInv

\* The row as it stands once it is settled, and what the holder has then.
Mark(r) == [r EXCEPT !.kept = TRUE]
LEMMA MarkTyped ==
    ASSUME NEW r \in RowType
    PROVE  Mark(r) \in RowType /\ Mark(r).child = r.child /\ Mark(r).kept /\ Mark(r).pid = r.pid
  BY DEF Mark, RowType
GoneOn(t, j, l) == j \in JobType /\ j.pc = "look" /\ j.at = jobs[t].at + 1 /\ j.left = l
LEMMA HolderGoesOn ==
    ASSUME TreeTypes, NEW t \in Owners, jobs[t].at \in DOMAIN rows
    PROVE  /\ GoneOn(t, PassedOver(t), Append(jobs[t].left, rows[jobs[t].at]))
           /\ GoneOn(t, Marked(t), Append(jobs[t].left, Mark(rows[jobs[t].at])))
           /\ GoneOn(t, LeftOut(t), jobs[t].left)
<1>1. jobs[t] \in JobType /\ rows[jobs[t].at] \in RowType /\ Mark(rows[jobs[t].at]) \in RowType
  BY TreeTyped, MarkTyped
<1>2. "look" \in JobPlaces /\ jobs[t].at + 1 \in Nat \ {0} /\ jobs[t].left \in Seq(RowType)
      /\ Append(jobs[t].left, rows[jobs[t].at]) \in Seq(RowType)
      /\ Append(jobs[t].left, Mark(rows[jobs[t].at])) \in Seq(RowType)
  BY <1>1 DEF JobPlaces, JobType
<1>4. ASSUME NEW n \in Nat \ {0}, NEW j, j = [jobs[t] EXCEPT !.pc = "look", !.at = n]
      PROVE  j \in JobType /\ j.pc = "look" /\ j.at = n /\ j.left = jobs[t].left
  BY <1>1, <1>2, <1>4 DEF JobType
<1>7. LeftOut(t) = [jobs[t] EXCEPT !.pc = "look", !.at = jobs[t].at + 1]
  BY DEF LeftOut
<1>8. GoneOn(t, PassedOver(t), Append(jobs[t].left, rows[jobs[t].at]))
  <2>1. PICK l \in Seq(RowType) : l = Append(jobs[t].left, rows[jobs[t].at])
    BY <1>2
  <2>2. PICK n \in Nat \ {0} : n = jobs[t].at + 1
    BY <1>2
  <2>3. PassedOver(t) = [jobs[t] EXCEPT !.pc = "look", !.at = n, !.left = l]
    BY <2>1, <2>2 DEF PassedOver
  <2>4. GoneOn(t, PassedOver(t), l)
    <3>1. PICK j : j = PassedOver(t)
      OBVIOUS
    <3>2. j \in JobType /\ j.pc = "look" /\ j.at = n /\ j.left = l
      BY <1>1, <1>2, <2>3, <3>1 DEF JobType
    <3> QED
      BY <2>2, <3>1, <3>2 DEF GoneOn
  <2> QED
    BY <2>1, <2>4
<1>9. GoneOn(t, Marked(t), Append(jobs[t].left, Mark(rows[jobs[t].at])))
  <2>1. PICK l \in Seq(RowType) : l = Append(jobs[t].left, Mark(rows[jobs[t].at]))
    BY <1>2
  <2>2. PICK n \in Nat \ {0} : n = jobs[t].at + 1
    BY <1>2
  <2>3. Marked(t) = [jobs[t] EXCEPT !.pc = "look", !.at = n, !.left = l]
    BY <2>1, <2>2 DEF Marked, Mark
  <2>4. GoneOn(t, Marked(t), l)
    <3>1. PICK j : j = Marked(t)
      OBVIOUS
    <3>2. j \in JobType /\ j.pc = "look" /\ j.at = n /\ j.left = l
      BY <1>1, <1>2, <2>3, <3>1 DEF JobType
    <3> QED
      BY <2>2, <3>1, <3>2 DEF GoneOn
  <2> QED
    BY <2>1, <2>4
<1>10. GoneOn(t, LeftOut(t), jobs[t].left)
  BY <1>2, <1>4, <1>7 DEF GoneOn
<1> QED
  BY <1>8, <1>9, <1>10

\* A row is settled: left as it is, left and marked, or left out with its worktree gone.
LEMMA RowSettled ==
    ASSUME TreeInv, NEW t \in Owners, Holds(t), jobs[t].at \in DOMAIN rows, TreesSpared,
           trees' \in [Leasers -> [dir : BOOLEAN, dirty : BOOLEAN,
                                   branch : {"none", "base", "ahead"}, on : OnBranch]],
           lost' \in SUBSET Leasers,
           NEW r, r = rows[jobs[t].at], NEW j, jobs' = [jobs EXCEPT ![t] = j],
           \/ GoneOn(t, j, Append(jobs[t].left, r)) /\ ~Picked(t, jobs[t].at)
           \/ GoneOn(t, j, Append(jobs[t].left, Mark(r))) /\ ~Live(r)
           \/ GoneOn(t, j, jobs[t].left) /\ ~Live(r) /\ (r.child \notin loose => ~trees'[r.child].dir)
    PROVE  TreeInv'
<1>1. PICK i : i = jobs[t].at
  OBVIOUS
<1>2. PICK l : l = jobs[t].left
  OBVIOUS
<1>3. /\ i \in DOMAIN rows /\ i \in Nat /\ r = rows[i] /\ r \in RowType /\ r.child \in Leasers /\ l \in Seq(RowType)
      /\ Mark(r) \in RowType /\ Mark(r).child = r.child /\ Mark(r).kept /\ Mark(r).pid = r.pid
  BY <1>1, <1>2, TreeTyped, MarkTyped DEF TreeInv
<1>4. /\ jobs'[t] = j /\ \A u \in Owners \ {t} : jobs'[u] = jobs[u]
      /\ UNCHANGED <<rows, tasks, procs, regLock, loose>>
      /\ j \in JobType /\ j.pc = "look" /\ j.at = i + 1 /\ j.left \in Seq(RowType)
      /\ jobs[t].pc \in {"look", "remove", "drop"}
  BY <1>1 DEF TreesSpared, TreeInv, TreeTypes, JobType, JobHolds, GoneOn
<1>5. TreeTypes'
  BY <1>4 DEF TreeInv, TreeTypes
<1>6. /\ \A u \in Owners : Holds(u)' = Holds(u)
      /\ \A x : InRows(x)' = InRows(x)
      /\ \A c \in Leasers : /\ NewRow(c)' = NewRow(c) /\ ProcRuns(c)' = ProcRuns(c) /\ c \in Owners
                            /\ AtWork(c)' = AtWork(c) /\ ParentOf[c] \in Owners /\ RowsOf(c)' = RowsOf(c)
      /\ \A x \in RowType : Live(x)' = Live(x)
  BY <1>4, ParentType DEF Holds, InRows, NewRow, PidOf, ProcRuns, Owners, AtWork, Live, RowType, RowsOf
<1>7. \A u \in Owners : Holds(u) => u = t
  BY DEF Holds
\* What is left: one row more, or none.
<1>8. ASSUME NEW x \in RowType, j.left = Append(l, x)
      PROVE  /\ DOMAIN j.left = DOMAIN l \cup {Len(l) + 1} /\ j.left[Len(l) + 1] = x
             /\ \A k \in DOMAIN l : j.left[k] = l[k]
  <2>1. PICK a : a = Append(l, x)
    OBVIOUS
  <2>2. DOMAIN a = DOMAIN l \cup {Len(l) + 1} /\ a[Len(l) + 1] = x /\ \A k \in DOMAIN l : a[k] = l[k]
    BY <1>3, <2>1
  <2> QED
    BY <1>8, <2>1, <2>2
<1>9. /\ \A k \in DOMAIN l : k \in DOMAIN j.left /\ j.left[k] = l[k]
      /\ \A k \in DOMAIN j.left : k \in DOMAIN l \/ j.left[k] = r \/ (j.left[k] = Mark(r) /\ ~Live(r))
      /\ (\E k \in DOMAIN j.left : j.left[k] = r)
           \/ (~Live(r) /\ \E k \in DOMAIN j.left : j.left[k] = Mark(r))
           \/ (~Live(r) /\ (r.child \notin loose => ~trees'[r.child].dir))
  <2>1. CASE GoneOn(t, j, Append(l, r))
    <3>1. j.left = Append(l, r)
      BY <2>1 DEF GoneOn
    <3> QED
      BY <1>3, <1>8, <3>1
  <2>2. CASE GoneOn(t, j, Append(l, Mark(r))) /\ ~Live(r)
    <3>1. j.left = Append(l, Mark(r))
      BY <2>2 DEF GoneOn
    <3> QED
      BY <1>3, <1>8, <2>2, <3>1
  <2>3. CASE GoneOn(t, j, l) /\ ~Live(r) /\ (r.child \notin loose => ~trees'[r.child].dir)
    BY <2>3 DEF GoneOn
  <2> QED
    BY <1>2, <2>1, <2>2, <2>3
<1>10. ASSUME NEW x, StaysListed(t, x), x # r PROVE StaysListed(t, x)'
  <2>1. CASE \E k \in DOMAIN l : l[k] = x
    BY <1>4, <1>9, <2>1 DEF StaysListed
  <2>2. CASE \E k \in DOMAIN rows : i <= k /\ rows[k] = x
    <3>1. PICK k \in DOMAIN rows : i <= k /\ rows[k] = x
      BY <2>2
    <3>2. k \in Nat /\ k # i
      BY <1>3, <1>10, <3>1, TreeTyped DEF TreeInv
    <3>3. j.at <= k
      BY <1>3, <1>4, <3>1, <3>2
    <3> QED
      BY <1>4, <3>1, <3>3 DEF StaysListed
  <2> QED
    BY <1>1, <1>2, <1>10, <2>1, <2>2 DEF StaysListed
<1>11. ASSUME NEW x, \E k \in DOMAIN j.left : j.left[k] = x PROVE StaysListed(t, x)'
  BY <1>4, <1>11 DEF StaysListed
<1>12. ASSUME NEW c \in Leasers, NEW no, no = {} \/ no = {NewRow(c)}, HasRow(c, no), Holds(t),
              c \notin loose, trees'[c].dir
       PROVE  \E x \in RowsBut(c, no) : StaysListed(t, x)'
  <2>1. PICK x \in RowsBut(c, no) : StaysListed(t, x)
    BY <1>12 DEF HasRow
  <2>2. CASE x # r
    BY <1>10, <2>1, <2>2
  <2>3. CASE x = r
    <3>1. r.child = c
      BY <2>1, <2>3 DEF RowsBut
    <3>2. Mark(r) # NewRow(c)
      BY <1>3 DEF NewRow
    <3>3. Mark(r) \in RowsBut(c, no)
      BY <1>3, <1>12, <3>1, <3>2 DEF RowsBut
    <3> QED
      BY <1>9, <1>11, <1>12, <2>1, <2>3, <3>1, <3>3
  <2> QED
    BY <2>2, <2>3
<1>13. ASSUME NEW c \in Leasers PROVE ChildHolds(c)'
  <2>1. ChildHolds(c) /\ c \in Owners
    BY <1>6 DEF TreeInv
  <2>2. jobs'[c].pc # "none" <=> jobs[c].pc # "none"
    BY <1>4, <2>1
  <2>3. ASSUME Worked(c), c \notin loose PROVE Worked(c)'
    <3>1. AtWork(c) => Listed(NewRow(c))'
      <4> SUFFICES ASSUME AtWork(c) PROVE Listed(NewRow(c))'
        OBVIOUS
      <4>1. Listed(NewRow(c)) /\ NewRow(c).child = c
        BY <2>3 DEF Worked, NewRow
      <4>2. NewRow(c) = r => \E k \in DOMAIN j.left : j.left[k] = r
        BY <1>9, <2>3, <4>1 DEF Live
      <4>3. PICK x : x = NewRow(c)
        OBVIOUS
      <4>4. StaysListed(t, x)'
        BY <1>10, <1>11, <4>1, <4>2, <4>3 DEF Listed
      <4> QED
        BY <1>6, <1>7, <4>1, <4>3, <4>4 DEF Listed
    <3>2. Beside(c, {})' = Beside(c, {})
      BY <1>4, <1>6 DEF Beside
    <3>3. tasks[c] = "working" => trees'[c].dir = trees[c].dir
      BY <2>3 DEF TreesSpared
    <3> QED
      BY <1>4, <1>6, <2>3, <3>1, <3>2, <3>3 DEF Worked
  <2>4. ASSUME Housed(c), c \notin loose PROVE Housed(c)'
    <3>1. RowsBut(c, {})' = RowsBut(c, {}) /\ RowsBut(c, {NewRow(c)})' = RowsBut(c, {NewRow(c)})
      BY <1>6 DEF RowsBut
    <3>2. trees'[c].dir => trees[c].dir
      BY DEF TreesSpared
    <3>3. ASSUME trees'[c].dir, HasRow(c, {}) PROVE HasRow(c, {})'
      <4>1. \E x \in RowsBut(c, {}) : InRows(x)'
        BY <1>6, <3>3 DEF HasRow
      <4>2. \A u \in Owners : Holds(u) => \E x \in RowsBut(c, {}) : StaysListed(u, x)'
        BY <1>7, <1>12, <2>4, <3>3
      <4> QED
        BY <1>6, <3>1, <4>1, <4>2 DEF HasRow
    <3>4. ASSUME trees'[c].dir, HasRow(c, {NewRow(c)}) PROVE HasRow(c, {NewRow(c)})'
      <4>1. \E x \in RowsBut(c, {NewRow(c)}) : InRows(x)'
        BY <1>6, <3>4 DEF HasRow
      <4>2. \A u \in Owners : Holds(u) => \E x \in RowsBut(c, {NewRow(c)}) : StaysListed(u, x)'
        BY <1>7, <1>12, <2>4, <3>4
      <4> QED
        BY <1>6, <3>1, <4>1, <4>2 DEF HasRow
    <3>5. ASSUME Holds(c), trees'[c].dir, \E k \in RowsOf(c) : k < jobs'[c].at
          PROVE  \E k \in DOMAIN jobs'[c].left : jobs'[c].left[k].child = c /\ jobs'[c].left[k].kept
      <4>1. c = t /\ jobs'[c].at = i + 1
        BY <1>4, <1>7, <2>1, <3>5
      <4>2. CASE \E k \in RowsOf(c) : k < i
        <5>1. PICK k \in DOMAIN l : l[k].child = c /\ l[k].kept
          BY <1>1, <1>2, <2>4, <3>2, <3>5, <4>1, <4>2 DEF Housed
        <5> QED
          BY <1>4, <1>9, <4>1, <5>1
      <4>3. CASE ~ \E k \in RowsOf(c) : k < i
        <5>1. \A k \in RowsOf(c) : k \in Nat
          BY TreeTyped DEF RowsOf, TreeInv
        <5>2. PICK k \in RowsOf(c) : k < i + 1
          BY <3>5, <4>1
        <5>3. k = i
          BY <1>3, <4>3, <5>1, <5>2
        <5>4. Picked(t, i) /\ r.child = c
          BY <1>3, <4>1, <4>3, <5>1, <5>2, <5>3 DEF Picked, RowsOf
        <5>5. GoneOn(t, j, Append(l, Mark(r)))
          BY <1>1, <1>2, <2>4, <3>5, <5>4
        <5>6. j.left[Len(l) + 1] = Mark(r) /\ Len(l) + 1 \in DOMAIN j.left
          BY <1>3, <1>8, <5>5 DEF GoneOn
        <5> QED
          BY <1>3, <1>4, <4>1, <5>4, <5>6
      <4> QED
        BY <4>2, <4>3
    <3> QED
      BY <1>4, <1>6, <2>1, <2>4, <3>2, <3>3, <3>4, <3>5 DEF Housed
  <2>5. Spares(c)'
    BY <1>4, HolderAlone DEF Spares
  <2>6. c \in lost' => c \in loose
    BY <2>1 DEF ChildHolds, TreesSpared
  <2> QED
    BY <1>4, <1>6, <2>1, <2>2, <2>3, <2>4, <2>5, <2>6 DEF ChildHolds
<1>14. ASSUME NEW u \in Owners, u # t PROVE JobHolds(u)'
  <2>1. Holds(u)' = Holds(u) /\ jobs'[u] = jobs[u] /\ procs' = procs /\ UNCHANGED rows
        /\ \A x \in RowType : Live(x)' => Live(x)
    BY <1>4, <1>6, <1>14
  <2> QED
    BY <2>1, JobStays DEF TreeInv
<1>15. JobHolds(t)'
  <2>1. JobHolds(t)
    BY DEF TreeInv
  <2>2. LeftIsOfRows(t)'
    <3>1. ASSUME NEW k \in DOMAIN j.left
          PROVE  \E m \in DOMAIN rows : j.left[k] = rows[m] \/ (j.left[k] = Mark(rows[m]) /\ ~Live(rows[m]))
      <4>1. CASE k \in DOMAIN l
        <5>1. PICK m \in DOMAIN rows : l[k] = rows[m] \/ (l[k] = Mark(rows[m]) /\ ~Live(rows[m]))
          BY <1>2, <2>1, <4>1 DEF JobHolds, LeftIsOfRows, Mark
        <5> QED
          BY <1>9, <4>1, <5>1
      <4>2. CASE k \notin DOMAIN l
        BY <1>3, <1>9, <3>1, <4>2
      <4> QED
        BY <4>1, <4>2
    <3>2. \A m \in DOMAIN rows : Live(rows[m])' = Live(rows[m])
      BY <1>4, <1>6, TreeTyped DEF TreeInv
    <3> QED
      BY <1>4, <3>1, <3>2 DEF LeftIsOfRows, Mark
  <2>3. ASSUME t \in BhaiProcs, procs[t].pc = "starting", OwnMarked(t) PROVE OwnMarked(t)'
    <3>1. ASSUME NEW k \in DOMAIN j.left, j.left[k].pid = procs[t].pid PROVE j.left[k].kept
      <4>1. CASE k \in DOMAIN l
        BY <1>2, <1>9, <2>3, <3>1, <4>1 DEF OwnMarked
      <4>2. CASE k \notin DOMAIN l /\ GoneOn(t, j, Append(l, r)) /\ ~Picked(t, i)
        <5>1. j.left[k] = r
          BY <1>3, <1>8, <3>1, <4>2 DEF GoneOn
        <5> QED
          BY <1>3, <2>3, <3>1, <4>2, <5>1, OwnersApart DEF Picked, Picks
      <4>3. CASE k \notin DOMAIN l /\ GoneOn(t, j, Append(l, Mark(r)))
        BY <1>3, <1>8, <3>1, <4>3 DEF GoneOn
      <4>4. CASE k \notin DOMAIN l /\ GoneOn(t, j, l)
        BY <3>1, <4>4 DEF GoneOn
      <4> QED
        BY <1>1, <1>2, <4>1, <4>2, <4>3, <4>4
    <3> QED
      BY <1>4, <3>1 DEF OwnMarked
  <2> QED
    BY <1>4, <1>6, <2>1, <2>2, <2>3 DEF JobHolds
<1>16. ProcsApart'
  BY <1>4 DEF TreeInv, ProcsApart
<1> QED
  BY <1>5, <1>13, <1>14, <1>15, <1>16 DEF TreeInv

LEMMA TreeLooks == ASSUME TreeInv, NEW t \in Owners, Look(t) PROVE TreeInv'
<1>1. PICK i \in DOMAIN rows : i = jobs[t].at
  BY DEF Look
<1>2. PICK c \in Leasers : c = rows[i].child
  BY TreeTyped DEF TreeInv
<1>3. Holds(t) /\ ChildHolds(c) /\ TreeTypes
      /\ UNCHANGED <<rows, tasks, procs, regLock, loose, lost>>
  BY DEF Look, TreeInv, JobHolds
<1>4. /\ GoneOn(t, PassedOver(t), Append(jobs[t].left, rows[i]))
      /\ GoneOn(t, Marked(t), Append(jobs[t].left, Mark(rows[i])))
      /\ GoneOn(t, LeftOut(t), jobs[t].left)
  BY <1>1, <1>3, HolderGoesOn
<1>5. trees' = trees \/ trees' = Pruned
  BY DEF Look
<1>6. trees' \in [Leasers -> [dir : BOOLEAN, dirty : BOOLEAN,
                              branch : {"none", "base", "ahead"}, on : OnBranch]]
      /\ \A d \in Leasers : trees'[d].dir = trees[d].dir /\ trees'[d].branch = trees[d].branch
  BY <1>3, <1>5, SMTT(30) DEF TreeTypes, Pruned, OnBranch
<1>7. TreesSpared /\ lost' \in SUBSET Leasers
  BY <1>3, <1>6 DEF TreesSpared, TreeTypes
<1>8. CASE ~Picked(t, i)
  <2>1. jobs' = [jobs EXCEPT ![t] = PassedOver(t)]
    BY <1>1, <1>8 DEF Look
  <2> QED
    BY <1>1, <1>3, <1>4, <1>6, <1>7, <1>8, <2>1, RowSettled
<1>9. CASE Picked(t, i)
  <2>1. PICK on : on = jobs[t].listing[c]
    OBVIOUS
  <2>2. ~Live(rows[i])
    BY <1>3, <1>9, PickedIdle
  <2>3. jobs' = [jobs EXCEPT ![t] = IF ~Spare(c, on) THEN Marked(t)
                      ELSE IF trees[c].dir THEN [jobs[t] EXCEPT !.pc = "remove"]
                      ELSE IF trees[c].branch = "none" THEN LeftOut(t)
                      ELSE [jobs[t] EXCEPT !.pc = "drop"]]
    BY <1>1, <1>2, <1>9, <2>1 DEF Look
  <2>4. CASE ~Spare(c, on)
    <3>1. jobs' = [jobs EXCEPT ![t] = Marked(t)]
      BY <2>3, <2>4
    <3> QED
      BY <1>1, <1>3, <1>4, <1>6, <1>7, <2>2, <3>1, RowSettled
  <2>5. CASE Spare(c, on) /\ ~trees[c].dir /\ trees[c].branch = "none"
    <3>1. jobs' = [jobs EXCEPT ![t] = LeftOut(t)]
      BY <2>3, <2>5
    <3> QED
      BY <1>1, <1>2, <1>3, <1>4, <1>6, <1>7, <2>2, <2>5, <3>1, RowSettled
  <2>6. CASE Spare(c, on) /\ (trees[c].dir \/ trees[c].branch # "none")
    <3>1. PICK pc \in {"remove", "drop"} : /\ jobs' = [jobs EXCEPT ![t].pc = pc]
                                           /\ pc = "drop" => ~trees[c].dir
      <4>1. CASE trees[c].dir
        BY <1>3, <2>3, <2>6, <4>1 DEF TreeTypes
      <4>2. CASE ~trees[c].dir
        BY <1>3, <2>3, <2>6, <4>2 DEF TreeTypes
      <4> QED
        BY <4>1, <4>2
    <3>2. PICK j : j = [jobs[t] EXCEPT !.pc = pc]
      OBVIOUS
    <3>3. j \in JobType /\ j.pc = pc /\ j.at = i
      BY <1>1, <1>3, <3>2 DEF TreeTypes, JobType, JobPlaces
    <3>4. jobs'[t] = j /\ TreeTypes'
      BY <1>3, <1>6, <3>1, <3>2, <3>3 DEF TreeTypes
    <3>5. ASSUME c \notin loose PROVE Spared(t, c)'
      <4>1. trees'[c].branch # "ahead"
        BY <1>6, <2>6 DEF Spare
      <4>2. AtWork(c) => rows[i] # NewRow(c)
        BY <1>2, <2>2, <3>5 DEF Live
      <4>3. tasks[c] # "working"
        BY <1>2, <1>3, <3>5, <4>2 DEF ChildHolds, Worked, AtWork, Beside, RowsOf
      <4>4. NewRow(c)' = NewRow(c) /\ AtWork(c)' = AtWork(c)
        BY <1>3 DEF NewRow, PidOf, AtWork
      <4> QED
        BY <1>3, <1>6, <3>1, <3>3, <3>4, <4>1, <4>2, <4>3, <4>4 DEF Spared
    <3> QED
      BY <1>1, <1>2, <1>3, <1>7, <3>1, <3>4, <3>5, RowGoesOn
  <2> QED
    BY <2>4, <2>5, <2>6
<1> QED
  BY <1>8, <1>9

LEMMA TreeRemoves == ASSUME TreeInv, NEW t \in Owners, RemovesTree(t) \/ DropBranch(t) PROVE TreeInv'
<1>1. Holds(t) /\ jobs[t].at \in DOMAIN rows /\ TreeTypes /\ jobs[t].pc \in {"remove", "drop"}
      /\ UNCHANGED <<rows, tasks, procs, regLock, loose>>
  BY DEF RemovesTree, DropBranch, TreeInv, JobHolds
<1>2. PICK i \in DOMAIN rows : i = jobs[t].at
  BY <1>1
<1>3. PICK c \in Leasers : c = rows[i].child
  BY TreeTyped DEF TreeInv
<1>4. ChildHolds(c) /\ (c \notin loose => Spared(t, c))
  BY <1>1, <1>2, <1>3 DEF TreeInv, ChildHolds, Spares
<1>5. ~Live(rows[i])
  BY <1>2, <1>3, <1>4 DEF Live, Spared
<1>6. /\ GoneOn(t, Marked(t), Append(jobs[t].left, Mark(rows[i])))
      /\ GoneOn(t, LeftOut(t), jobs[t].left)
  BY <1>1, <1>2, HolderGoesOn
<1>7. CASE RemovesTree(t) /\ jobs' = [jobs EXCEPT ![t] = Marked(t)] /\ UNCHANGED trees
  <2>1. TreesSpared /\ lost' \in SUBSET Leasers
    BY <1>1, <1>7 DEF TreesSpared, TreeTypes, RemovesTree
  <2> QED
    BY <1>1, <1>2, <1>5, <1>6, <1>7, <2>1, RowSettled DEF TreeTypes
<1>8. CASE /\ RemovesTree(t) /\ jobs' = [jobs EXCEPT ![t].pc = "drop"]
           /\ trees' = [trees EXCEPT ![c].dir = FALSE, ![c].on = "no"]
  <2>1. trees' \in [Leasers -> [dir : BOOLEAN, dirty : BOOLEAN,
                                branch : {"none", "base", "ahead"}, on : OnBranch]]
        /\ trees'[c].dir = FALSE /\ trees'[c].branch = trees[c].branch
        /\ \A d \in Leasers \ {c} : trees'[d] = trees[d]
    <3>1. PICK x : x = [trees[c] EXCEPT !.dir = FALSE, !.on = "no"]
      OBVIOUS
    <3>2. x \in [dir : BOOLEAN, dirty : BOOLEAN, branch : {"none", "base", "ahead"}, on : OnBranch]
          /\ x.dir = FALSE /\ x.branch = trees[c].branch
      BY <1>1, <3>1 DEF TreeTypes, OnBranch
    <3>3. trees' = [trees EXCEPT ![c] = x]
      BY <1>1, <1>8, <3>1 DEF TreeTypes
    <3> QED
      BY <1>1, <3>2, <3>3 DEF TreeTypes
  <2>2. TreesSpared
    BY <1>1, <1>4, <1>8, <2>1 DEF TreesSpared, Spared, RemovesTree
  <2>3. PICK j : j = [jobs[t] EXCEPT !.pc = "drop"]
    OBVIOUS
  <2>4. j \in JobType /\ j.pc = "drop" /\ j.at = i
    BY <1>1, <1>2, <2>3 DEF TreeTypes, JobType, JobPlaces
  <2>5. jobs'[t] = j /\ TreeTypes'
    BY <1>1, <1>8, <2>1, <2>3, <2>4 DEF TreeTypes, RemovesTree
  <2>6. NewRow(c)' = NewRow(c) /\ AtWork(c)' = AtWork(c)
    BY <1>1 DEF NewRow, PidOf, AtWork
  <2>7. c \notin loose => Spared(t, c)'
    BY <1>1, <1>2, <1>4, <2>1, <2>4, <2>5, <2>6 DEF Spared
  <2> QED
    BY <1>1, <1>2, <1>3, <1>8, <2>2, <2>5, <2>7, RowGoesOn
<1>9. CASE DropBranch(t)
  <2>1. jobs' = [jobs EXCEPT ![t] = LeftOut(t)]
    BY <1>9 DEF DropBranch
  <2>2. \/ /\ trees' = [trees EXCEPT ![c].branch = "none"]
           /\ lost' = IF trees[c].branch = "ahead" THEN lost \cup {c} ELSE lost
        \/ UNCHANGED <<trees, lost>>
    BY <1>2, <1>3, <1>9 DEF DropBranch
  <2>3. trees' \in [Leasers -> [dir : BOOLEAN, dirty : BOOLEAN,
                                branch : {"none", "base", "ahead"}, on : OnBranch]]
        /\ \A d \in Leasers : /\ trees'[d].dir = trees[d].dir
                              /\ trees'[d].branch = "ahead" => trees[d].branch = "ahead"
    BY <1>1, <2>2 DEF TreeTypes
  <2>4. lost' \in SUBSET Leasers /\ \A d \in lost' : d \in lost \/ d \in loose
    BY <1>1, <1>4, <2>2 DEF Spared, TreeTypes
  <2>5. c \notin loose => ~trees'[c].dir
    BY <1>4, <1>9, <2>3 DEF Spared, DropBranch
  <2>6. TreesSpared
    BY <1>1, <2>3, <2>4 DEF TreesSpared
  <2> QED
    BY <1>1, <1>2, <1>3, <1>5, <1>6, <2>1, <2>3, <2>4, <2>5, <2>6, RowSettled
<1> QED
  BY <1>2, <1>3, <1>7, <1>8, <1>9 DEF RemovesTree

LEMMA TreeLocks == ASSUME TreeInv, NEW t \in Owners, TakeLock(t) PROVE TreeInv'
<1>1. /\ jobs[t].pc = "lock" /\ regLock = "none" /\ regLock' = t
      /\ jobs' = [jobs EXCEPT ![t].pc = "look", ![t].listing = Listing]
      /\ loose' = (IF t \in BhaiProcs /\ procs[t].pc = "quitting"
                   THEN loose \cup {c \in Leasers : ParentOf[c] = t /\ AtWork(c)} ELSE loose)
      /\ UNCHANGED <<rows, trees, tasks, procs, lost>> /\ TreeTypes
  BY DEF TakeLock, TreeInv
<1>2. \A u \in Owners : ~Holds(u) /\ jobs[u].pc \in {"none", "lock"} /\ jobs[u].left = <<>> /\ jobs[u].at = 1
  BY <1>1, FreeLock
<1>3. Listing \in Listings
  <2>1. \A c \in Leasers : trees[c].on \in OnBranch
    BY <1>1 DEF TreeTypes
  <2> QED
    BY <2>1 DEF Listing, Listings
<1>4. PICK j : j = [jobs[t] EXCEPT !.pc = "look", !.listing = Listing]
  OBVIOUS
<1>5. j \in JobType /\ j.pc = "look" /\ j.left = jobs[t].left /\ j.at = jobs[t].at
  <2>1. jobs[t] \in JobType /\ "look" \in JobPlaces
    BY <1>1 DEF TreeTypes, JobPlaces
  <2> QED
    BY <1>3, <1>4, <2>1 DEF JobType
<1>6. jobs'[t] = j /\ \A u \in Owners \ {t} : jobs'[u] = jobs[u]
  BY <1>1, <1>4 DEF TreeTypes
<1>7. TreeTypes'
  <2>1. jobs' = [jobs EXCEPT ![t] = j]
    BY <1>1, <1>4 DEF TreeTypes
  <2> QED
    BY <1>1, <1>5, <2>1 DEF TreeTypes
<1>8. /\ \A u \in Owners : Holds(u)' <=> u = t
      /\ \A r : InRows(r)' = InRows(r)
      /\ \A c \in Leasers : NewRow(c)' = NewRow(c) /\ ProcRuns(c)' = ProcRuns(c)
                            /\ AtWork(c)' = AtWork(c) /\ c \in Owners
                            /\ ParentOf[c] \in BhaiProcs /\ ParentOf[c] \in Owners
  BY <1>1, ParentType DEF Holds, InRows, NewRow, PidOf, ProcRuns, AtWork, Owners
<1>9. \A r : InRows(r) => StaysListed(t, r)'
  <2>1. \A i \in DOMAIN rows : 1 <= i
    BY <1>1 DEF TreeTypes
  <2> QED
    BY <1>1, <1>2, <1>5, <1>6, <2>1 DEF StaysListed, InRows
<1>10. ASSUME NEW c \in Leasers PROVE ChildHolds(c)'
  <2>1. ChildHolds(c)
    BY DEF TreeInv
  <2>2. jobs'[c].pc # "none" <=> jobs[c].pc # "none"
    BY <1>1, <1>5, <1>6, <1>8
  <2>3. ASSUME Worked(c), c \notin loose' PROVE Worked(c)'
    <3>1. AtWork(c) => Listed(NewRow(c))'
      BY <1>8, <1>9, <2>3 DEF Worked, Listed
    <3>2. Beside(c, {})' = Beside(c, {})
      BY <1>1, <1>8 DEF Beside, RowsOf
    <3>3. AtWork(c) => ~(Holds(ParentOf[c])' /\ procs[ParentOf[c]].pc = "quitting")
      BY <1>1, <1>8, <2>3
    <3> QED
      BY <1>1, <1>8, <2>3, <3>1, <3>2, <3>3 DEF Worked
  <2>4. ASSUME Housed(c) PROVE Housed(c)'
    <3>1. RowsBut(c, {})' = RowsBut(c, {}) /\ RowsBut(c, {NewRow(c)})' = RowsBut(c, {NewRow(c)})
      BY <1>8 DEF RowsBut
    <3>2. HasRow(c, {}) => HasRow(c, {})'
      BY <1>8, <1>9, <3>1 DEF HasRow
    <3>3. HasRow(c, {NewRow(c)}) => HasRow(c, {NewRow(c)})'
      BY <1>8, <1>9, <3>1 DEF HasRow
    <3>4. ~ \E i \in RowsOf(c)' : i < jobs'[c].at
      <4>1. jobs'[c].at = 1 /\ \A i \in DOMAIN rows : i \in Nat /\ i >= 1
        BY <1>1, <1>2, <1>5, <1>6, <1>8 DEF TreeTypes
      <4> QED
        BY <1>1, <4>1 DEF RowsOf
    <3> QED
      BY <1>1, <1>8, <2>4, <3>2, <3>3, <3>4 DEF Housed
  <2>5. Spares(c)'
    BY <1>2, <1>5, <1>6 DEF Spares
  <2>6. c \in loose => c \in loose'
    BY <1>1
  <2> QED
    BY <1>1, <1>8, <2>1, <2>2, <2>3, <2>4, <2>5, <2>6 DEF ChildHolds
<1>11. ASSUME NEW u \in Owners PROVE JobHolds(u)'
  <2>1. JobHolds(u) /\ jobs[u].left = <<>> /\ jobs[u].at = 1 /\ jobs[u].pc \in {"none", "lock"}
    BY <1>2 DEF TreeInv
  <2>2. jobs'[u].left = <<>> /\ jobs'[u].at = 1 /\ (u # t => jobs'[u].pc = jobs[u].pc)
    BY <1>2, <1>5, <1>6
  <2>3. DOMAIN jobs'[u].left = {}
    BY <2>2
  <2>4. LeftIsOfRows(u)' /\ OwnMarked(u)'
    BY <2>3 DEF LeftIsOfRows, OwnMarked
  <2>5. CASE u = t
    BY <1>1, <1>5, <1>6, <1>8, <2>1, <2>2, <2>4, <2>5 DEF JobHolds
  <2>6. CASE u # t
    BY <1>1, <1>8, <2>1, <2>2, <2>4, <2>6 DEF JobHolds
  <2> QED
    BY <2>5, <2>6
<1>12. ProcsApart'
  BY <1>1 DEF TreeInv, ProcsApart
<1> QED
  BY <1>7, <1>10, <1>11, <1>12 DEF TreeInv

\* The registry is what was left: what stood stands, and nobody is at a row.
LEMMA TreeSaves == ASSUME TreeInv, NEW t \in Owners, Save(t) PROVE TreeInv'
<1>1. /\ jobs[t].pc = "look" /\ jobs[t].at \notin DOMAIN rows /\ regLock' = "none"
      /\ rows' = jobs[t].left /\ jobs' = [jobs EXCEPT ![t] = NoJob]
      /\ UNCHANGED <<loose, lost>> /\ TreeTypes /\ JobHolds(t) /\ Holds(t)
  BY DEF Save, TreeInv, JobHolds
<1>2. NoJob \in JobType /\ NoJob.pc = "none" /\ NoJob.at = 1 /\ NoJob.left = <<>> /\ DOMAIN NoJob.left = {}
  BY NoJobTyped
<1>3. /\ jobs'[t] = NoJob /\ \A u \in Owners \ {t} : jobs'[u] = jobs[u]
      /\ \A u \in Owners \ {t} : jobs[u].pc \in {"none", "lock"} /\ jobs[u].left = <<>> /\ jobs[u].at = 1
      /\ \A u \in Owners : ~Holds(u)' /\ jobs'[u].pc \in {"none", "lock"}
  BY <1>1, <1>2, HolderAlone, OwnersApart DEF TreeTypes, Holds, Owners
<1>4. PICK l \in Seq(RowType) : l = jobs[t].left /\ rows' = l
  BY <1>1, TreeTyped
<1>5. \A i \in DOMAIN rows : i < jobs[t].at
  BY <1>1, TreeTyped DEF TreeTypes
<1>6. \A r : StaysListed(t, r) => InRows(r)'
  <2>1. ASSUME NEW r, StaysListed(t, r) PROVE \E k \in DOMAIN l : l[k] = r
    <3>1. ~ \E i \in DOMAIN rows : jobs[t].at <= i /\ rows[i] = r
      BY <1>1, <1>5, TreeTyped
    <3> QED
      BY <1>4, <2>1, <3>1 DEF StaysListed
  <2> QED
    BY <1>4, <2>1 DEF InRows
<1>7. /\ \A c \in Leasers : tasks'[c] = IF c = t THEN "none" ELSE tasks[c]
      /\ \A c \in Leasers : trees'[c].dir = trees[c].dir
      /\ t \in Leasers => tasks[t] = "releasing"
  <2>1. t \in Leasers => ChildHolds(t)
    BY DEF TreeInv
  <2>2. \A c \in Leasers : Pruned[c].dir = trees[c].dir
    BY <1>1 DEF Pruned, TreeTypes
  <2> QED
    BY <1>1, <2>1, <2>2 DEF Save, TreeTypes, ChildHolds
<1>8. /\ \A p \in BhaiProcs : p # t => procs'[p] = procs[p]
      /\ \A p \in BhaiProcs : procs'[p].pid = procs[p].pid
      /\ t \in BhaiProcs => procs'[t].pc = IF procs[t].pc = "quitting" THEN "gone" ELSE "up"
      /\ t \in BhaiProcs => procs[t].pc \in {"starting", "up", "quitting"}
  <2>1. t \in BhaiProcs => t \notin Leasers
    BY OwnersApart
  <2> QED
    BY <1>1, <2>1 DEF Save, TreeTypes, JobHolds
<1>9. TreeTypes'
  <2>1. jobs' \in [Owners -> JobType] /\ rows' \in Seq(RowType) /\ regLock' \in Owners \cup {"none"}
    BY <1>1, <1>2, <1>4 DEF TreeTypes
  <2>2. tasks' \in [Leasers -> {"none", "leasing", "creating", "adding", "undoing", "working", "releasing"}]
    BY <1>1 DEF TreeTypes, Save
  <2>3. procs' \in [BhaiProcs -> [pc : {"down", "starting", "up", "quitting", "gone"}, pid : Pids \cup {0}]]
    BY <1>1 DEF TreeTypes, Save
  <2>4. trees' \in [Leasers -> [dir : BOOLEAN, dirty : BOOLEAN,
                                branch : {"none", "base", "ahead"}, on : OnBranch]]
    <3>1. Pruned \in [Leasers -> [dir : BOOLEAN, dirty : BOOLEAN,
                                  branch : {"none", "base", "ahead"}, on : OnBranch]]
      BY <1>1 DEF Pruned, TreeTypes, OnBranch
    <3> QED
      BY <1>1, <3>1 DEF TreeTypes, Save
  <2> QED
    BY <1>1, <2>1, <2>2, <2>3, <2>4 DEF TreeTypes
<1>10. /\ \A c \in Leasers : NewRow(c)' = NewRow(c) /\ c \in Owners /\ ParentOf[c] \in BhaiProcs /\ ParentOf[c] # c
       /\ \A c \in Leasers : ProcRuns(c) => ProcRuns(c)'
       /\ \A c \in Leasers : ProcRuns(c)' /\ ~ProcRuns(c) => ParentOf[c] = t /\ procs[t].pc = "starting"
  BY <1>8, ParentType, OwnersApart DEF NewRow, PidOf, ProcRuns, Owners
<1>11. ASSUME NEW c \in Leasers, NEW r \in RowsBut(c, {}), StaysListed(t, r)
       PROVE  HasRow(c, {})' /\ (r # NewRow(c) => HasRow(c, {NewRow(c)})')
  <2>1. r \in RowsBut(c, {})' /\ (r # NewRow(c) => r \in RowsBut(c, {NewRow(c)})')
    BY <1>10 DEF RowsBut
  <2> QED
    BY <1>3, <1>6, <1>11, <2>1 DEF HasRow
<1>12. ASSUME NEW c \in Leasers, c \notin loose, Worked(c) PROVE Worked(c)'
  <2>1. AtWork(c)' => AtWork(c) /\ c # t
    BY <1>7 DEF AtWork
  <2>2. AtWork(c)' => Listed(NewRow(c))'
    BY <1>1, <1>3, <1>6, <1>10, <1>12, <2>1 DEF Worked, Listed
  <2>3. ASSUME tasks'[c] = "working", NEW k \in DOMAIN l, l[k].child = c PROVE l[k] = NewRow(c)
    <3>1. tasks[c] = "working" /\ AtWork(c) /\ \A i \in RowsOf(c) : rows[i] = NewRow(c)
      BY <1>7, <1>12, <2>3 DEF Worked, Beside, AtWork
    <3>2. PICK i \in DOMAIN rows : l[k] = rows[i] \/ (l[k] = Mark(rows[i]) /\ ~Live(rows[i]))
      BY <1>1, <1>4 DEF JobHolds, LeftIsOfRows, Mark
    <3>3. rows[i].child = c
      BY <1>1, <2>3, <3>2, TreeTyped, MarkTyped
    <3>4. rows[i] = NewRow(c)
      BY <3>1, <3>3 DEF RowsOf
    <3> QED
      BY <1>12, <3>1, <3>2, <3>3, <3>4 DEF Live
  <2>4. tasks'[c] = "working" => ~Beside(c, {})'
    BY <1>4, <1>10, <2>3 DEF Beside, RowsOf
  <2>5. tasks'[c] = "working" => trees'[c].dir
    BY <1>7, <1>12 DEF Worked
  <2>6. ~Holds(ParentOf[c])'
    BY <1>3, <1>10 DEF Owners
  <2> QED
    BY <2>2, <2>4, <2>5, <2>6 DEF Worked
<1>13. ASSUME NEW c \in Leasers, Housed(c) PROVE Housed(c)'
  <2>1. trees[c].dir => \E r \in RowsBut(c, {}) : StaysListed(t, r)
    BY <1>1, <1>13 DEF Housed, HasRow
  <2>2. ASSUME trees[c].dir, tasks'[c] \notin {"working", "releasing"}, ProcRuns(c)'
        PROVE  \E r \in RowsBut(c, {}) : StaysListed(t, r) /\ r # NewRow(c)
    <3>1. CASE c = t
      <4>1. \E i \in RowsOf(c) : i < jobs[c].at
        BY <1>5, <1>13, <2>2, <3>1 DEF Housed, HasRow, RowsBut, InRows, RowsOf
      <4>2. PICK k \in DOMAIN jobs[c].left : jobs[c].left[k].child = c /\ jobs[c].left[k].kept
        BY <1>1, <1>13, <2>2, <3>1, <4>1 DEF Housed
      <4>3. PICK r \in RowType : r = jobs[c].left[k]
        BY <1>1, <3>1, TreeTyped
      <4>4. r \in RowsBut(c, {}) /\ r # NewRow(c)
        BY <4>2, <4>3 DEF RowsBut, NewRow
      <4>5. StaysListed(t, r)
        BY <3>1, <4>3 DEF StaysListed
      <4> QED
        BY <4>4, <4>5
    <3>2. CASE c # t /\ ProcRuns(c)
      <4>1. HasRow(c, {NewRow(c)})
        BY <1>7, <1>13, <2>2, <3>2 DEF Housed
      <4> QED
        BY <1>1, <4>1 DEF HasRow, RowsBut
    <3>3. CASE ~ProcRuns(c)
      <4>1. t \in BhaiProcs /\ OwnMarked(t) /\ ParentOf[c] = t
        BY <1>1, <1>10, <2>2, <3>3 DEF JobHolds
      <4>2. PICK r \in RowsBut(c, {}) : StaysListed(t, r)
        BY <2>1, <2>2
      <4>3. PICK k \in DOMAIN l : l[k] = r
        BY <1>4, <1>6, <4>2 DEF InRows
      <4>4. r # NewRow(c)
        BY <1>4, <4>1, <4>3 DEF OwnMarked, NewRow, PidOf
      <4> QED
        BY <4>2, <4>4
    <3> QED
      BY <3>1, <3>2, <3>3
  <2>3. ~Holds(c)'
    BY <1>3, <1>10
  <2> QED
    BY <1>7, <1>11, <2>1, <2>2, <2>3 DEF Housed
<1>14. ASSUME NEW c \in Leasers PROVE ChildHolds(c)'
  <2>1. ChildHolds(c)
    BY DEF TreeInv
  <2>2. jobs'[c].pc # "none" <=> tasks'[c] = "releasing"
    BY <1>2, <1>3, <1>7, <1>10, <2>1 DEF ChildHolds
  <2>3. tasks'[c] # "none" => ProcRuns(c)'
    BY <1>7, <1>10, <2>1 DEF ChildHolds
  <2>4. Spares(c)'
    BY <1>3 DEF Spares
  <2> QED
    BY <1>1, <1>12, <1>13, <2>1, <2>2, <2>3, <2>4 DEF ChildHolds
<1>15. ASSUME NEW u \in Owners PROVE JobHolds(u)'
  <2>1. jobs'[u].left = <<>> /\ jobs'[u].at = 1 /\ DOMAIN jobs'[u].left = {}
    BY <1>2, <1>3
  <2>2. LeftIsOfRows(u)' /\ OwnMarked(u)'
    BY <2>1 DEF LeftIsOfRows, OwnMarked
  <2>3. JobHolds(u)
    BY DEF TreeInv
  <2>4. CASE u = t
    BY <1>2, <1>3, <1>8, <2>1, <2>2, <2>4 DEF JobHolds
  <2>5. CASE u # t
    BY <1>3, <1>8, <2>1, <2>2, <2>3, <2>5 DEF JobHolds
  <2> QED
    BY <2>4, <2>5
<1>16. ProcsApart'
  BY <1>8 DEF TreeInv, ProcsApart
<1> QED
  BY <1>9, <1>14, <1>15, <1>16 DEF TreeInv

LEMMA TreeStep == ASSUME TreeInv, [TreeNext]_treeVars PROVE TreeInv'
<1>1. ASSUME NEW c \in Leasers, LeaserSteps(c) PROVE TreeInv'
  <2>1. Lease(c) => TreeInv'
    BY TreeTaken, TreeUnkept
  <2> QED
    BY <1>1, <2>1, TreeAsks, TreeWrites, TreeAdds, TreeUndone, TreeUsed, TreeFinishes DEF LeaserSteps
<1>2. ASSUME NEW t \in Owners, Settles(t) PROVE TreeInv'
  BY <1>2, TreeLocks, TreeLooks, TreeRemoves, TreeSaves DEF Settles
<1>3. ASSUME NEW p \in BhaiProcs, StartProc(p) \/ Clean(p) \/ QuitProc(p) \/ Dies(p) PROVE TreeInv'
  BY <1>3, TreeBegins, TreeDies
<1>4. ASSUME UNCHANGED treeVars PROVE TreeInv'
  <2>1. UNCHANGED <<rows, trees, tasks, procs, jobs, regLock, loose, lost>>
    BY <1>4 DEF treeVars
  <2>2. TreeTypes' /\ ProcsApart'
    BY <2>1 DEF TreeInv, TreeTypes, ProcsApart
  <2>3. ASSUME NEW c \in Leasers PROVE ChildHolds(c)'
    BY <2>1 DEF TreeInv, ChildHolds, Worked, Housed, Spares, Spared, ProcRuns, AtWork, Listed, HasRow, InRows,
                StaysListed, Holds, NewRow, PidOf, Beside, RowsOf, RowsBut
  <2>4. ASSUME NEW t \in Owners PROVE JobHolds(t)'
    BY <2>1 DEF TreeInv, JobHolds, LeftIsOfRows, OwnMarked, Holds, Live, AtWork, NewRow, PidOf
  <2> QED
    BY <2>2, <2>3, <2>4 DEF TreeInv
<1> QED
  BY <1>1, <1>2, <1>3, <1>4 DEF TreeNext

\* Of any number of children, processes and process ids: no commit is removed before the
\* checkout has it, a worktree is listed whenever it exists, and a child at work has its own,
\* whatever is settled beside it and wherever a process dies (worktrees.rs 4).
THEOREM TreesAreKept == TreeSpec => []TreesKept
<1>1. TreeInit => TreeInv
  BY TreesStart
<1>2. TreeInv /\ [TreeNext]_treeVars => TreeInv'
  BY TreeStep
<1>3. TreeInv => TreesKept
  BY TreesFollow
<1> QED
  BY <1>1, <1>2, <1>3, PTL DEF TreeSpec

(***************************************************************************)
(* A patch of several files.                                               *)
(***************************************************************************)
Changes == [path : Names, before : Texts, after : Texts]
PatchTypes ==
    /\ disk \in [Names -> Texts] /\ was.disk \in [Names -> Texts]
    /\ patch \in Seq(Hunks) /\ changes \in Seq(Changes)
    /\ done \in 0 .. Len(changes) /\ others \subseteq Names
    /\ phase = "asked" => done = 0 /\ others = {} /\ made = {}

\* A plan has one change of a file, made for what the file said.
PlanInv ==
    phase \in {"writing", "undoing", "done"} =>
        /\ \A i, j \in DOMAIN changes : changes[i].path = changes[j].path => i = j
        /\ \A i \in DOMAIN changes : changes[i].before = was.disk[changes[i].path]

\* What was written and not put back is as planned, all else as it was found, but for what
\* others wrote.
WrittenInv ==
    phase \in {"writing", "undoing", "done"} =>
        /\ \A i \in 1 .. done :
             changes[i].path \in others \/ disk[changes[i].path] = changes[i].after
        /\ \A n \in Names \ others :
             (\A i \in 1 .. done : changes[i].path # n) => disk[n] = was.disk[n]
        /\ phase = "done" => done = Len(changes)

\* A file stands in a directory, and the directories are those found and those made.
DirsInv ==
    /\ \A n \in Names : disk[n] # Absent => DirOf[n] \in dirs
    /\ phase \in {"writing", "undoing"} =>
         /\ \A n \in Names : was.disk[n] # Absent => DirOf[n] \in was.dirs
         /\ others = {} => dirs = was.dirs \cup made /\ made \cap was.dirs = {}
    /\ phase = "back" => /\ \A n \in Names \ others : disk[n] = was.disk[n]
                         /\ others = {} => dirs = was.dirs

PatchInv == PatchTypes /\ PlanInv /\ WrittenInv /\ DirsInv /\ UpdatesSpliced

\* FlattenSeq is recursive: what it comes to up to each place.
Flat(ss, n, S, g) ==
    /\ g \in [0 .. n -> Seq(S)] /\ g[0] = <<>>
    /\ \A i \in 1 .. n : g[i] = g[i - 1] \o ss[i]
LEMMA FlattenRuns ==
    ASSUME NEW S, NEW n \in Nat, NEW ss \in [1 .. n -> Seq(S)]
    PROVE  \E g : Flat(ss, n, S, g) /\ FlattenSeq(ss) = g[n]
<1>1. PICK D : D = Seq(S)
  OBVIOUS
<1>2. PICK step : step = [i \in 1 .. n |-> [d \in D |-> d \o ss[i]]]
  OBVIOUS
<1>3. step \in [1 .. n -> [D -> D]]
  <2>1. \A i \in 1 .. n : \A d \in D : d \o ss[i] \in D
    BY <1>1, ConcatProperties
  <2> QED
    BY <1>2, <2>1
<1>4. PICK e \in D : e = <<>>
  <2>1. <<>> \in Seq(S)
    OBVIOUS
  <2> QED
    BY <1>1, <2>1
<1>5. PICK g \in [0 .. n -> D] : g[0] = e /\ \A i \in 1 .. n : g[i] = step[i][g[i - 1]]
  <2>1. StepsOver(n, D, e, step)
    BY <1>3 DEF StepsOver
  <2>2. PICK g : SteppedOver(n, D, e, step, g)
    BY <2>1, RecursionOverPlaces
  <2> QED
    BY <2>2 DEF SteppedOver
<1>6. ASSUME NEW i \in 1 .. n PROVE g[i] = g[i - 1] \o ss[i]
  <2>1. i - 1 \in 0 .. n
    BY <1>6
  <2>2. g[i - 1] \in D
    BY <1>5, <2>1
  <2> QED
    BY <1>2, <1>5, <2>2
<1>7. Flat(ss, n, S, g)
  BY <1>1, <1>4, <1>5, <1>6 DEF Flat
<1>8. Len(ss) = n
  <2>1. ss \in Seq(Seq(S))
    BY SeqDef
  <2>2. DOMAIN ss = 1 .. Len(ss) /\ DOMAIN ss = 1 .. n /\ Len(ss) \in Nat
    BY <2>1
  <2> QED
    BY <2>2
<1>9. CASE n = 0
  <2>1. ss = <<>>
    BY <1>8, <1>9
  <2>2. FlattenSeq(ss) = <<>>
    BY <1>8, <1>9, <2>1 DEF FlattenSeq
  <2> QED
    BY <1>4, <1>5, <1>7, <1>9, <2>2
<1>10. CASE n # 0
  <2> DEFINE Run(f) == [i \in 1 .. Len(ss) |-> IF i = 1 THEN ss[i] ELSE f[i - 1] \o ss[i]]
  <2>1. PICK h : h = [i \in 1 .. n |-> g[i]]
    OBVIOUS
  <2>2. ASSUME NEW i \in 1 .. n PROVE h[i] = IF i = 1 THEN ss[i] ELSE h[i - 1] \o ss[i]
    <3>1. CASE i = 1
      <4>1. g[1] = g[0] \o ss[1]
        BY <1>6, <3>1
      <4>2. e \o ss[1] = ss[1]
        BY <1>4, <3>1, ConcatEmptySeq
      <4> QED
        BY <1>5, <2>1, <3>1, <4>1, <4>2
    <3>2. CASE i # 1
      <4>1. i - 1 \in 1 .. n
        BY <3>2
      <4> QED
        BY <1>6, <2>1, <3>2, <4>1
    <3> QED
      BY <3>1, <3>2
  <2>3. h = Run(h)
    BY <1>8, <2>1, <2>2
  <2>4. PICK f : FlattenSeq(ss) = f[Len(ss)] /\ f = Run(f)
    <3>1. FlattenSeq(ss) = (CHOOSE f : f = Run(f))[Len(ss)]
      BY <1>8, <1>10 DEF FlattenSeq
    <3> HIDE DEF Run
    <3> QED
      BY <2>3, <3>1
  <2>5. \A i \in 1 .. n : f[i] = IF i = 1 THEN ss[i] ELSE f[i - 1] \o ss[i]
    BY <1>8, <2>4
  <2> HIDE DEF Run
  <2>6. PICK holds : holds = {i \in 0 .. n : i = 0 \/ f[i] = h[i]}
    OBVIOUS
  <2>7. 0 .. n \subseteq holds
    <3>1. 0 \in holds
      BY <2>6
    <3>2. ASSUME NEW i \in 1 .. n, i - 1 \in holds PROVE i \in holds
      <4>1. CASE i = 1
        BY <2>2, <2>5, <2>6, <4>1
      <4>2. CASE i # 1
        <5>1. f[i - 1] = h[i - 1]
          BY <2>6, <3>2, <4>2
        <5> QED
          BY <2>2, <2>5, <2>6, <4>2, <5>1
      <4> QED
        BY <4>1, <4>2
    <3> QED
      BY <3>1, <3>2, NumbersReached
  <2>8. f[n] = h[n] /\ h[n] = g[n]
    <3>1. n \in 0 .. n /\ n \in 1 .. n
      BY <1>10
    <3>2. n \in holds
      BY <2>7, <3>1
    <3> QED
      BY <1>10, <2>1, <2>6, <3>1, <3>2
  <2> QED
    BY <1>7, <1>8, <2>4, <2>8
<1> QED
  BY <1>9, <1>10

\* Where each piece is in what was flattened.
Offsets(ss, n, off) ==
    /\ off \in [0 .. n -> Nat] /\ off[0] = 0
    /\ \A i \in 1 .. n : off[i] = off[i - 1] + Len(ss[i])
FlatAt(ss, m, off, flat) ==
    /\ Len(flat) = off[m]
    /\ \A i \in 1 .. m : off[i] <= off[m]
    /\ \A i \in 1 .. m : \A j \in 1 .. Len(ss[i]) : flat[off[i - 1] + j] = ss[i][j]
    /\ \A k \in 1 .. off[m] : \E i \in 1 .. m : \E j \in 1 .. Len(ss[i]) : k = off[i - 1] + j
LEMMA FlattenPlaces ==
    ASSUME NEW S, NEW n \in Nat, NEW ss \in [1 .. n -> Seq(S)]
    PROVE  /\ FlattenSeq(ss) \in Seq(S)
           /\ \E off : Offsets(ss, n, off) /\ FlatAt(ss, n, off, FlattenSeq(ss))
<1>1. PICK g : Flat(ss, n, S, g) /\ FlattenSeq(ss) = g[n]
  BY FlattenRuns
<1>2. /\ \A i \in 0 .. n : g[i] \in Seq(S) /\ Len(g[i]) \in Nat
      /\ g[0] = <<>> /\ \A i \in 1 .. n : g[i] = g[i - 1] \o ss[i]
  <2>1. g \in [0 .. n -> Seq(S)] /\ g[0] = <<>> /\ \A i \in 1 .. n : g[i] = g[i - 1] \o ss[i]
    BY <1>1, Zenon DEF Flat
  <2>2. \A i \in 0 .. n : g[i] \in Seq(S)
    BY <2>1
  <2>3. \A s \in Seq(S) : Len(s) \in Nat
    OBVIOUS
  <2> QED
    BY <2>1, <2>2, <2>3
<1>3. PICK off : off = [i \in 0 .. n |-> Len(g[i])]
  OBVIOUS
<1>4. ASSUME NEW i \in 1 .. n
      PROVE  /\ i - 1 \in 0 .. n /\ i \in 0 .. n /\ ss[i] \in Seq(S) /\ Len(ss[i]) \in Nat
             /\ off[i] = off[i - 1] + Len(ss[i])
             /\ \A k \in 1 .. off[i - 1] + Len(ss[i]) :
                  g[i][k] = IF k <= off[i - 1] THEN g[i - 1][k] ELSE ss[i][k - off[i - 1]]
  <2>1. i - 1 \in 0 .. n /\ i \in 0 .. n /\ ss[i] \in Seq(S)
    OBVIOUS
  <2>2. Len(ss[i]) \in Nat /\ g[i - 1] \in Seq(S) /\ g[i] = g[i - 1] \o ss[i]
    BY <1>2, <2>1, SMTT(60)
  <2>3. /\ Len(g[i]) = Len(g[i - 1]) + Len(ss[i])
        /\ \A k \in 1 .. Len(g[i - 1]) + Len(ss[i]) :
             g[i][k] = IF k <= Len(g[i - 1]) THEN g[i - 1][k] ELSE ss[i][k - Len(g[i - 1])]
    <3>1. PICK s1 \in Seq(S) : s1 = g[i - 1]
      BY <2>2
    <3>2. PICK s2 \in Seq(S) : s2 = ss[i]
      BY <2>1
    <3>3. /\ Len(s1 \o s2) = Len(s1) + Len(s2)
          /\ \A k \in 1 .. Len(s1) + Len(s2) : (s1 \o s2)[k] = IF k <= Len(s1) THEN s1[k] ELSE s2[k - Len(s1)]
      BY ConcatProperties
    <3> QED
      BY <2>2, <3>1, <3>2, <3>3
  <2> QED
    BY <1>3, <2>1, <2>2, <2>3
<1>5. \A i \in 0 .. n : off[i] = Len(g[i]) /\ off[i] \in Nat
  BY <1>2, <1>3
<1>6. Offsets(ss, n, off)
  <2>1. off[0] = 0
    <3>1. PICK e : e = g[0]
      OBVIOUS
    <3>2. Len(e) = 0
      BY <1>2, <3>1
    <3> QED
      BY <1>5, <3>1, <3>2
  <2>2. off \in [0 .. n -> Nat]
    BY <1>3, <1>5
  <2> QED
    BY <1>4, <2>1, <2>2 DEF Offsets
<1>7. PICK holds : holds = {m \in 0 .. n : FlatAt(ss, m, off, g[m])}
  OBVIOUS
<1>8. 0 \in holds
  <2>1. off[0] = 0 /\ Len(g[0]) = off[0] /\ 0 \in 0 .. n
    BY <1>5, <1>6 DEF Offsets
  <2> QED
    BY <1>7, <2>1 DEF FlatAt
<1>9. ASSUME NEW m \in 1 .. n, m - 1 \in holds PROVE m \in holds
  <2>1. /\ Len(g[m - 1]) = off[m - 1]
        /\ \A i \in 1 .. m - 1 : off[i] <= off[m - 1]
        /\ \A i \in 1 .. m - 1 : \A j \in 1 .. Len(ss[i]) : g[m - 1][off[i - 1] + j] = ss[i][j]
        /\ \A k \in 1 .. off[m - 1] : \E i \in 1 .. m - 1 : \E j \in 1 .. Len(ss[i]) : k = off[i - 1] + j
    BY <1>7, <1>9 DEF FlatAt
  <2>2. /\ m - 1 \in 0 .. n /\ m \in 0 .. n /\ Len(ss[m]) \in Nat
        /\ off[m] = off[m - 1] + Len(ss[m]) /\ off[m - 1] \in Nat /\ off[m] \in Nat
        /\ Len(g[m]) = off[m]
    BY <1>4, <1>5
  <2>3. \A k \in 1 .. off[m] : g[m][k] = IF k <= off[m - 1] THEN g[m - 1][k] ELSE ss[m][k - off[m - 1]]
    BY <1>4, <2>2
  <2>4. \A i \in 1 .. m : i \in 1 .. m - 1 \/ i = m
    OBVIOUS
  <2>5. \A i \in 1 .. m : off[i] <= off[m]
    <3>1. ASSUME NEW i \in 1 .. m - 1 PROVE off[i] <= off[m]
      <4>1. i \in 0 .. n
        OBVIOUS
      <4>2. off[i] \in Nat
        BY <1>5, <4>1
      <4> QED
        BY <2>1, <2>2, <4>2, SMTT(60)
    <3> QED
      BY <2>2, <2>4, <3>1
  <2>6. ASSUME NEW i \in 1 .. m, NEW j \in 1 .. Len(ss[i]) PROVE g[m][off[i - 1] + j] = ss[i][j]
    <3>0. i \in 1 .. n
      OBVIOUS
    <3>1. /\ i - 1 \in 0 .. n /\ i \in 0 .. n /\ off[i - 1] \in Nat /\ Len(ss[i]) \in Nat
          /\ off[i] = off[i - 1] + Len(ss[i])
      BY <1>4, <1>5, <3>0
    <3>2. j \in Nat /\ j >= 1 /\ j <= Len(ss[i])
      BY <3>1
    <3>3. CASE i = m
      <4>1. off[m - 1] + j \in 1 .. off[m] /\ ~(off[m - 1] + j <= off[m - 1]) /\ (off[m - 1] + j) - off[m - 1] = j
        BY <2>2, <3>1, <3>2, <3>3
      <4> QED
        BY <2>3, <3>3, <4>1
    <3>4. CASE i # m
      <4>1. i \in 1 .. m - 1
        BY <3>4
      <4>2. off[i] <= off[m - 1]
        BY <2>1, <4>1
      <4>3. off[i - 1] + j \in 1 .. off[m] /\ off[i - 1] + j <= off[m - 1]
        BY <2>2, <3>1, <3>2, <4>2, SMTT(60)
      <4>4. g[m - 1][off[i - 1] + j] = ss[i][j]
        BY <2>1, <4>1
      <4>5. PICK k : k = off[i - 1] + j
        OBVIOUS
      <4>6. g[m][k] = g[m - 1][k]
        BY <2>3, <4>3, <4>5
      <4> QED
        BY <4>4, <4>5, <4>6
    <3> QED
      BY <3>3, <3>4
  <2>7. ASSUME NEW k \in 1 .. off[m] PROVE \E i \in 1 .. m : \E j \in 1 .. Len(ss[i]) : k = off[i - 1] + j
    <3>1. CASE k <= off[m - 1]
      <4>1. k \in 1 .. off[m - 1]
        BY <2>2, <3>1
      <4>2. PICK i \in 1 .. m - 1 : \E j \in 1 .. Len(ss[i]) : k = off[i - 1] + j
        BY <2>1, <4>1
      <4>3. i \in 1 .. m
        OBVIOUS
      <4> QED
        BY <4>2, <4>3
    <3>2. CASE ~(k <= off[m - 1])
      <4>1. k - off[m - 1] \in 1 .. Len(ss[m]) /\ k = off[m - 1] + (k - off[m - 1])
        BY <2>2, <3>2
      <4> QED
        BY <4>1
    <3> QED
      BY <3>1, <3>2
  <2>8. FlatAt(ss, m, off, g[m])
    BY <2>2, <2>5, <2>6, <2>7 DEF FlatAt
  <2> QED
    BY <1>7, <2>2, <2>8
<1>10. n \in holds
  <2>1. 0 .. n \subseteq holds
    BY <1>8, <1>9, NumbersReached
  <2> QED
    BY <2>1
<1> QED
  BY <1>1, <1>2, <1>6, <1>7, <1>10

\* A match of a stricter tier is one of the laxest.
LEMMA NormIs ==
    ASSUME NEW l
    PROVE  Norm(1, l) = l /\ Norm(2, l) = [l EXCEPT !.tail = ""] /\ Norm(3, l) = l.word
<1>1. Norm(1, l) = l
  BY 2 # 1, 3 # 1, Zenon DEF Norm
<1>2. Norm(2, l) = [l EXCEPT !.tail = ""]
  BY 2 # 1, 3 # 2, Zenon DEF Norm
<1>3. Norm(3, l) = l.word
  BY 3 # 1, 3 # 2, Zenon DEF Norm
<1> QED
  BY <1>1, <1>2, <1>3
LEMMA LinesAlike ==
    ASSUME NEW a \in Lines, NEW b \in Lines, NEW tier \in {1, 2, 3}, Norm(tier, a) = Norm(tier, b)
    PROVE  Norm(3, a) = Norm(3, b)
<1>1. Norm(3, a) = a.word /\ Norm(3, b) = b.word
  BY NormIs
<1>2. CASE tier = 1
  <2>1. Norm(1, a) = a /\ Norm(1, b) = b
    BY NormIs
  <2>2. Norm(1, a) = Norm(1, b)
    BY <1>2
  <2> QED
    BY <2>1, <2>2
<1>3. CASE tier = 2
  <2>1. [a EXCEPT !.tail = ""] = [b EXCEPT !.tail = ""]
    BY <1>3, NormIs
  <2>2. [a EXCEPT !.tail = ""].word = a.word /\ [b EXCEPT !.tail = ""].word = b.word
    BY DEF Lines
  <2> QED
    BY <1>1, <2>1, <2>2
<1>4. CASE tier = 3
  BY <1>4
<1> QED
  BY <1>2, <1>3, <1>4
LEMMA MatchesAlike ==
    ASSUME NEW text \in Seq(Lines), NEW want \in Seq(Lines), NEW s \in Nat, s + Len(want) <= Len(text),
           NEW tier \in {1, 2, 3}, MatchesAt(text, want, s, tier)
    PROVE  MatchesAt(text, want, s, 3)
<1> SUFFICES ASSUME NEW i \in DOMAIN want PROVE Norm(3, text[s + i]) = Norm(3, want[i])
  BY DEF MatchesAt
<1>1. PICK n \in Nat : n = Len(want) /\ DOMAIN want = 1 .. n
  OBVIOUS
<1>2. PICK m \in Nat : m = Len(text) /\ DOMAIN text = 1 .. m
  OBVIOUS
<1>3. i \in 1 .. n /\ s + i \in 1 .. m
  BY <1>1, <1>2
<1>4. PICK a \in Lines : a = text[s + i]
  BY <1>2, <1>3
<1>5. PICK b \in Lines : b = want[i]
  BY <1>1, <1>3
<1>6. Norm(tier, a) = Norm(tier, b)
  BY <1>4, <1>5 DEF MatchesAt
<1> QED
  BY <1>4, <1>5, <1>6, LinesAlike

\* What is found is a place of the text where the lines are; and what stands there twice
\* as it is asked for is not found.
FoundAt(text, want, from, at) ==
    /\ at \in from .. Len(text) - Len(want)
    /\ MatchesAt(text, want, at, 3)
LEMMA SeekFinds ==
    ASSUME NEW text \in Seq(Lines), NEW want \in Seq(Lines), NEW from \in Nat, NEW eof \in BOOLEAN,
           NEW at, at = Seek(text, want, from, eof), at # -1
    PROVE  /\ FoundAt(text, want, from, at)
           /\ ~eof => \A s \in from .. Len(text) - Len(want) : MatchesAt(text, want, s, 1) => s = at
<1>1. PICK n \in Nat : n = Len(want)
  OBVIOUS
<1>2. PICK m \in Nat : m = Len(text)
  OBVIOUS
<1>3. PICK finds : finds = [tier \in {1, 2, 3} |-> Found(text, want, from, eof, tier)]
  OBVIOUS
<1>4. ASSUME NEW tier \in {1, 2, 3}
      PROVE  /\ finds[tier] = {s \in (IF eof THEN {m - n} ELSE from .. m - n) :
                                 s >= from /\ MatchesAt(text, want, s, tier)}
             /\ IsFiniteSet(finds[tier])
  <2>1. finds[tier] = {s \in (IF eof THEN {m - n} ELSE from .. m - n) :
                                 s >= from /\ MatchesAt(text, want, s, tier)}
    BY <1>1, <1>2, <1>3 DEF Found
  <2>2. PICK all : all = IF eof THEN {m - n} ELSE from .. m - n
    OBVIOUS
  <2>3. IsFiniteSet(all)
    <3>1. from \in Int /\ m - n \in Int
      BY <1>1, <1>2
    <3> QED
      BY <2>2, <3>1, FS_Singleton, FS_Interval
  <2>4. finds[tier] \subseteq all
    BY <2>1, <2>2
  <2> QED
    BY <2>1, <2>3, <2>4, FS_Subset
<1>5. PICK places : places = Strictest(finds[1], finds[2], finds[3])
  OBVIOUS
<1>6. at = Only(places)
  BY <1>3, <1>5 DEF Seek
<1>7. PICK tier \in {1, 2, 3} : places = finds[tier] /\ (finds[1] # {} => tier = 1)
  BY <1>5 DEF Strictest
<1>8. Cardinality(places) = 1
  BY <1>6 DEF Only
<1>9. PICK x : places = {x}
  BY <1>4, <1>7, <1>8, FS_Singleton
<1>10. x \in Int /\ x >= from /\ x <= m - n /\ MatchesAt(text, want, x, tier)
  <2>1. x \in finds[tier]
    BY <1>7, <1>9
  <2>2. x \in (IF eof THEN {m - n} ELSE from .. m - n) /\ x >= from /\ MatchesAt(text, want, x, tier)
    BY <1>4, <2>1
  <2>3. x \in Int /\ x <= m - n
    BY <1>1, <1>2, <2>2
  <2> QED
    BY <2>2, <2>3
<1>11. at = x
  <2>1. FirstPlace({x}) = x
    <3>1. \A s \in {x} : \A r \in {x} : s <= r
      BY <1>10
    <3>2. \E s \in {x} : \A r \in {x} : s <= r
      BY <3>1
    <3> QED
      BY <3>2 DEF FirstPlace
  <2> QED
    BY <1>6, <1>8, <1>9, <2>1 DEF Only
<1>12. FoundAt(text, want, from, at)
  <2>1. x \in Nat /\ x + Len(want) <= Len(text)
    BY <1>1, <1>2, <1>10
  <2>2. MatchesAt(text, want, x, 3)
    BY <1>10, <2>1, MatchesAlike
  <2> QED
    BY <1>1, <1>2, <1>10, <1>11, <2>2 DEF FoundAt
<1>13. ASSUME ~eof, NEW s \in from .. Len(text) - Len(want), MatchesAt(text, want, s, 1) PROVE s = at
  <2>1. s \in finds[1]
    BY <1>1, <1>2, <1>4, <1>13
  <2>2. tier = 1 /\ s \in places
    BY <1>7, <2>1
  <2> QED
    BY <1>9, <1>11, <2>2
<1> QED
  BY <1>12, <1>13

\* A text half rewritten: copied up to a place, looked through up to one no earlier.
Runs(text) == [ok : BOOLEAN, copied : 0 .. Len(text), cursor : 0 .. Len(text), out : Seq(Lines)]
Onward(text, b) ==
    {st \in Runs(text) : /\ st.copied = b.copied /\ st.out = b.out
                         /\ b.cursor <= st.cursor /\ (st.ok => b.ok)}
LEMMA PastStays ==
    ASSUME NEW text \in Seq(Lines), NEW b \in Runs(text), NEW st \in Onward(text, b), NEW a \in Lines
    PROVE  Past(st, Seek(text, <<a>>, st.cursor, FALSE)) \in Onward(text, b)
<1>1. PICK m \in Nat : m = Len(text)
  OBVIOUS
<1>2. /\ st \in Runs(text) /\ st.ok \in BOOLEAN /\ st.cursor \in 0 .. m /\ st.copied \in 0 .. m /\ st.out \in Seq(Lines)
      /\ st.copied = b.copied /\ st.out = b.out /\ b.cursor <= st.cursor /\ (st.ok => b.ok) /\ b.cursor \in 0 .. m
  BY <1>1 DEF Onward, Runs
<1>3. PICK at : at = Seek(text, <<a>>, st.cursor, FALSE)
  OBVIOUS
<1>4. PICK r : r = Past(st, at)
  OBVIOUS
<1>5. CASE ~st.ok \/ at < 0
  <2>1. r = [st EXCEPT !.ok = FALSE]
    BY <1>4, <1>5 DEF Past
  <2>2. r \in Runs(text) /\ r.copied = st.copied /\ r.out = st.out /\ r.cursor = st.cursor /\ r.ok = FALSE
    BY <1>2, <2>1 DEF Runs
  <2> QED
    BY <1>2, <1>3, <1>4, <2>2 DEF Onward
<1>6. CASE ~(~st.ok \/ at < 0)
  <2>1. r = [st EXCEPT !.cursor = at + 1]
    BY <1>4, <1>6 DEF Past
  <2>2. PICK want \in Seq(Lines) : want = <<a>> /\ Len(want) = 1
    <3>1. <<a>> \in Seq(Lines) /\ Len(<<a>>) = 1
      OBVIOUS
    <3> QED
      BY <3>1
  <2>3. at # -1
    BY <1>6
  <2>4. st.cursor \in Nat /\ FALSE \in BOOLEAN
    BY <1>2
  <2>5. FoundAt(text, want, st.cursor, at)
    BY <1>3, <2>2, <2>3, <2>4, SeekFinds
  <2>6. at \in st.cursor .. m - 1
    BY <1>1, <2>2, <2>5 DEF FoundAt
  <2>7. at + 1 \in 0 .. m /\ b.cursor <= at + 1
    BY <1>1, <1>2, <2>6
  <2>8. r \in Runs(text) /\ r.copied = st.copied /\ r.out = st.out /\ r.cursor = at + 1 /\ r.ok = st.ok
    BY <1>1, <1>2, <2>1, <2>7 DEF Runs
  <2> QED
    BY <1>2, <1>3, <1>4, <2>7, <2>8 DEF Onward
<1> QED
  BY <1>5, <1>6

LEMMA AnchorsPass ==
    ASSUME NEW text \in Seq(Lines), NEW b \in Runs(text), NEW c \in Chunks
    PROVE  /\ AnchorsPassed(text, b, c) \in Onward(text, b)
           /\ c.anchors = <<>> => AnchorsPassed(text, b, c) = b
<1>1. PICK anchors \in Seq(Lines) : anchors = c.anchors
  BY DEF Chunks
<1>2. PICK N \in Nat : N = Len(anchors) /\ DOMAIN anchors = 1 .. N
  OBVIOUS
<1>3. PICK D : D = Onward(text, b)
  OBVIOUS
<1>4. PICK step : step = [n \in 1 .. N |-> [d \in D |-> Past(d, Seek(text, <<anchors[n]>>, d.cursor, FALSE))]]
  OBVIOUS
<1>5. step \in [1 .. N -> [D -> D]]
  <2>1. \A n \in 1 .. N : anchors[n] \in Lines
    BY <1>2
  <2>2. \A n \in 1 .. N : \A d \in D : Past(d, Seek(text, <<anchors[n]>>, d.cursor, FALSE)) \in D
    BY <1>3, <2>1, PastStays
  <2> QED
    BY <1>4, <2>2
<1>6. b \in D
  <2>1. b.cursor \in 0 .. Len(text)
    BY DEF Runs
  <2>2. b.cursor <= b.cursor
    BY <2>1
  <2> QED
    BY <1>3, <2>2 DEF Onward
<1>7. PICK g \in [0 .. N -> D] : g[0] = b /\ \A n \in 1 .. N : g[n] = step[n][g[n - 1]]
  <2>1. StepsOver(N, D, b, step)
    BY <1>2, <1>5, <1>6 DEF StepsOver
  <2>2. PICK g : SteppedOver(N, D, b, step, g)
    BY <2>1, RecursionOverPlaces
  <2> QED
    BY <2>2 DEF SteppedOver
<1> DEFINE Run(f) == [i \in 0 .. Len(anchors) |->
                        IF i = 0 THEN b
                        ELSE Past(f[i - 1], Seek(text, <<anchors[i]>>, f[i - 1].cursor, FALSE))]
<1>8. g = Run(g)
  <2>1. ASSUME NEW n \in 0 .. N, n # 0
        PROVE  g[n] = Past(g[n - 1], Seek(text, <<anchors[n]>>, g[n - 1].cursor, FALSE))
    <3>1. n \in 1 .. N /\ n - 1 \in 0 .. N
      BY <2>1
    <3>2. g[n] = step[n][g[n - 1]] /\ g[n - 1] \in D
      BY <1>7, <3>1
    <3> QED
      BY <1>4, <3>1, <3>2
  <2> QED
    BY <1>2, <1>7, <2>1
<1>9. PICK f : AnchorsPassed(text, b, c) = f[Len(anchors)] /\ f = Run(f)
  <2>1. AnchorsPassed(text, b, c) = (CHOOSE f : f = Run(f))[Len(anchors)]
    BY <1>1 DEF AnchorsPassed
  <2> HIDE DEF Run
  <2> QED
    BY <1>8, <2>1
<1>10. \A n \in 0 .. N : f[n] = IF n = 0 THEN b
                          ELSE Past(f[n - 1], Seek(text, <<anchors[n]>>, f[n - 1].cursor, FALSE))
  BY <1>2, <1>9
<1> HIDE DEF Run
<1>11. PICK holds : holds = {n \in 0 .. N : f[n] \in D}
  OBVIOUS
<1>12. 0 \in holds
  <2>1. 0 \in 0 .. N
    BY <1>2
  <2>2. f[0] = b
    BY <1>10, <2>1
  <2> QED
    BY <1>6, <1>11, <2>1, <2>2
<1>13. ASSUME NEW n \in 1 .. N, n - 1 \in holds PROVE n \in holds
  <2>1. f[n - 1] \in D /\ n \in 0 .. N /\ n # 0 /\ anchors[n] \in Lines
    BY <1>2, <1>11, <1>13
  <2>2. PICK d \in D : d = f[n - 1]
    BY <2>1
  <2>3. f[n] = Past(d, Seek(text, <<anchors[n]>>, d.cursor, FALSE))
    BY <1>10, <2>1, <2>2
  <2>4. f[n] \in D
    BY <1>3, <2>1, <2>2, <2>3, PastStays
  <2> QED
    BY <1>11, <2>1, <2>4
<1>14. f[N] \in D
  <2>1. 0 .. N \subseteq holds
    BY <1>12, <1>13, NumbersReached
  <2>2. N \in holds
    BY <2>1
  <2> QED
    BY <1>11, <2>2
<1>15. ASSUME c.anchors = <<>> PROVE AnchorsPassed(text, b, c) = b
  <2>1. N = 0
    BY <1>1, <1>2, <1>15
  <2> QED
    BY <1>2, <1>9, <1>10, <2>1
<1> QED
  BY <1>2, <1>3, <1>9, <1>14, <1>15

\* A chunk put in: where its old lines stand, after what was copied, and the only such place.
PutAt(text, st, c, at, r) ==
    /\ at \in st.copied .. Len(text) /\ at + Len(c.old) <= Len(text)
    /\ MatchesAt(text, c.old, at, 3)
    /\ c.old # <<>> => \A s \in st.cursor .. (Len(text) - Len(c.old)) :
         MatchesAt(text, c.old, s, 1) /\ s # at => c.anchors # <<>> \/ c.eof
    /\ r.copied = at + Len(c.old) /\ r.cursor = at + Len(c.old)
    /\ r.out = (st.out \o SubSeq(text, st.copied + 1, at)) \o c.new
LEMMA ChunkPut ==
    ASSUME NEW text \in Seq(Lines), NEW st \in Runs(text), st.copied <= st.cursor, NEW c \in Chunks,
           NEW r, r = Chunked(text, st, c)
    PROVE  /\ r \in Runs(text) /\ r.copied <= r.cursor
           /\ r.ok => st.ok /\ \E at : PutAt(text, st, c, at, r)
<1>1. PICK m \in Nat : m = Len(text) /\ DOMAIN text = 1 .. m
  OBVIOUS
<1>2. /\ c.old \in Seq(Lines) /\ c.new \in Seq(Lines) /\ c.anchors \in Seq(Lines) /\ c.eof \in BOOLEAN
  BY DEF Chunks
<1>3. PICK n \in Nat : n = Len(c.old)
  BY <1>2
<1>4. PICK p : p = AnchorsPassed(text, st, c)
  OBVIOUS
<1>5. /\ p \in Runs(text) /\ p.copied = st.copied /\ p.out = st.out /\ st.cursor <= p.cursor /\ (p.ok => st.ok)
      /\ (c.anchors = <<>> => p = st)
  BY <1>4, AnchorsPass DEF Onward
<1>6. /\ p.ok \in BOOLEAN /\ p.copied \in 0 .. m /\ p.cursor \in 0 .. m /\ p.out \in Seq(Lines)
      /\ st.copied \in 0 .. m /\ st.cursor \in 0 .. m
  BY <1>1, <1>5 DEF Runs
<1>7. PICK start : start = Place(text, p, c)
  OBVIOUS
<1>8. r = PutIn(text, p, c, start)
  BY <1>4, <1>7 DEF Chunked, PutInPlace
<1>9. CASE ~p.ok \/ start < 0
  <2>1. r = [p EXCEPT !.ok = FALSE]
    BY <1>8, <1>9 DEF PutIn
  <2>2. r \in Runs(text) /\ r.copied = p.copied /\ r.cursor = p.cursor /\ r.ok = FALSE
    BY <1>5, <2>1 DEF Runs
  <2> QED
    BY <1>5, <1>6, <2>2
<1>10. CASE ~(~p.ok \/ start < 0)
  <2>1. /\ start \in p.cursor .. m /\ start + n <= m /\ MatchesAt(text, c.old, start, 3)
        /\ c.old # <<>> /\ ~c.eof =>
             \A s \in p.cursor .. (Len(text) - Len(c.old)) : MatchesAt(text, c.old, s, 1) => s = start
    <3>1. CASE c.old # <<>>
      <4>1. start = Seek(text, c.old, p.cursor, c.eof)
        BY <1>7, <3>1 DEF Place
      <4>2. start # -1
        BY <1>10
      <4>3. p.cursor \in Nat
        BY <1>6
      <4>4. /\ FoundAt(text, c.old, p.cursor, start)
            /\ ~c.eof => \A s \in p.cursor .. Len(text) - Len(c.old) : MatchesAt(text, c.old, s, 1) => s = start
        BY <1>2, <4>1, <4>2, <4>3, SeekFinds
      <4>5. start \in p.cursor .. m - n
        BY <1>1, <1>3, <4>4 DEF FoundAt
      <4>6. start \in p.cursor .. m /\ start + n <= m
        BY <1>1, <1>3, <1>6, <4>5
      <4> QED
        BY <4>4, <4>6 DEF FoundAt
    <3>2. CASE c.old = <<>>
      <4>1. start \in {m, p.cursor}
        BY <1>1, <1>7, <3>2 DEF Place
      <4>2. n = 0 /\ DOMAIN c.old = {}
        BY <1>3, <3>2
      <4>3. MatchesAt(text, c.old, start, 3)
        BY <4>2 DEF MatchesAt
      <4> QED
        BY <1>6, <3>2, <4>1, <4>2, <4>3
    <3> QED
      BY <3>1, <3>2
  <2>2. PICK out : out = (p.out \o SubSeq(text, p.copied + 1, start)) \o c.new
    OBVIOUS
  <2>3. r = [ok |-> TRUE, copied |-> start + n, cursor |-> start + n, out |-> out]
    BY <1>3, <1>8, <1>10, <2>2 DEF PutIn
  <2>4. out \in Seq(Lines)
    <3>1. PICK before : before = SubSeq(text, p.copied + 1, start)
      OBVIOUS
    <3>2. before \in Seq(Lines)
      <4>1. p.copied + 1 \in Int /\ start \in Int
        BY <1>6, <2>1
      <4>2. \A i \in p.copied + 1 .. start : text[i] \in Lines
        BY <1>1, <1>6, <2>1
      <4> QED
        BY <3>1, <4>1, <4>2, SubSeqProperties
    <3>3. p.out \o before \in Seq(Lines)
      BY <1>6, <3>2, ConcatProperties
    <3> QED
      BY <1>2, <2>2, <3>1, <3>3, ConcatProperties
  <2>5. start + n \in 0 .. m
    BY <1>1, <1>3, <1>6, <2>1
  <2>6. r \in Runs(text) /\ r.copied = start + n /\ r.cursor = start + n /\ r.out = out
    BY <1>1, <2>3, <2>4, <2>5 DEF Runs
  <2>7. start \in st.copied .. m
    BY <1>5, <1>6, <2>1
  <2>8. ASSUME c.old # <<>>, NEW s \in st.cursor .. (Len(text) - Len(c.old)),
               MatchesAt(text, c.old, s, 1), s # start, c.anchors = <<>>, ~c.eof
        PROVE  FALSE
    <3>1. p.cursor = st.cursor
      BY <1>5, <2>8
    <3> QED
      BY <2>1, <2>8, <3>1
  <2>9. PutAt(text, st, c, start, r)
    <3>1. out = (st.out \o SubSeq(text, st.copied + 1, start)) \o c.new
      BY <1>5, <2>2
    <3>2. start \in st.copied .. Len(text) /\ start + Len(c.old) <= Len(text)
      BY <1>1, <1>3, <2>1, <2>7
    <3> QED
      BY <1>3, <2>1, <2>6, <2>8, <3>1, <3>2 DEF PutAt
  <2>10. r.copied <= r.cursor /\ st.ok
    BY <1>5, <1>10, <2>5, <2>6
  <2> QED
    BY <2>6, <2>9, <2>10
<1> QED
  BY <1>9, <1>10

\* An update is its chunks put in one after the other.
LEMMA UpdateRuns ==
    ASSUME NEW text \in Seq(Lines), NEW chunks \in Seq(Chunks), NEW N \in Nat, N = Len(chunks)
    PROVE  \E f : /\ Update(text, chunks) = WithRest(text, f[N])
                  /\ f[0] = AtStart
                  /\ \A i \in 1 .. N : f[i] = Chunked(text, f[i - 1], chunks[i])
                  /\ \A i \in 0 .. N : f[i] \in Runs(text) /\ f[i].copied <= f[i].cursor
<1>1. \A n \in 1 .. N : chunks[n] \in Chunks
  <2>1. DOMAIN chunks = 1 .. N
    OBVIOUS
  <2> QED
    BY <2>1
<1>2. PICK D : D = {st \in Runs(text) : st.copied <= st.cursor}
  OBVIOUS
<1>3. PICK step : step = [n \in 1 .. N |-> [d \in D |-> Chunked(text, d, chunks[n])]]
  OBVIOUS
<1>4. ASSUME NEW n \in 1 .. N, NEW d \in D PROVE Chunked(text, d, chunks[n]) \in D
  <2>1. PICK c \in Chunks : c = chunks[n]
    BY <1>1
  <2>2. PICK r : r = Chunked(text, d, c)
    OBVIOUS
  <2>3. d \in Runs(text) /\ d.copied <= d.cursor
    BY <1>2
  <2>4. r \in Runs(text) /\ r.copied <= r.cursor
    BY <2>2, <2>3, ChunkPut
  <2> QED
    BY <1>2, <2>1, <2>2, <2>4
<1>5. step \in [1 .. N -> [D -> D]]
  BY <1>3, <1>4
<1>6. AtStart \in D
  <2>1. Len(text) \in Nat
    OBVIOUS
  <2>2. PICK e : e = <<>>
    OBVIOUS
  <2>3. e \in Seq(Lines)
    <3>1. <<>> \in Seq(Lines)
      OBVIOUS
    <3> QED
      BY <2>2, <3>1
  <2>4. AtStart = [ok |-> TRUE, copied |-> 0, cursor |-> 0, out |-> e]
    BY <2>2 DEF AtStart
  <2> QED
    BY <1>2, <2>1, <2>3, <2>4 DEF Runs
<1>7. PICK g \in [0 .. N -> D] : g[0] = AtStart /\ \A n \in 1 .. N : g[n] = step[n][g[n - 1]]
  <2>1. StepsOver(N, D, AtStart, step)
    BY <1>5, <1>6 DEF StepsOver
  <2>2. PICK g : SteppedOver(N, D, AtStart, step, g)
    BY <2>1, RecursionOverPlaces
  <2> QED
    BY <2>2 DEF SteppedOver
<1> DEFINE Run(f) == [i \in 0 .. Len(chunks) |->
                        IF i = 0 THEN AtStart ELSE Chunked(text, f[i - 1], chunks[i])]
<1>8. g = Run(g)
  <2>1. ASSUME NEW n \in 0 .. N, n # 0 PROVE g[n] = Chunked(text, g[n - 1], chunks[n])
    <3>1. n \in 1 .. N /\ n - 1 \in 0 .. N
      BY <2>1
    <3>2. g[n] = step[n][g[n - 1]] /\ g[n - 1] \in D
      BY <1>7, <3>1
    <3> QED
      BY <1>3, <3>1, <3>2
  <2> QED
    BY <1>7, <2>1
<1>9. PICK f : Update(text, chunks) = WithRest(text, f[Len(chunks)]) /\ f = Run(f)
  <2>1. Update(text, chunks) = WithRest(text, (CHOOSE f : f = Run(f))[Len(chunks)])
    BY DEF Update
  <2> HIDE DEF Run
  <2> QED
    BY <1>8, <2>1
<1>10. \A n \in 0 .. N : f[n] = IF n = 0 THEN AtStart ELSE Chunked(text, f[n - 1], chunks[n])
  BY <1>9
<1> HIDE DEF Run
<1>11. f[0] = AtStart /\ \A i \in 1 .. N : f[i] = Chunked(text, f[i - 1], chunks[i])
  <2>1. 0 \in 0 .. N /\ \A i \in 1 .. N : i \in 0 .. N /\ i # 0
    OBVIOUS
  <2> QED
    BY <1>10, <2>1
<1>12. PICK holds : holds = {n \in 0 .. N : f[n] \in D}
  OBVIOUS
<1>13. 0 \in holds
  <2>1. 0 \in 0 .. N
    OBVIOUS
  <2> QED
    BY <1>6, <1>11, <1>12, <2>1
<1>14. ASSUME NEW n \in 1 .. N, n - 1 \in holds PROVE n \in holds
  <2>1. f[n - 1] \in D /\ n \in 0 .. N
    BY <1>12, <1>14
  <2>2. f[n] = Chunked(text, f[n - 1], chunks[n])
    BY <1>11
  <2>3. f[n] \in D
    BY <1>4, <2>1, <2>2
  <2> QED
    BY <1>12, <2>1, <2>3
<1>15. 0 .. N \subseteq holds
  BY <1>13, <1>14, NumbersReached
<1>16. \A i \in 0 .. N : f[i] \in Runs(text) /\ f[i].copied <= f[i].cursor
  BY <1>2, <1>12, <1>15
<1> QED
  BY <1>9, <1>11, <1>16

LEMMA UpdateSplices ==
    ASSUME NEW text \in Seq(Lines), NEW chunks \in Seq(Chunks), NEW u, u = Update(text, chunks)
    PROVE  u.text \in Seq(Lines) /\ (u.ok => Spliced(text, chunks, u.text))
<1>1. PICK N \in Nat : N = Len(chunks) /\ DOMAIN chunks = 1 .. N
  OBVIOUS
<1>2. PICK m \in Nat : m = Len(text) /\ DOMAIN text = 1 .. m
  OBVIOUS
<1>3. PICK f : /\ Update(text, chunks) = WithRest(text, f[N])
               /\ f[0] = AtStart
               /\ \A i \in 1 .. N : f[i] = Chunked(text, f[i - 1], chunks[i])
               /\ \A i \in 0 .. N : f[i] \in Runs(text) /\ f[i].copied <= f[i].cursor
  BY <1>1, UpdateRuns, SMTT(60)
<1>4. \A i \in 0 .. N : /\ f[i].ok \in BOOLEAN /\ f[i].copied \in 0 .. m /\ f[i].cursor \in 0 .. m
                        /\ f[i].out \in Seq(Lines)
  BY <1>2, <1>3 DEF Runs
<1>5. PICK rest : rest = f[N].out \o SubSeq(text, f[N].copied + 1, Len(text))
  OBVIOUS
<1>6. u.ok = f[N].ok /\ u.text = rest
  <2>1. u = [ok |-> f[N].ok, text |-> rest]
    BY <1>3, <1>5 DEF WithRest
  <2> QED
    BY <2>1
<1>7. rest \in Seq(Lines)
  <2>1. PICK before : before = SubSeq(text, f[N].copied + 1, Len(text))
    OBVIOUS
  <2>2. N \in 0 .. N
    OBVIOUS
  <2>3. f[N].out \in Seq(Lines) /\ f[N].copied + 1 \in Int /\ Len(text) \in Int /\ f[N].copied + 1 >= 1
    BY <1>4, <2>2
  <2>4. \A i \in f[N].copied + 1 .. Len(text) : text[i] \in Lines
    BY <1>2, <2>3
  <2>5. before \in Seq(Lines)
    BY <2>1, <2>3, <2>4, SubSeqProperties
  <2> QED
    BY <1>5, <2>1, <2>3, <2>5, ConcatProperties
<1> SUFFICES ASSUME f[N].ok PROVE Spliced(text, chunks, rest)
  BY <1>6, <1>7
<1>8. ASSUME NEW i \in 1 .. N
      PROVE  /\ chunks[i] \in Chunks /\ i - 1 \in 0 .. N /\ i \in 0 .. N
             /\ f[i].ok => f[i - 1].ok /\ \E at : PutAt(text, f[i - 1], chunks[i], at, f[i])
  <2>1. PICK c \in Chunks : c = chunks[i]
    BY <1>1
  <2>2. i - 1 \in 0 .. N /\ i \in 0 .. N
    OBVIOUS
  <2>3. PICK st : st = f[i - 1]
    OBVIOUS
  <2>4. PICK r : r = f[i]
    OBVIOUS
  <2>5. st \in Runs(text) /\ st.copied <= st.cursor /\ r = Chunked(text, st, c)
    BY <1>3, <2>1, <2>2, <2>3, <2>4
  <2>6. r.ok => st.ok /\ \E at : PutAt(text, st, c, at, r)
    BY <2>5, ChunkPut
  <2> QED
    BY <2>1, <2>2, <2>3, <2>4, <2>6
<1>9. \A i \in 0 .. N : f[i].ok
  <2>1. PICK holds : holds = {i \in 0 .. N : f[i].ok => \A k \in 0 .. i : f[k].ok}
    OBVIOUS
  <2>2. 0 \in holds
    <3>1. 0 \in 0 .. N /\ \A k \in 0 .. 0 : k = 0
      OBVIOUS
    <3> QED
      BY <2>1, <3>1
  <2>3. ASSUME NEW i \in 1 .. N, i - 1 \in holds PROVE i \in holds
    <3>1. i - 1 \in 0 .. N /\ i \in 0 .. N /\ \A k \in 0 .. i : k \in 0 .. i - 1 \/ k = i
      OBVIOUS
    <3>2. f[i].ok => f[i - 1].ok
      BY <1>8
    <3> QED
      BY <2>1, <2>3, <3>1, <3>2
  <2>4. N \in holds
    <3>1. 0 .. N \subseteq holds
      BY <2>2, <2>3, NumbersReached
    <3> QED
      BY <3>1
  <2> QED
    BY <2>1, <2>4
<1>10. PICK at : at = [i \in 1 .. N |-> CHOOSE a : PutAt(text, f[i - 1], chunks[i], a, f[i])]
  OBVIOUS
<1>11. ASSUME NEW i \in 1 .. N PROVE PutAt(text, f[i - 1], chunks[i], at[i], f[i])
  <2>1. \E a : PutAt(text, f[i - 1], chunks[i], a, f[i])
    BY <1>8, <1>9
  <2>2. at[i] = CHOOSE a : PutAt(text, f[i - 1], chunks[i], a, f[i])
    BY <1>10
  <2> QED
    BY <2>1, <2>2, Zenon
<1> DEFINE end(i) == IF i = 0 THEN 0 ELSE at[i] + Len(chunks[i].old)
           put(i) == SubSeq(text, end(i - 1) + 1, at[i]) \o chunks[i].new
<1>12. ASSUME NEW i \in 0 .. N PROVE f[i].copied = end(i) /\ f[i].cursor = end(i)
  <2>1. CASE i = 0
    <3>1. AtStart.copied = 0 /\ AtStart.cursor = 0
      BY DEF AtStart
    <3> QED
      BY <1>3, <2>1, <3>1
  <2>2. CASE i # 0
    <3>1. i \in 1 .. N
      BY <2>2
    <3> QED
      BY <1>11, <2>2, <3>1 DEF PutAt
  <2> QED
    BY <2>1, <2>2
<1> HIDE DEF end
<1>13. at \in [DOMAIN chunks -> 0 .. Len(text)]
  <2>1. ASSUME NEW i \in 1 .. N PROVE at[i] \in 0 .. m
    <3>1. at[i] \in f[i - 1].copied .. m
      BY <1>2, <1>11 DEF PutAt
    <3>2. f[i - 1].copied \in 0 .. m
      BY <1>4, <1>8
    <3> QED
      BY <3>1, <3>2
  <2> QED
    BY <1>1, <1>2, <1>10, <2>1
<1>14. ASSUME NEW i \in DOMAIN chunks
       PROVE  /\ end(i - 1) <= at[i] /\ end(i) <= Len(text)
              /\ MatchesAt(text, chunks[i].old, at[i], 3)
              /\ chunks[i].old # <<>> => \A s \in end(i - 1)..(Len(text) - Len(chunks[i].old)) :
                   MatchesAt(text, chunks[i].old, s, 1) /\ s # at[i] =>
                     chunks[i].anchors # <<>> \/ chunks[i].eof
  <2>1. i \in 1 .. N
    BY <1>1
  <2>2. f[i - 1].copied = end(i - 1) /\ f[i - 1].cursor = end(i - 1) /\ f[i].copied = end(i)
    BY <1>8, <1>12, <2>1
  <2>3. PutAt(text, f[i - 1], chunks[i], at[i], f[i])
    BY <1>11, <2>1
  <2>4. f[i - 1].copied \in 0 .. m /\ f[i].copied \in 0 .. m
    BY <1>4, <1>8, <2>1
  <2>5. end(i - 1) <= at[i] /\ end(i) <= Len(text)
    <3>1. at[i] \in f[i - 1].copied .. Len(text)
      BY <2>3 DEF PutAt
    <3> QED
      BY <1>2, <2>2, <2>4, <3>1
  <2> QED
    BY <2>2, <2>3, <2>5 DEF PutAt
<1>15. PICK pieces : pieces = [i \in 1 .. N |-> put(i)]
  OBVIOUS
<1>16. ASSUME NEW i \in 1 .. N
       PROVE  /\ pieces[i] \in Seq(Lines) /\ f[i - 1].out \in Seq(Lines)
              /\ f[i].out = f[i - 1].out \o pieces[i]
  <2>1. PICK before : before = SubSeq(text, end(i - 1) + 1, at[i])
    OBVIOUS
  <2>2. f[i - 1].copied = end(i - 1) /\ end(i - 1) \in 0 .. m /\ f[i - 1].out \in Seq(Lines)
    BY <1>4, <1>8, <1>12
  <2>3. at[i] \in 0 .. m
    BY <1>1, <1>2, <1>13
  <2>4. before \in Seq(Lines)
    <3>1. end(i - 1) + 1 \in Int /\ at[i] \in Int
      BY <2>2, <2>3
    <3>2. \A k \in end(i - 1) + 1 .. at[i] : text[k] \in Lines
      BY <1>2, <2>2, <2>3
    <3> QED
      BY <2>1, <3>1, <3>2, SubSeqProperties
  <2>5. chunks[i].new \in Seq(Lines)
    BY <1>8 DEF Chunks
  <2>6. f[i].out = (f[i - 1].out \o before) \o chunks[i].new
    BY <1>11, <2>1, <2>2 DEF PutAt
  <2>7. pieces[i] = before \o chunks[i].new
    BY <1>15, <2>1
  <2>8. PICK o \in Seq(Lines) : o = f[i - 1].out
    BY <2>2
  <2>9. PICK w \in Seq(Lines) : w = chunks[i].new
    BY <2>5
  <2>10. (o \o before) \o w = o \o (before \o w)
    BY <2>4, ConcatAssociative
  <2>11. before \o w \in Seq(Lines)
    BY <2>4, ConcatProperties
  <2> QED
    BY <2>2, <2>6, <2>7, <2>8, <2>9, <2>10, <2>11
<1>17. PICK g : Flat(pieces, N, Lines, g) /\ FlattenSeq(pieces) = g[N]
  <2>1. pieces \in [1 .. N -> Seq(Lines)]
    BY <1>15, <1>16
  <2> QED
    BY <2>1, FlattenRuns
<1>18. f[N].out = FlattenSeq(pieces)
  <2>1. PICK holds : holds = {i \in 0 .. N : f[i].out = g[i]}
    OBVIOUS
  <2>2. g[0] = <<>> /\ \A i \in 1 .. N : g[i] = g[i - 1] \o pieces[i]
    BY <1>17, Zenon DEF Flat
  <2>3. 0 \in holds
    <3>1. AtStart.out = <<>>
      BY DEF AtStart
    <3>2. 0 \in 0 .. N
      OBVIOUS
    <3> QED
      BY <1>3, <2>1, <2>2, <3>1, <3>2
  <2>4. ASSUME NEW i \in 1 .. N, i - 1 \in holds PROVE i \in holds
    <3>1. f[i - 1].out = g[i - 1] /\ i \in 0 .. N
      BY <2>1, <2>4
    <3> QED
      BY <1>16, <2>1, <2>2, <3>1
  <2>5. N \in holds
    <3>1. 0 .. N \subseteq holds
      BY <2>3, <2>4, NumbersReached
    <3> QED
      BY <3>1
  <2> QED
    BY <1>17, <2>1, <2>5
<1>19. rest = FlattenSeq(pieces) \o SubSeq(text, end(N) + 1, Len(text))
  <2>1. N \in 0 .. N
    OBVIOUS
  <2>2. f[N].copied = end(N)
    BY <1>12, <2>1
  <2> QED
    BY <1>5, <1>18, <2>2
<1>20. rest = FlattenSeq([i \in DOMAIN chunks |-> SubSeq(text, end(i - 1) + 1, at[i]) \o chunks[i].new])
              \o SubSeq(text, end(Len(chunks)) + 1, Len(text))
  <2>1. pieces = [i \in DOMAIN chunks |-> SubSeq(text, end(i - 1) + 1, at[i]) \o chunks[i].new]
    BY <1>1, <1>15, Zenon
  <2> QED
    BY <1>1, <1>19, <2>1, Zenon
<1> QED
  BY <1>13, <1>14, <1>20, Zenon DEF Spliced, end

\* What is planned of a hunk: a change of each file it names, the copy before the removal.
Aims(h, by) ==
    /\ by \in Seq(Changes) /\ Targets(h) \in Seq(Names) /\ Len(by) = Len(Targets(h))
    /\ \A j \in 1 .. Len(by) : /\ by[j].path = Targets(h)[Len(by) + 1 - j]
                               /\ by[j].before = disk[by[j].path]
Into(h) == IF h.kind = "update" /\ h.to # "nowhere" THEN h.to ELSE h.path
LEMMA ChangeIs ==
    ASSUME NEW n \in Names, NEW b \in Texts, NEW a \in Texts, NEW c, c = Change(n, b, a)
    PROVE  c \in Changes /\ c.path = n /\ c.before = b /\ c.after = a
  BY DEF Change, Changes
LEMMA OneAim ==
    ASSUME NEW h \in Hunks, ~(h.kind = "update" /\ h.to # "nowhere"),
           NEW c \in Changes, c.path = h.path, c.before = disk[h.path], NEW by, by = <<c>>
    PROVE  Aims(h, by) /\ 1 \in 1 .. Len(by) /\ by[1] = c
<1>1. by \in Seq(Changes) /\ Len(by) = 1 /\ by[1] = c
  <2>1. <<c>> \in Seq(Changes) /\ Len(<<c>>) = 1 /\ <<c>>[1] = c
    OBVIOUS
  <2> QED
    BY <2>1
<1>2. PICK p \in Names : p = h.path
  BY DEF Hunks
<1>3. PICK t : t = Targets(h)
  OBVIOUS
<1>4. t \in Seq(Names) /\ Len(t) = 1 /\ t[1] = p
  <2>1. t = <<p>>
    BY <1>2, <1>3 DEF Targets
  <2>2. <<p>> \in Seq(Names) /\ Len(<<p>>) = 1 /\ <<p>>[1] = p
    OBVIOUS
  <2> QED
    BY <2>1, <2>2
<1>5. \A j \in 1 .. 1 : j = 1 /\ 1 + 1 - j = 1
  OBVIOUS
<1> QED
  BY <1>1, <1>2, <1>3, <1>4, <1>5 DEF Aims
LEMMA TwoAims ==
    ASSUME NEW h \in Hunks, h.kind = "update", h.to # "nowhere", NEW c \in Changes, NEW d \in Changes,
           c.path = h.to, c.before = disk[h.to], d.path = h.path, d.before = disk[h.path],
           NEW by, by = <<c, d>>
    PROVE  Aims(h, by) /\ 1 \in 1 .. Len(by) /\ by[1] = c
<1>1. by \in Seq(Changes) /\ Len(by) = 2 /\ by[1] = c /\ by[2] = d
  <2>1. <<c, d>> \in Seq(Changes) /\ Len(<<c, d>>) = 2 /\ <<c, d>>[1] = c /\ <<c, d>>[2] = d
    OBVIOUS
  <2> QED
    BY <2>1
<1>2. PICK p \in Names : p = h.path
  BY DEF Hunks
<1>3. PICK q \in Names : q = h.to
  BY DEF Hunks
<1>4. PICK t : t = Targets(h)
  OBVIOUS
<1>5. t \in Seq(Names) /\ Len(t) = 2 /\ t[1] = p /\ t[2] = q
  <2>1. t = <<p, q>>
    BY <1>2, <1>3, <1>4 DEF Targets
  <2>2. <<p, q>> \in Seq(Names) /\ Len(<<p, q>>) = 2 /\ <<p, q>>[1] = p /\ <<p, q>>[2] = q
    OBVIOUS
  <2> QED
    BY <2>1, <2>2
<1>6. \A j \in 1 .. 2 : (j = 1 /\ 2 + 1 - j = 2) \/ (j = 2 /\ 2 + 1 - j = 1)
  OBVIOUS
<1> QED
  BY <1>1, <1>2, <1>3, <1>4, <1>5, <1>6 DEF Aims

LEMMA AbsentIs == Absent \in Texts /\ \A t \in Seq(Lines) : t \in Texts
  BY DEF Texts

LEMMA PlannedAims ==
    ASSUME disk \in [Names -> Texts], NEW h \in Hunks, NEW r, r = Planned(h), r.ok
    PROVE  /\ Aims(h, r.by)
           /\ h.kind = "update" => /\ 1 \in 1 .. Len(r.by) /\ r.by[1].path = Into(h)
                                   /\ Spliced(disk[h.path], h.chunks, r.by[1].after)
<1>1. /\ h.kind \in {"add", "delete", "update"} /\ h.path \in Names /\ h.to \in Names \cup {"nowhere"}
      /\ h.chunks \in Seq(Chunks) /\ h.lines \in Seq(Lines) /\ disk[h.path] \in Texts
  BY DEF Hunks
<1>2. CASE h.kind = "add"
  <2>1. PICK c : c = Change(h.path, Absent, h.lines)
    OBVIOUS
  <2>2. PICK by : by = <<c>>
    OBVIOUS
  <2>3. r = [ok |-> disk[h.path] = Absent, by |-> by]
    BY <1>2, <2>1, <2>2, Zenon DEF Planned
  <2>4. r.by = by /\ disk[h.path] = Absent
    <3>1. PICK fine : fine = (disk[h.path] = Absent)
      OBVIOUS
    <3>2. r = [ok |-> fine, by |-> by]
      BY <2>3, <3>1, Zenon
    <3>3. r.ok = fine /\ r.by = by
      BY <3>2
    <3> QED
      BY <3>1, <3>3, Zenon
  <2>5. c \in Changes /\ c.path = h.path /\ c.before = disk[h.path]
    BY <1>1, <2>1, <2>4, AbsentIs, ChangeIs
  <2>6. Aims(h, by)
    BY <1>2, <2>2, <2>5, OneAim
  <2> QED
    BY <1>2, <2>4, <2>6
<1>3. CASE h.kind = "delete"
  <2>1. PICK c : c = Change(h.path, disk[h.path], Absent)
    OBVIOUS
  <2>2. PICK by : by = <<c>>
    OBVIOUS
  <2>3. r = [ok |-> disk[h.path] # Absent, by |-> by]
    BY <1>3, <2>1, <2>2, "add" # "delete", Zenon DEF Planned
  <2>4. r.by = by
    BY <2>3
  <2>5. c \in Changes /\ c.path = h.path /\ c.before = disk[h.path]
    BY <1>1, <2>1, AbsentIs, ChangeIs
  <2>6. Aims(h, by)
    BY <1>3, <2>2, <2>5, OneAim
  <2> QED
    BY <1>3, <2>4, <2>6
<1>4. CASE h.kind = "update"
  <2>1. PICK u : u = Update(disk[h.path], h.chunks)
    OBVIOUS
  <2>2. r = IF disk[h.path] = Absent THEN [ok |-> FALSE, by |-> <<>>] ELSE UpdatedBy(h, u)
    BY <1>4, <2>1, "add" # "update", "delete" # "update", Zenon DEF Planned
  <2>3. r = UpdatedBy(h, u) /\ disk[h.path] # Absent
    <3>1. CASE disk[h.path] = Absent
      <4>1. PICK none : none = <<>>
        OBVIOUS
      <4>2. r = [ok |-> FALSE, by |-> none]
        BY <2>2, <3>1, <4>1
      <4>3. r.ok = FALSE
        BY <4>2
      <4> QED
        BY <4>3
    <3> QED
      BY <2>2, <3>1
  <2>4. u.text \in Seq(Lines) /\ (u.ok => Spliced(disk[h.path], h.chunks, u.text))
    <3>1. disk[h.path] \in Seq(Lines)
      BY <1>1, <2>3 DEF Texts
    <3> QED
      BY <1>1, <2>1, <3>1, UpdateSplices
  <2>5. CASE h.to = "nowhere"
    <3>1. PICK c : c = Change(h.path, disk[h.path], u.text)
      OBVIOUS
    <3>2. PICK by : by = <<c>>
      OBVIOUS
    <3>3. r = [ok |-> u.ok, by |-> by]
      BY <2>3, <2>5, <3>1, <3>2 DEF UpdatedBy
    <3>4. r.by = by /\ u.ok
      BY <3>3
    <3>5. c \in Changes /\ c.path = h.path /\ c.before = disk[h.path] /\ c.after = u.text
      BY <1>1, <2>4, <3>1, AbsentIs, ChangeIs
    <3>6. Aims(h, by) /\ 1 \in 1 .. Len(by) /\ by[1] = c
      BY <2>5, <3>2, <3>5, OneAim
    <3>7. Into(h) = h.path
      BY <2>5 DEF Into
    <3> QED
      BY <2>4, <3>4, <3>5, <3>6, <3>7
  <2>6. CASE h.to # "nowhere"
    <3>1. PICK c : c = Change(h.to, Absent, u.text)
      OBVIOUS
    <3>2. PICK d : d = Change(h.path, disk[h.path], Absent)
      OBVIOUS
    <3>3. PICK by : by = <<c, d>>
      OBVIOUS
    <3>4. r = [ok |-> u.ok /\ disk[h.to] = Absent, by |-> by]
      BY <2>3, <2>6, <3>1, <3>2, <3>3 DEF UpdatedBy
    <3>5. r.by = by /\ u.ok /\ disk[h.to] = Absent
      <4>1. PICK fine : fine = (u.ok /\ disk[h.to] = Absent)
        OBVIOUS
      <4>2. r = [ok |-> fine, by |-> by]
        BY <3>4, <4>1, Zenon
      <4>3. r.ok = fine /\ r.by = by
        BY <4>2
      <4> QED
        BY <4>1, <4>3, Zenon
    <3>6. c \in Changes /\ c.path = h.to /\ c.before = disk[h.to] /\ c.after = u.text
      BY <1>1, <2>4, <2>6, <3>1, <3>5, AbsentIs, ChangeIs
    <3>7. d \in Changes /\ d.path = h.path /\ d.before = disk[h.path]
      BY <1>1, <3>2, AbsentIs, ChangeIs
    <3>8. Aims(h, by) /\ 1 \in 1 .. Len(by) /\ by[1] = c
      BY <1>4, <2>6, <3>3, <3>6, <3>7, TwoAims
    <3>9. Into(h) = h.to
      BY <1>4, <2>6 DEF Into
    <3> QED
      BY <2>4, <3>5, <3>6, <3>8, <3>9
  <2> QED
    BY <2>5, <2>6
<1> QED
  BY <1>1, <1>2, <1>3, <1>4

\* A place in a piece, counted from its end.
LEMMA FromTheEnd ==
    ASSUME NEW a \in Nat, NEW b \in Nat, NEW len \in Nat, b = a + len, NEW j \in 1 .. len,
           NEW q, q = len + 1 - j
    PROVE  /\ j \in Nat /\ a + j > a /\ a + j <= b /\ a + j \in Nat
           /\ q \in 1 .. len /\ a + q > a /\ a + q <= b /\ a + q \in Nat
  OBVIOUS
LEMMA OnePiece ==
    ASSUME NEW x \in Nat, NEW b \in Nat, NEW c \in Nat, x <= b, b <= c, x > c
    PROVE  FALSE
  OBVIOUS

\* A patch that names no file twice has one change of a file.
LEMMA PlanApart ==
    ASSUME NEW n \in Nat, NEW ts \in [1 .. n -> Seq(Names)], NEW bs \in [1 .. n -> Seq(Changes)],
           IsInjective(FlattenSeq(ts)),
           \A i \in 1 .. n : /\ Len(bs[i]) = Len(ts[i])
                             /\ \A j \in 1 .. Len(bs[i]) :
                                  /\ bs[i][j].path = ts[i][Len(bs[i]) + 1 - j]
                                  /\ bs[i][j].before = disk[bs[i][j].path]
    PROVE  /\ FlattenSeq(bs) \in Seq(Changes)
           /\ \A k, l \in DOMAIN FlattenSeq(bs) : FlattenSeq(bs)[k].path = FlattenSeq(bs)[l].path => k = l
           /\ \A k \in DOMAIN FlattenSeq(bs) : FlattenSeq(bs)[k].before = disk[FlattenSeq(bs)[k].path]
           /\ \A i \in 1 .. n : \A j \in 1 .. Len(bs[i]) :
                \E k \in DOMAIN FlattenSeq(bs) : FlattenSeq(bs)[k] = bs[i][j]
<1>1. PICK named : named = FlattenSeq(ts)
  OBVIOUS
<1>2. PICK flat : flat = FlattenSeq(bs)
  OBVIOUS
<1>3. named \in Seq(Names) /\ \E off : Offsets(ts, n, off) /\ FlatAt(ts, n, off, named)
  BY <1>1, FlattenPlaces
<1>4. flat \in Seq(Changes) /\ \E off : Offsets(bs, n, off) /\ FlatAt(bs, n, off, flat)
  BY <1>2, FlattenPlaces
<1>5. PICK o : Offsets(ts, n, o) /\ FlatAt(ts, n, o, named)
  BY <1>3
<1>6. PICK off : Offsets(bs, n, off) /\ FlatAt(bs, n, off, flat)
  BY <1>4
<1>7. /\ off[0] = 0 /\ \A i \in 0 .. n : off[i] \in Nat
      /\ \A i \in 1 .. n : off[i] = off[i - 1] + Len(bs[i])
  BY <1>6 DEF Offsets
<1>8. \A i \in 0 .. n : o[i] = off[i]
  <2>1. PICK holds : holds = {i \in 0 .. n : o[i] = off[i]}
    OBVIOUS
  <2>2. 0 \in holds
    <3>1. 0 \in 0 .. n
      OBVIOUS
    <3> QED
      BY <1>5, <1>7, <2>1, <3>1 DEF Offsets
  <2>3. ASSUME NEW i \in 1 .. n, i - 1 \in holds PROVE i \in holds
    <3>1. o[i - 1] = off[i - 1] /\ i \in 0 .. n
      BY <2>1, <2>3
    <3>2. o[i] = o[i - 1] + Len(ts[i]) /\ off[i] = off[i - 1] + Len(bs[i])
      BY <1>5, <1>7 DEF Offsets
    <3>3. Len(bs[i]) = Len(ts[i])
      OBVIOUS
    <3> QED
      BY <2>1, <3>1, <3>2, <3>3
  <2>4. 0 .. n \subseteq holds
    BY <2>2, <2>3, NumbersReached
  <2> QED
    BY <2>1, <2>4
<1>9. ASSUME NEW i \in 1 .. n
      PROVE  /\ i - 1 \in 0 .. n /\ i \in 0 .. n /\ Len(bs[i]) \in Nat /\ Len(ts[i]) = Len(bs[i])
             /\ off[i] \in Nat /\ off[i - 1] \in Nat /\ off[i] = off[i - 1] + Len(bs[i])
             /\ off[i] <= off[n] /\ o[i - 1] = off[i - 1]
  <2>1. i - 1 \in 0 .. n /\ i \in 0 .. n /\ bs[i] \in Seq(Changes)
    OBVIOUS
  <2>2. Len(bs[i]) \in Nat
    BY <2>1
  <2>3. off[i] <= off[n]
    BY <1>6 DEF FlatAt
  <2> QED
    BY <1>7, <1>8, <2>1, <2>2, <2>3
<1>10. ASSUME NEW i \in 1 .. n, NEW l \in 1 .. n, i < l PROVE off[i] <= off[l - 1]
  <2>1. PICK holds : holds = {k \in 0 .. n : k >= i => off[i] <= off[k]}
    OBVIOUS
  <2>2. off[i] \in Nat
    BY <1>9
  <2>3. 0 \in holds
    <3>1. 0 \in 0 .. n /\ ~(0 >= i)
      OBVIOUS
    <3> QED
      BY <2>1, <3>1
  <2>4. ASSUME NEW k \in 1 .. n, k - 1 \in holds PROVE k \in holds
    <3>1. k \in 0 .. n /\ off[k] = off[k - 1] + Len(bs[k]) /\ Len(bs[k]) \in Nat /\ off[k - 1] \in Nat
      BY <1>9
    <3>2. k - 1 >= i => off[i] <= off[k - 1]
      BY <2>1, <2>4
    <3>3. k >= i => k = i \/ k - 1 >= i
      OBVIOUS
    <3>4. k >= i => off[i] <= off[k]
      BY <2>2, <3>1, <3>2, <3>3
    <3> QED
      BY <2>1, <3>1, <3>4
  <2>5. 0 .. n \subseteq holds
    BY <2>3, <2>4, NumbersReached
  <2>6. l - 1 \in 0 .. n /\ l - 1 >= i
    BY <1>10
  <2>7. l - 1 \in holds
    BY <2>5, <2>6
  <2> QED
    BY <2>1, <2>6, <2>7
<1>11. ASSUME NEW i \in 1 .. n, NEW j \in 1 .. Len(bs[i])
       PROVE  /\ off[i - 1] + j \in 1 .. off[n] /\ flat[off[i - 1] + j] = bs[i][j]
              /\ off[i - 1] + (Len(bs[i]) + 1 - j) \in DOMAIN named
              /\ named[off[i - 1] + (Len(bs[i]) + 1 - j)] = bs[i][j].path
  <2>1. /\ Len(bs[i]) \in Nat /\ Len(ts[i]) = Len(bs[i]) /\ off[i] \in Nat /\ off[i - 1] \in Nat
        /\ off[i] = off[i - 1] + Len(bs[i]) /\ off[i] <= off[n] /\ o[i - 1] = off[i - 1]
    BY <1>9
  <2>2. off[n] \in Nat
    BY <1>7
  <2>3. PICK q : q = Len(bs[i]) + 1 - j
    OBVIOUS
  <2>4. q \in 1 .. Len(ts[i]) /\ off[i - 1] + q \in 1 .. off[n] /\ off[i - 1] + j \in 1 .. off[n]
    <3>1. PICK a \in Nat : a = off[i - 1]
      BY <2>1
    <3>2. PICK b \in Nat : b = off[i]
      BY <2>1
    <3>3. PICK all \in Nat : all = Len(bs[i])
      BY <2>1
    <3>4. PICK end \in Nat : end = off[n]
      BY <2>2
    <3>5. b = a + all /\ j \in 1 .. all /\ q = all + 1 - j /\ b <= end
      BY <2>1, <2>3, <3>1, <3>2, <3>3, <3>4
    <3>6. /\ j \in Nat /\ a + j > a /\ a + j <= b /\ a + j \in Nat
          /\ q \in 1 .. all /\ a + q > a /\ a + q <= b /\ a + q \in Nat
      BY <3>5, FromTheEnd
    <3>7. q \in 1 .. all /\ a + q \in 1 .. end /\ a + j \in 1 .. end
      BY <3>5, <3>6
    <3> QED
      BY <2>1, <3>1, <3>3, <3>4, <3>7
  <2>5. named[o[i - 1] + q] = ts[i][q]
    BY <1>5, <2>4 DEF FlatAt
  <2>6. flat[off[i - 1] + j] = bs[i][j]
    BY <1>6 DEF FlatAt
  <2>7. DOMAIN named = 1 .. off[n]
    <3>1. Len(named) = o[n] /\ o[n] = off[n]
      BY <1>5, <1>8 DEF FlatAt
    <3> QED
      BY <1>3, <3>1
  <2>8. bs[i][j].path = ts[i][q]
    BY <2>3
  <2> QED
    BY <2>1, <2>3, <2>4, <2>5, <2>6, <2>7, <2>8
<1>12. DOMAIN flat = 1 .. off[n]
  <2>1. Len(flat) = off[n]
    BY <1>6 DEF FlatAt
  <2> QED
    BY <1>4, <2>1
<1>13. ASSUME NEW k \in DOMAIN flat
       PROVE  \E i \in 1 .. n : \E j \in 1 .. Len(bs[i]) : k = off[i - 1] + j
  BY <1>6, <1>12, <1>13 DEF FlatAt
<1>14. ASSUME NEW k \in DOMAIN flat, NEW l \in DOMAIN flat, flat[k].path = flat[l].path PROVE k = l
  <2>1. PICK i \in 1 .. n : \E j \in 1 .. Len(bs[i]) : k = off[i - 1] + j
    BY <1>13
  <2>2. PICK j \in 1 .. Len(bs[i]) : k = off[i - 1] + j
    BY <2>1
  <2>3. PICK p \in 1 .. n : \E q \in 1 .. Len(bs[p]) : l = off[p - 1] + q
    BY <1>13
  <2>4. PICK q \in 1 .. Len(bs[p]) : l = off[p - 1] + q
    BY <2>3
  <2>5. PICK x : x = off[i - 1] + (Len(bs[i]) + 1 - j)
    OBVIOUS
  <2>6. PICK y : y = off[p - 1] + (Len(bs[p]) + 1 - q)
    OBVIOUS
  <2>7. x \in DOMAIN named /\ named[x] = flat[k].path
    BY <1>11, <2>2, <2>5
  <2>8. y \in DOMAIN named /\ named[y] = flat[l].path
    BY <1>11, <2>4, <2>6
  <2>9. x = y
    BY <1>1, <1>14, <2>7, <2>8 DEF IsInjective
  <2>10. /\ Len(bs[i]) \in Nat /\ off[i] \in Nat /\ off[i - 1] \in Nat /\ off[i] = off[i - 1] + Len(bs[i])
    BY <1>9
  <2>11. /\ Len(bs[p]) \in Nat /\ off[p] \in Nat /\ off[p - 1] \in Nat /\ off[p] = off[p - 1] + Len(bs[p])
    BY <1>9
  <2>12. PICK a \in Nat : a = off[i - 1]
    BY <2>10
  <2>13. PICK b \in Nat : b = off[i]
    BY <2>10
  <2>14. PICK c \in Nat : c = off[p - 1]
    BY <2>11
  <2>15. PICK d \in Nat : d = off[p]
    BY <2>11
  <2>16. PICK all \in Nat : all = Len(bs[i])
    BY <2>10
  <2>17. PICK each \in Nat : each = Len(bs[p])
    BY <2>11
  <2>18. b = a + all /\ j \in 1 .. all /\ x = a + (all + 1 - j)
    BY <2>5, <2>10, <2>12, <2>13, <2>16
  <2>19. d = c + each /\ q \in 1 .. each /\ y = c + (each + 1 - q)
    BY <2>6, <2>11, <2>14, <2>15, <2>17
  <2>20. x > a /\ x <= b /\ x \in Nat /\ j \in Nat
    BY <2>18, FromTheEnd
  <2>21. y > c /\ y <= d /\ y \in Nat /\ q \in Nat
    BY <2>19, FromTheEnd
  <2>22. ASSUME i < p PROVE FALSE
    <3>1. b <= c
      BY <1>10, <2>13, <2>14, <2>22
    <3> QED
      BY <2>9, <2>20, <2>21, <3>1, OnePiece
  <2>23. ASSUME p < i PROVE FALSE
    <3>1. d <= a
      BY <1>10, <2>12, <2>15, <2>23
    <3> QED
      BY <2>9, <2>20, <2>21, <3>1, OnePiece
  <2>24. i = p
    BY <2>22, <2>23
  <2>25. a = c /\ all = each
    BY <2>12, <2>14, <2>16, <2>17, <2>24
  <2>26. a + (all + 1 - j) = a + (all + 1 - q)
    BY <2>9, <2>18, <2>19, <2>25
  <2>27. j = q
    BY <2>20, <2>21, <2>26
  <2> QED
    BY <2>2, <2>4, <2>12, <2>14, <2>25, <2>27
<1>15. ASSUME NEW k \in DOMAIN flat PROVE flat[k].before = disk[flat[k].path]
  <2>1. PICK i \in 1 .. n : \E j \in 1 .. Len(bs[i]) : k = off[i - 1] + j
    BY <1>13
  <2>2. PICK j \in 1 .. Len(bs[i]) : k = off[i - 1] + j
    BY <2>1
  <2>3. flat[k] = bs[i][j]
    BY <1>11, <2>2
  <2>4. bs[i][j].before = disk[bs[i][j].path]
    OBVIOUS
  <2> QED
    BY <2>3, <2>4
<1>16. ASSUME NEW i \in 1 .. n, NEW j \in 1 .. Len(bs[i]) PROVE \E k \in DOMAIN flat : flat[k] = bs[i][j]
  BY <1>11, <1>12
<1> QED
  BY <1>2, <1>4, <1>14, <1>15, <1>16

LEMMA PatchStarts == PatchInit => PatchInv
<1> SUFFICES ASSUME PatchInit PROVE PatchInv
  OBVIOUS
<1>1. disk \in [Names -> Texts] /\ patch \in Seq(Hunks)
  BY PatchAssumption DEF PatchInit
<1>2. PICK none : none = <<>>
  OBVIOUS
<1>3. none \in Seq(Changes) /\ Len(none) = 0
  <2>1. <<>> \in Seq(Changes) /\ Len(<<>>) = 0
    OBVIOUS
  <2> QED
    BY <1>2, <2>1
<1>4. changes = none /\ was.disk = disk /\ done = 0 /\ others = {} /\ made = {} /\ phase = "asked"
  BY <1>2 DEF PatchInit
<1>5. \A n \in Names : disk[n] # Absent => DirOf[n] \in dirs
  BY DEF PatchInit
<1> QED
  BY <1>1, <1>3, <1>4, <1>5 DEF PatchInv, PatchTypes, PlanInv, WrittenInv, DirsInv, UpdatesSpliced

\* The plan: a change of each file the patch names, the updates spliced.
LEMMA PlansStep == PatchInv /\ Plans => PatchInv'
<1> SUFFICES ASSUME PatchInv, Plans PROVE PatchInv'
  OBVIOUS
<1>1. /\ phase = "asked" /\ was' = [disk |-> disk, dirs |-> dirs]
      /\ disk' = disk /\ dirs' = dirs /\ patch' = patch /\ done' = done /\ made' = made /\ others' = others
  BY DEF Plans
<1>2. was'.disk = disk /\ was'.dirs = dirs
  BY <1>1
<1>3. /\ disk \in [Names -> Texts] /\ patch \in Seq(Hunks) /\ done = 0 /\ others = {} /\ made = {}
      /\ \A n \in Names : disk[n] # Absent => DirOf[n] \in dirs
  BY <1>1 DEF PatchInv, PatchTypes, DirsInv
<1>4. PICK n \in Nat : n = Len(patch) /\ DOMAIN patch = 1 .. n
  BY <1>3
<1>5. \A i \in 1 .. n : patch[i] \in Hunks
  BY <1>3, <1>4
<1>6. PICK ts : ts = [i \in DOMAIN patch |-> Targets(patch[i])]
  OBVIOUS
<1>7. PICK by : by = [i \in DOMAIN patch |-> Planned(patch[i])]
  OBVIOUS
<1>8. PICK bs : bs = [i \in DOMAIN by |-> by[i].by]
  OBVIOUS
<1>9. PICK ok : ok = (IsInjective(FlattenSeq(ts)) /\ \A i \in DOMAIN by : by[i].ok)
  OBVIOUS
<1>10. phase' = (IF ok THEN "writing" ELSE "refused") /\ changes' = IF ok THEN FlattenSeq(bs) ELSE <<>>
  BY <1>6, <1>7, <1>8, <1>9, Zenon DEF Plans
<1>11. CASE ~ok
  <2>1. PICK none : none = <<>>
    OBVIOUS
  <2>2. none \in Seq(Changes) /\ Len(none) = 0
    <3>1. <<>> \in Seq(Changes) /\ Len(<<>>) = 0
      OBVIOUS
    <3> QED
      BY <2>1, <3>1
  <2>3. phase' = "refused" /\ changes' = none
    BY <1>10, <1>11, <2>1
  <2> QED
    BY <1>1, <1>2, <1>3, <2>2, <2>3 DEF PatchInv, PatchTypes, PlanInv, WrittenInv, DirsInv, UpdatesSpliced
<1>12. CASE ok
  <2>1. phase' = "writing" /\ changes' = FlattenSeq(bs)
    BY <1>10, <1>12
  <2>2. IsInjective(FlattenSeq(ts)) /\ \A i \in DOMAIN by : by[i].ok
    BY <1>9, <1>12, Zenon
  <2>3. ASSUME NEW i \in 1 .. n
        PROVE  /\ Aims(patch[i], bs[i])
               /\ patch[i].kind = "update" =>
                    /\ 1 \in 1 .. Len(bs[i]) /\ bs[i][1].path = Into(patch[i])
                    /\ Spliced(disk[patch[i].path], patch[i].chunks, bs[i][1].after)
    <3>1. PICK h \in Hunks : h = patch[i]
      BY <1>5
    <3>2. PICK r : r = by[i]
      OBVIOUS
    <3>3. r = Planned(h) /\ bs[i] = r.by
      BY <1>4, <1>7, <1>8, <3>1, <3>2
    <3>4. r.ok
      BY <1>4, <1>7, <2>2, <3>2
    <3> QED
      BY <1>3, <3>1, <3>3, <3>4, PlannedAims
  <2>4. ts \in [1 .. n -> Seq(Names)] /\ bs \in [1 .. n -> Seq(Changes)]
    <3>1. \A i \in 1 .. n : ts[i] \in Seq(Names) /\ bs[i] \in Seq(Changes)
      BY <1>4, <1>6, <2>3 DEF Aims
    <3>2. ts = [i \in 1 .. n |-> ts[i]] /\ bs = [i \in 1 .. n |-> bs[i]]
      BY <1>4, <1>6, <1>7, <1>8
    <3> QED
      BY <3>1, <3>2
  <2>5. \A i \in 1 .. n : /\ Len(bs[i]) = Len(ts[i])
                          /\ \A j \in 1 .. Len(bs[i]) :
                               /\ bs[i][j].path = ts[i][Len(bs[i]) + 1 - j]
                               /\ bs[i][j].before = disk[bs[i][j].path]
    <3>1. \A i \in 1 .. n : ts[i] = Targets(patch[i])
      BY <1>4, <1>6
    <3> QED
      BY <2>3, <3>1 DEF Aims
  <2>6. PICK all : all = FlattenSeq(bs)
    OBVIOUS
  <2>7. /\ all \in Seq(Changes)
        /\ \A k, l \in DOMAIN all : all[k].path = all[l].path => k = l
        /\ \A k \in DOMAIN all : all[k].before = disk[all[k].path]
        /\ \A i \in 1 .. n : \A j \in 1 .. Len(bs[i]) : \E k \in DOMAIN all : all[k] = bs[i][j]
    <3>1. IsInjective(FlattenSeq(ts))
      BY <2>2
    <3>2. PICK tt \in [1 .. n -> Seq(Names)] : tt = ts
      BY <2>4
    <3>3. PICK bb \in [1 .. n -> Seq(Changes)] : bb = bs
      BY <2>4
    <3>4. \A i \in 1 .. n : /\ Len(bb[i]) = Len(tt[i])
                            /\ \A j \in 1 .. Len(bb[i]) :
                                 /\ bb[i][j].path = tt[i][Len(bb[i]) + 1 - j]
                                 /\ bb[i][j].before = disk[bb[i][j].path]
      BY <2>5, <3>2, <3>3
    <3>5. IsInjective(FlattenSeq(tt)) /\ all = FlattenSeq(bb)
      BY <2>6, <3>1, <3>2, <3>3
    <3>6. /\ FlattenSeq(bb) \in Seq(Changes)
          /\ \A k, l \in DOMAIN FlattenSeq(bb) : FlattenSeq(bb)[k].path = FlattenSeq(bb)[l].path => k = l
          /\ \A k \in DOMAIN FlattenSeq(bb) : FlattenSeq(bb)[k].before = disk[FlattenSeq(bb)[k].path]
          /\ \A i \in 1 .. n : \A j \in 1 .. Len(bb[i]) :
               \E k \in DOMAIN FlattenSeq(bb) : FlattenSeq(bb)[k] = bb[i][j]
      BY <3>2, <3>3, <3>4, <3>5, PlanApart, Zenon
    <3> QED
      BY <3>3, <3>5, <3>6
  <2>8. changes' = all
    BY <2>1, <2>6
  <2>9. PatchTypes'
    <3>1. 0 \in 0 .. Len(all)
      BY <2>7
    <3> QED
      BY <1>1, <1>2, <1>3, <2>1, <2>7, <2>8, <3>1 DEF PatchTypes
  <2>10. PlanInv'
    BY <1>2, <2>7, <2>8 DEF PlanInv
  <2>11. WrittenInv'
    BY <1>1, <1>2, <1>3, <2>1 DEF WrittenInv
  <2>12. DirsInv'
    BY <1>1, <1>2, <1>3, <2>1 DEF DirsInv
  <2>13. ASSUME NEW i \in DOMAIN patch', patch'[i].kind = "update"
         PROVE  \E k \in DOMAIN changes' : /\ changes'[k].path = Into(patch'[i])
                                           /\ Spliced(was'.disk[patch'[i].path], patch'[i].chunks, changes'[k].after)
    <3>1. i \in 1 .. n /\ patch[i].kind = "update"
      BY <1>1, <1>4, <2>13
    <3>2. /\ 1 \in 1 .. Len(bs[i]) /\ bs[i][1].path = Into(patch[i])
          /\ Spliced(disk[patch[i].path], patch[i].chunks, bs[i][1].after)
      BY <2>3, <3>1
    <3>3. PICK k \in DOMAIN all : all[k] = bs[i][1]
      BY <2>7, <3>1, <3>2
    <3> QED
      BY <1>1, <1>2, <2>8, <3>2, <3>3
  <2>14. UpdatesSpliced'
    BY <2>13, Zenon DEF UpdatesSpliced, Into
  <2> QED
    BY <2>9, <2>10, <2>11, <2>12, <2>14 DEF PatchInv
<1> QED
  BY <1>11, <1>12

\* A step that leaves the plan alone leaves what it says of the updates.
LEMMA SplicedStays ==
    ASSUME UpdatesSpliced, UNCHANGED <<was, patch, changes>>, phase' = "writing" => phase = "writing"
    PROVE  UpdatesSpliced'
<1>1. was' = was /\ patch' = patch /\ changes' = changes
  OBVIOUS
<1> SUFFICES ASSUME phase' = "writing"
             PROVE  \A i \in DOMAIN patch :
                      LET h == patch[i]
                          into == IF h.kind = "update" /\ h.to # "nowhere" THEN h.to ELSE h.path
                      IN  h.kind = "update" => \E j \in DOMAIN changes :
                            changes[j].path = into /\ Spliced(was.disk[h.path], h.chunks, changes[j].after)
  BY <1>1, Zenon DEF UpdatesSpliced
<1> QED
  BY Zenon DEF UpdatesSpliced

\* What a write does, whether or not it comes to its end.
LEMMA PutDoes ==
    ASSUME NEW n \in Names, NEW text \in Texts, disk \in [Names -> Texts],
           \A k \in Names : disk[k] # Absent => DirOf[k] \in dirs,
           Put(n, text) \/ PutFails(n, text)
    PROVE  /\ disk' \in [Names -> Texts]
           /\ \A k \in Names : disk'[k] # Absent => DirOf[k] \in dirs'
           /\ \E new : dirs' = dirs \cup new /\ made' = made \cup new /\ new \cap dirs = {}
<1>1. CASE Put(n, text)
  <2>1. /\ disk' = [disk EXCEPT ![n] = text]
        /\ dirs' = IF text = Absent THEN dirs ELSE dirs \cup {DirOf[n]}
        /\ made' = IF text = Absent THEN made ELSE made \cup ({DirOf[n]} \ dirs)
    BY <1>1 DEF Put
  <2>2. dirs \subseteq dirs' /\ (text # Absent => DirOf[n] \in dirs')
    BY <2>1
  <2>3. \A k \in Names : disk'[k] # Absent => DirOf[k] \in dirs'
    BY <2>1, <2>2
  <2>4. CASE text = Absent
    <3>1. dirs' = dirs \cup {} /\ made' = made \cup {} /\ {} \cap dirs = {}
      BY <2>1, <2>4
    <3> QED
      BY <2>1, <2>3, <3>1
  <2>5. CASE text # Absent
    <3>1. PICK new : new = {DirOf[n]} \ dirs
      OBVIOUS
    <3>2. dirs' = dirs \cup new /\ made' = made \cup new /\ new \cap dirs = {}
      BY <2>1, <2>5, <3>1
    <3> QED
      BY <2>1, <2>3, <3>2
  <2> QED
    BY <2>4, <2>5
<1>2. CASE PutFails(n, text)
  <2>1. /\ disk' = disk
        /\ \/ dirs' = dirs /\ made' = made
           \/ dirs' = dirs \cup {DirOf[n]} /\ made' = made \cup ({DirOf[n]} \ dirs)
    BY <1>2 DEF PutFails
  <2>2. PICK new : dirs' = dirs \cup new /\ made' = made \cup new /\ new \cap dirs = {}
    <3>1. CASE dirs' = dirs /\ made' = made
      <4>1. dirs' = dirs \cup {} /\ made' = made \cup {} /\ {} \cap dirs = {}
        BY <3>1
      <4> QED
        BY <4>1
    <3>2. CASE dirs' = dirs \cup {DirOf[n]} /\ made' = made \cup ({DirOf[n]} \ dirs)
      <4>1. PICK new : new = {DirOf[n]} \ dirs
        OBVIOUS
      <4>2. dirs' = dirs \cup new /\ made' = made \cup new /\ new \cap dirs = {}
        BY <3>2, <4>1
      <4> QED
        BY <4>2
    <3> QED
      BY <2>1, <3>1, <3>2
  <2>3. \A k \in Names : disk'[k] # Absent => DirOf[k] \in dirs'
    BY <2>1, <2>2
  <2> QED
    BY <2>1, <2>2, <2>3
<1> QED
  BY <1>1, <1>2

LEMMA WritesStep == PatchInv /\ Writes => PatchInv'
<1> SUFFICES ASSUME PatchInv, Writes PROVE PatchInv'
  OBVIOUS
<1> USE DEF PatchInv
<1>1. /\ phase = "writing" /\ was' = was /\ patch' = patch /\ changes' = changes /\ others' = others
  BY DEF Writes
<1>2. /\ disk \in [Names -> Texts] /\ was.disk \in [Names -> Texts] /\ changes \in Seq(Changes)
      /\ done \in 0 .. Len(changes) /\ others \subseteq Names /\ patch \in Seq(Hunks)
  BY DEF PatchTypes
<1>3. PICK N \in Nat : N = Len(changes) /\ DOMAIN changes = 1 .. N
  BY <1>2
<1>4. /\ \A i, j \in 1 .. N : changes[i].path = changes[j].path => i = j
      /\ \A i \in 1 .. N : changes[i].before = was.disk[changes[i].path]
  BY <1>1, <1>3 DEF PlanInv
<1>5. /\ \A i \in 1 .. done : changes[i].path \in others \/ disk[changes[i].path] = changes[i].after
      /\ \A n \in Names \ others : (\A i \in 1 .. done : changes[i].path # n) => disk[n] = was.disk[n]
  BY <1>1 DEF WrittenInv
<1>6. /\ \A n \in Names : disk[n] # Absent => DirOf[n] \in dirs
      /\ \A n \in Names : was.disk[n] # Absent => DirOf[n] \in was.dirs
      /\ others = {} => dirs = was.dirs \cup made /\ made \cap was.dirs = {}
  BY <1>1 DEF DirsInv
<1>7. CASE done = Len(changes)
  <2>1. phase' = "done" /\ disk' = disk /\ dirs' = dirs /\ made' = made /\ done' = done
    BY <1>7 DEF Writes
  <2>2. PatchTypes'
    BY <1>1, <1>2, <2>1 DEF PatchTypes
  <2>3. PlanInv'
    BY <1>1, <1>3, <1>4 DEF PlanInv
  <2>4. WrittenInv'
    BY <1>1, <1>5, <1>7, <2>1 DEF WrittenInv
  <2>5. DirsInv'
    BY <1>6, <2>1 DEF DirsInv
  <2>6. UpdatesSpliced'
    BY <1>1, <2>1, SplicedStays
  <2> QED
    BY <2>2, <2>3, <2>4, <2>5, <2>6
<1>8. CASE done # Len(changes)
  <2>1. PICK c : c = changes[done + 1]
    OBVIOUS
  <2>2. \/ Put(c.path, c.after) /\ done' = done + 1 /\ phase' = phase
        \/ PutFails(c.path, c.after) /\ phase' = "undoing" /\ done' = done
    BY <1>8, <2>1, Zenon DEF Writes
  <2>3. done \in 0 .. N /\ done + 1 \in 1 .. N
    BY <1>2, <1>3, <1>8
  <2>4. c \in Changes
    BY <1>2, <1>3, <2>1, <2>3
  <2>5. c.path \in Names /\ c.after \in Texts
    BY <2>4 DEF Changes
  <2>6. /\ disk' \in [Names -> Texts]
        /\ \A k \in Names : disk'[k] # Absent => DirOf[k] \in dirs'
        /\ \E new : dirs' = dirs \cup new /\ made' = made \cup new /\ new \cap dirs = {}
    BY <1>2, <1>6, <2>2, <2>5, PutDoes
  <2>7. PlanInv'
    BY <1>1, <1>3, <1>4 DEF PlanInv
  <2>8. phase' \in {"writing", "undoing"}
    BY <1>1, <2>2
  <2>9. DirsInv'
    <3>1. ASSUME others = {} PROVE dirs' = was.dirs \cup made' /\ made' \cap was.dirs = {}
      BY <1>6, <2>6, <3>1
    <3> QED
      BY <1>1, <1>6, <2>6, <2>8, <3>1 DEF DirsInv
  <2>10. UpdatesSpliced'
    BY <1>1, SplicedStays
  <2>11. CASE Put(c.path, c.after) /\ done' = done + 1 /\ phase' = phase
    <3>1. disk' = [disk EXCEPT ![c.path] = c.after]
      BY <2>11 DEF Put
    <3>2. PatchTypes'
      BY <1>1, <1>2, <1>3, <2>3, <2>6, <2>11 DEF PatchTypes
    <3>3. \A i \in 1 .. done + 1 : i \in 1 .. done \/ i = done + 1
      BY <2>3
    <3>4. \A i \in 1 .. done : i \in 1 .. N /\ i # done + 1
      BY <2>3
    <3>5. ASSUME NEW i \in 1 .. done + 1
          PROVE  changes[i].path \in others \/ disk'[changes[i].path] = changes[i].after
      <4>1. CASE i = done + 1
        BY <1>2, <2>1, <2>5, <3>1, <4>1
      <4>2. CASE i \in 1 .. done
        <5>1. changes[i].path # c.path
          BY <1>4, <2>1, <2>3, <3>4, <4>2
        <5>2. changes[i] \in Changes
          BY <1>2, <1>3, <3>4, <4>2
        <5>3. changes[i].path \in Names
          BY <5>2 DEF Changes
        <5> QED
          BY <1>2, <1>5, <3>1, <4>2, <5>1, <5>3
      <4> QED
        BY <3>3, <4>1, <4>2
    <3>6. ASSUME NEW n \in Names \ others, \A i \in 1 .. done + 1 : changes[i].path # n
          PROVE  disk'[n] = was.disk[n]
      <4>1. c.path # n
        BY <2>1, <2>3, <3>6
      <4>2. \A i \in 1 .. done : i \in 1 .. done + 1
        BY <2>3
      <4> QED
        BY <1>2, <1>5, <3>1, <3>6, <4>1, <4>2
    <3>7. WrittenInv'
      BY <1>1, <2>11, <3>5, <3>6 DEF WrittenInv
    <3> QED
      BY <2>7, <2>9, <2>10, <3>2, <3>7
  <2>12. CASE PutFails(c.path, c.after) /\ phase' = "undoing" /\ done' = done
    <3>1. disk' = disk
      BY <2>12 DEF PutFails
    <3>2. PatchTypes'
      BY <1>1, <1>2, <2>6, <2>12 DEF PatchTypes
    <3>3. WrittenInv'
      BY <1>1, <1>5, <2>12, <3>1 DEF WrittenInv
    <3> QED
      BY <2>7, <2>9, <2>10, <3>2, <3>3
  <2> QED
    BY <2>2, <2>11, <2>12
<1> QED
  BY <1>7, <1>8

\* The way back: one change less is written, and a file that could not be put back is told.
LEMMA UndoesStep == PatchInv /\ Undoes => PatchInv'
<1> SUFFICES ASSUME PatchInv, Undoes PROVE PatchInv'
  OBVIOUS
<1> USE DEF PatchInv
<1>1. /\ phase = "undoing" /\ done > 0 /\ done' = done - 1
      /\ was' = was /\ patch' = patch /\ changes' = changes /\ phase' = phase
  BY DEF Undoes
<1>2. /\ disk \in [Names -> Texts] /\ was.disk \in [Names -> Texts] /\ changes \in Seq(Changes)
      /\ done \in 0 .. Len(changes) /\ others \subseteq Names /\ patch \in Seq(Hunks)
  BY DEF PatchTypes
<1>3. PICK N \in Nat : N = Len(changes) /\ DOMAIN changes = 1 .. N
  BY <1>2
<1>4. /\ \A i, j \in 1 .. N : changes[i].path = changes[j].path => i = j
      /\ \A i \in 1 .. N : changes[i].before = was.disk[changes[i].path]
  BY <1>1, <1>3 DEF PlanInv
<1>5. /\ \A i \in 1 .. done : changes[i].path \in others \/ disk[changes[i].path] = changes[i].after
      /\ \A n \in Names \ others : (\A i \in 1 .. done : changes[i].path # n) => disk[n] = was.disk[n]
  BY <1>1 DEF WrittenInv
<1>6. /\ \A n \in Names : disk[n] # Absent => DirOf[n] \in dirs
      /\ \A n \in Names : was.disk[n] # Absent => DirOf[n] \in was.dirs
      /\ others = {} => dirs = was.dirs \cup made /\ made \cap was.dirs = {}
  BY <1>1 DEF DirsInv
<1>7. PICK c : c = changes[done]
  OBVIOUS
<1>8. \/ Put(c.path, c.before) /\ others' = others
      \/ PutFails(c.path, c.before) /\ others' = others \cup {c.path}
  BY <1>7, Zenon DEF Undoes
<1>9. done \in 1 .. N /\ done - 1 \in 0 .. N
  BY <1>1, <1>2, <1>3
<1>10. c \in Changes
  BY <1>2, <1>3, <1>7, <1>9
<1>11. c.path \in Names /\ c.before \in Texts /\ c.before = was.disk[c.path]
  BY <1>4, <1>7, <1>9, <1>10 DEF Changes
<1>12. /\ disk' \in [Names -> Texts]
       /\ \A k \in Names : disk'[k] # Absent => DirOf[k] \in dirs'
       /\ \E new : dirs' = dirs \cup new /\ made' = made \cup new /\ new \cap dirs = {}
  BY <1>2, <1>6, <1>8, <1>11, PutDoes
<1>13. PlanInv'
  BY <1>1, <1>3, <1>4 DEF PlanInv
<1>14. UpdatesSpliced'
  BY <1>1, SplicedStays
<1>15. \A i \in 1 .. done - 1 : i \in 1 .. done /\ i \in 1 .. N /\ i # done
  BY <1>9
<1>16. \A i \in 1 .. done : i \in 1 .. done - 1 \/ i = done
  BY <1>9
<1>17. \A i \in 1 .. done - 1 : changes[i].path # c.path /\ changes[i].path \in Names
  <2>1. ASSUME NEW i \in 1 .. done - 1 PROVE changes[i].path # c.path /\ changes[i].path \in Names
    <3>1. changes[i] \in Changes
      BY <1>2, <1>3, <1>15
    <3> QED
      BY <1>4, <1>7, <1>9, <1>15, <3>1 DEF Changes
  <2> QED
    BY <2>1
<1>18. others' \subseteq Names /\ others \subseteq others'
  BY <1>2, <1>8, <1>11
<1>19. PatchTypes'
  BY <1>1, <1>2, <1>3, <1>9, <1>12, <1>18 DEF PatchTypes
<1>20. DirsInv'
  <2>1. ASSUME others' = {} PROVE dirs' = was.dirs \cup made' /\ made' \cap was.dirs = {}
    <3>1. others = {}
      BY <1>18, <2>1
    <3> QED
      BY <1>6, <1>12, <3>1
  <2> QED
    BY <1>1, <1>6, <1>12, <2>1 DEF DirsInv
<1>21. CASE Put(c.path, c.before) /\ others' = others
  <2>1. disk' = [disk EXCEPT ![c.path] = c.before]
    BY <1>21 DEF Put
  <2>2. ASSUME NEW i \in 1 .. done - 1
        PROVE  changes[i].path \in others \/ disk'[changes[i].path] = changes[i].after
    BY <1>2, <1>5, <1>15, <1>17, <2>1
  <2>3. ASSUME NEW n \in Names \ others, \A i \in 1 .. done - 1 : changes[i].path # n
        PROVE  disk'[n] = was.disk[n]
    <3>1. CASE n = c.path
      BY <1>2, <1>11, <2>1, <3>1
    <3>2. CASE n # c.path
      <4>1. \A i \in 1 .. done : changes[i].path # n
        BY <1>7, <1>16, <2>3, <3>2
      <4> QED
        BY <1>2, <1>5, <2>1, <2>3, <3>2, <4>1
    <3> QED
      BY <3>1, <3>2
  <2>4. WrittenInv'
    BY <1>1, <1>21, <2>2, <2>3 DEF WrittenInv
  <2> QED
    BY <1>13, <1>14, <1>19, <1>20, <2>4
<1>22. CASE PutFails(c.path, c.before) /\ others' = others \cup {c.path}
  <2>1. disk' = disk
    BY <1>22 DEF PutFails
  <2>2. ASSUME NEW i \in 1 .. done - 1
        PROVE  changes[i].path \in others' \/ disk'[changes[i].path] = changes[i].after
    BY <1>5, <1>15, <1>18, <2>1
  <2>3. ASSUME NEW n \in Names \ others', \A i \in 1 .. done - 1 : changes[i].path # n
        PROVE  disk'[n] = was.disk[n]
    <3>1. n \in Names \ others /\ n # c.path
      BY <1>22
    <3>2. \A i \in 1 .. done : changes[i].path # n
      BY <1>7, <1>16, <2>3, <3>1
    <3> QED
      BY <1>5, <2>1, <3>1, <3>2
  <2>4. WrittenInv'
    BY <1>1, <2>2, <2>3 DEF WrittenInv
  <2> QED
    BY <1>13, <1>14, <1>19, <1>20, <2>4
<1> QED
  BY <1>8, <1>21, <1>22

\* With the files back, the directories made on the way have nothing in them.
LEMMA UndoneStep == PatchInv /\ UndoneFiles => PatchInv'
<1> SUFFICES ASSUME PatchInv, UndoneFiles PROVE PatchInv'
  OBVIOUS
<1> USE DEF PatchInv
<1>1. /\ phase = "undoing" /\ done = 0 /\ phase' = "back"
      /\ dirs' = dirs \ {d \in made : \A n \in Names : DirOf[n] = d => disk[n] = Absent}
      /\ disk' = disk /\ was' = was /\ patch' = patch /\ changes' = changes /\ done' = done
      /\ made' = made /\ others' = others
  BY DEF UndoneFiles
<1>2. PatchTypes'
  BY <1>1 DEF PatchTypes
<1>3. PlanInv' /\ WrittenInv' /\ UpdatesSpliced'
  BY <1>1 DEF PlanInv, WrittenInv, UpdatesSpliced
<1>4. \A n \in Names \ others : disk[n] = was.disk[n]
  <2>1. \A n \in Names \ others : (\A i \in 1 .. done : changes[i].path # n) => disk[n] = was.disk[n]
    BY <1>1 DEF WrittenInv
  <2>2. 1 .. done = {}
    BY <1>1
  <2> QED
    BY <2>1, <2>2
<1>5. /\ \A n \in Names : disk[n] # Absent => DirOf[n] \in dirs
      /\ \A n \in Names : was.disk[n] # Absent => DirOf[n] \in was.dirs
      /\ others = {} => dirs = was.dirs \cup made /\ made \cap was.dirs = {}
  BY <1>1 DEF DirsInv
<1>6. \A n \in Names : disk[n] # Absent => DirOf[n] \in dirs'
  BY <1>1, <1>5
<1>7. ASSUME others = {} PROVE dirs' = was.dirs
  <2>1. \A n \in Names : disk[n] = was.disk[n]
    BY <1>4, <1>7
  <2>2. \A d \in made : \A n \in Names : DirOf[n] = d => disk[n] = Absent
    BY <1>5, <1>7, <2>1
  <2> QED
    BY <1>1, <1>5, <1>7, <2>2
<1>8. DirsInv'
  BY <1>1, <1>4, <1>6, <1>7 DEF DirsInv
<1> QED
  BY <1>2, <1>3, <1>8

LEMMA SomeoneStep == ASSUME PatchInv, NEW n \in Names, SomeoneWrites(n) PROVE PatchInv'
<1> USE DEF PatchInv
<1>1. /\ phase \in {"asked", "writing", "undoing"}
      /\ disk' = [disk EXCEPT ![n] = IF disk[n] = Absent THEN <<>> ELSE Absent]
      /\ dirs' = (IF disk[n] = Absent THEN dirs \cup {DirOf[n]} ELSE dirs)
      /\ others' = (IF phase = "asked" THEN others ELSE others \cup {n})
      /\ was' = was /\ patch' = patch /\ changes' = changes /\ phase' = phase /\ done' = done /\ made' = made
  BY DEF SomeoneWrites
<1>2. PICK text : text = IF disk[n] = Absent THEN <<>> ELSE Absent
  OBVIOUS
<1>3. text \in Texts
  <2>1. <<>> \in Seq(Lines)
    OBVIOUS
  <2> QED
    BY <1>2, <2>1, AbsentIs
<1>4. /\ disk \in [Names -> Texts] /\ others \subseteq Names
  BY DEF PatchTypes
<1>5. disk' = [disk EXCEPT ![n] = text]
  BY <1>1, <1>2
<1>6. PatchTypes'
  BY <1>1, <1>3, <1>4, <1>5 DEF PatchTypes
<1>7. PlanInv'
  BY <1>1 DEF PlanInv
<1>8. UpdatesSpliced'
  BY <1>1, SplicedStays
<1>9. \A k \in Names : disk'[k] # Absent => DirOf[k] \in dirs'
  <2>1. \A k \in Names : disk[k] # Absent => DirOf[k] \in dirs
    BY DEF DirsInv
  <2>2. disk[n] = Absent \/ text = Absent
    BY <1>2
  <2> QED
    BY <1>1, <1>4, <1>5, <2>1, <2>2
<1>10. DirsInv'
  <2>1. CASE phase = "asked"
    BY <1>1, <1>9, <2>1 DEF DirsInv
  <2>2. CASE phase # "asked"
    <3>1. others' # {}
      BY <1>1, <2>2
    <3> QED
      BY <1>1, <1>9, <3>1 DEF DirsInv
  <2> QED
    BY <2>1, <2>2
<1>11. WrittenInv'
  <2>1. CASE phase = "asked"
    BY <1>1, <2>1 DEF WrittenInv
  <2>2. CASE phase \in {"writing", "undoing"}
    <3>1. others' = others \cup {n}
      BY <1>1, <2>2
    <3>2. /\ \A i \in 1 .. done : changes[i].path \in others \/ disk[changes[i].path] = changes[i].after
          /\ \A k \in Names \ others : (\A i \in 1 .. done : changes[i].path # k) => disk[k] = was.disk[k]
      BY <2>2 DEF WrittenInv
    <3>3. PICK N \in Nat : N = Len(changes) /\ DOMAIN changes = 1 .. N /\ done \in 0 .. N /\ changes \in Seq(Changes)
      BY DEF PatchTypes
    <3>4. ASSUME NEW i \in 1 .. done
          PROVE  changes[i].path \in others' \/ disk'[changes[i].path] = changes[i].after
      <4>1. changes[i] \in Changes
        BY <3>3
      <4>2. changes[i].path \in Names
        BY <4>1 DEF Changes
      <4> QED
        BY <1>4, <1>5, <3>1, <3>2, <4>2
    <3>5. ASSUME NEW k \in Names \ others', \A i \in 1 .. done : changes[i].path # k
          PROVE  disk'[k] = was.disk[k]
      <4>1. k \in Names \ others /\ k # n
        BY <3>1
      <4> QED
        BY <1>4, <1>5, <3>2, <3>5, <4>1
    <3> QED
      BY <1>1, <2>2, <3>4, <3>5 DEF WrittenInv
  <2> QED
    BY <1>1, <2>1, <2>2
<1> QED
  BY <1>6, <1>7, <1>8, <1>10, <1>11

LEMMA PatchStep == PatchInv /\ [PatchNext]_patchVars => PatchInv'
<1> SUFFICES ASSUME PatchInv, [PatchNext]_patchVars PROVE PatchInv'
  OBVIOUS
<1>1. CASE Plans
  BY <1>1, PlansStep
<1>2. CASE Writes
  BY <1>2, WritesStep
<1>3. CASE Undoes
  BY <1>3, UndoesStep
<1>4. CASE UndoneFiles
  BY <1>4, UndoneStep
<1>5. CASE \E n \in Names : SomeoneWrites(n)
  BY <1>5, SomeoneStep
<1>6. CASE UNCHANGED patchVars
  <2>1. /\ disk' = disk /\ dirs' = dirs /\ was' = was /\ patch' = patch /\ changes' = changes
        /\ phase' = phase /\ done' = done /\ made' = made /\ others' = others
    BY <1>6 DEF patchVars
  <2>2. PatchTypes' /\ PlanInv' /\ WrittenInv' /\ DirsInv'
    BY <2>1 DEF PatchInv, PatchTypes, PlanInv, WrittenInv, DirsInv
  <2>3. UpdatesSpliced'
    BY <2>1, SplicedStays DEF PatchInv
  <2> QED
    BY <2>2, <2>3 DEF PatchInv
<1> QED
  BY <1>1, <1>2, <1>3, <1>4, <1>5, <1>6 DEF PatchNext

(***************************************************************************)
(* A patch that is over (tools/patch.rs commit) was applied in full, or    *)
(* every file and directory is as it was, but for what someone else wrote  *)
(* and what is told as lost; and a planned update (update, seek) is the    *)
(* text with each chunk put in where its old lines stand, in order and     *)
(* apart, an old text that stands there twice being refused.               *)
(***************************************************************************)
THEOREM PatchesAreKept == PatchSpec => []PatchKept
<1>1. PatchInit => PatchInv
  BY PatchStarts
<1>2. PatchInv /\ [PatchNext]_patchVars => PatchInv'
  BY PatchStep
<1>3. PatchInv => PatchKept
  <2> SUFFICES ASSUME PatchInv PROVE AllOrNone
    BY DEF PatchInv, PatchKept
  <2>1. ASSUME phase = "done", NEW i \in DOMAIN changes
        PROVE  changes[i].path \in others \/ disk[changes[i].path] = changes[i].after
    <3>1. done = Len(changes) /\ \A k \in 1 .. done : \/ changes[k].path \in others
                                                      \/ disk[changes[k].path] = changes[k].after
      BY <2>1 DEF PatchInv, WrittenInv
    <3>2. i \in 1 .. Len(changes)
      BY DEF PatchInv, PatchTypes
    <3> QED
      BY <3>1, <3>2
  <2>2. phase = "back" => /\ \A n \in Names \ others : disk[n] = was.disk[n]
                          /\ others = {} => dirs = was.dirs
    BY DEF PatchInv, DirsInv
  <2> QED
    BY <2>1, <2>2 DEF AllOrNone
<1> QED
  BY <1>1, <1>2, <1>3, PTL DEF PatchSpec
=============================================================================
