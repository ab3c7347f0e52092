----------------------------- MODULE Credentials -----------------------------
(***************************************************************************)
(* auth.rs: the login every bhai and the codex CLI share in auth.json.  A  *)
(* call reads it, refreshes it when the access token is about to expire or *)
(* was refused, and the refresh spends a token that can be spent once.     *)
(* Tokens are numbers in the order the server issued them.                 *)
(***************************************************************************)
EXTENDS Integers, FiniteSets

CONSTANTS
    Callers,         \* the tasks of all processes that call the model
    Home(_),         \* the process of a caller
    Rotations,       \* whether a refresh also spends its token: {TRUE}, {FALSE}, or as it pleases
    MaxIssued        \* bound on what the server issues

VARIABLES
    loginFile,   \* auth.json: the access and the refresh token
    server,      \* the tokens the server takes: the last issued, and the refresh token in force
    outworn,     \* access tokens about to expire, and those the server refuses before
    caller,      \* where each caller is, and the tokens it holds
    spent,       \* history: the refresh tokens whose answers a process has read
    cut          \* history: an answer of the server was never read, or never written

credentialVars == <<loginFile, server, outworn, caller, spent, cut>>
Idle == [pc |-> "idle", access |-> 0, rejected |-> 0, refresh |-> 0, answer |-> "none",
         again |-> FALSE]

CredentialInit ==
    /\ loginFile = [access |-> 1, refresh |-> 1]
    /\ server = [issued |-> 1, refresh |-> 1]
    /\ outworn = [expiring |-> {}, revoked |-> {}]
    /\ caller = [t \in Callers |-> Idle]
    /\ spent = [t \in Callers |-> {}] /\ cut = FALSE

Process(t) == {u \in Callers : Home(u) = Home(t)}
Refreshing(t) == caller[t].pc \in {"asked", "answered"}
Calls(t, access) == [caller[t] EXCEPT !.pc = "calling", !.access = access]

\* load: the access token, unless it is about to expire.
Load(t) ==
    /\ caller[t].pc = "idle"
    /\ caller' = [caller EXCEPT ![t] =
           IF loginFile.access \in outworn.expiring THEN [Idle EXCEPT !.pc = "queued"]
           ELSE Calls(t, loginFile.access)]
    /\ UNCHANGED <<loginFile, server, outworn, spent, cut>>

\* The call is made with it; a first 401 has it recovered, a second is the answer.
CallAnswered(t) ==
    /\ caller[t].pc = "calling"
    /\ caller' = [caller EXCEPT ![t] =
           IF caller[t].access \notin outworn.revoked \/ caller[t].again THEN Idle
           ELSE [caller[t] EXCEPT !.pc = "queued", !.rejected = caller[t].access, !.again = TRUE]]
    /\ UNCHANGED <<loginFile, server, outworn, spent, cut>>

\* refresh_with: the file is read again under the process's lock.
Stale(t, access) ==
    IF caller[t].rejected = 0 THEN access \in outworn.expiring ELSE access = caller[t].rejected
\* Mutant: the refresh is asked for without the lock.
RefreshUnlocked(t) ==
    /\ caller[t].pc = "queued"
    /\ caller' = [caller EXCEPT ![t].pc = "asked", ![t].refresh = loginFile.refresh]
    /\ UNCHANGED <<loginFile, server, outworn, spent, cut>>
Refresh(t) ==
    /\ caller[t].pc = "queued"
    /\ \A u \in Process(t) : ~Refreshing(u)
    /\ caller' = [caller EXCEPT ![t] =
           IF Stale(t, loginFile.access)
           THEN [@ EXCEPT !.pc = "asked", !.refresh = loginFile.refresh]
           ELSE Calls(t, loginFile.access)]
    /\ UNCHANGED <<loginFile, server, outworn, spent, cut>>

\* The token endpoint takes the refresh token in force, and as a rule issues another.
Exchange(t) ==
    /\ caller[t].pc = "asked"
    /\ \/ /\ caller[t].refresh = server.refresh /\ server.issued < MaxIssued
          /\ \E rotated \in Rotations :
                LET next == [issued  |-> server.issued + 1,
                             refresh |-> IF rotated THEN server.issued + 1 ELSE server.refresh]
                IN  /\ server' = next
                    /\ caller' = [caller EXCEPT
                           ![t].pc = "answered", ![t].access = next.issued,
                           ![t].answer = IF rotated THEN "rotated" ELSE "kept"]
       \/ /\ caller[t].refresh # server.refresh
          /\ caller' = [caller EXCEPT ![t].pc = "answered", ![t].answer = "refused"]
          /\ UNCHANGED server
    /\ UNCHANGED <<loginFile, outworn, spent, cut>>

Abandons(t) == cut' = (cut \/ caller[t].answer = "rotated")

\* apply_refreshed: what the server sent replaces what the file held.
\* Mutant: the refresh token of the file is kept.
AppliedAccess(t) == [loginFile EXCEPT !.access = caller[t].access]
Applied(t) == [access  |-> caller[t].access,
               refresh |-> IF caller[t].answer = "rotated" THEN caller[t].access
                           ELSE caller[t].refresh]
\* The answer is written, or the refusal is another process's rotation to adopt.
Adopt(t) ==
    /\ caller[t].pc = "answered"
    /\ IF caller[t].answer = "refused"
       THEN /\ caller' = [caller EXCEPT ![t] =
                  IF loginFile.refresh # caller[t].refresh
                  THEN [Calls(t, loginFile.access) EXCEPT !.answer = "none"] ELSE Idle]
            /\ UNCHANGED <<loginFile, cut>>
       ELSE \/ /\ loginFile' = Applied(t)
               /\ caller' = [caller EXCEPT ![t] = [Calls(t, @.access) EXCEPT !.answer = "none"]]
               /\ UNCHANGED cut
            \/ caller' = [caller EXCEPT ![t] = Idle] /\ Abandons(t) /\ UNCHANGED loginFile
    /\ spent' = [u \in Callers |->
           IF u \in Process(t) /\ caller[t].answer = "rotated"
           THEN spent[u] \cup {caller[t].refresh} ELSE spent[u]]
    /\ UNCHANGED <<server, outworn>>

\* The answer is lost, or too late; or an interrupt drops the call where it waits.
GivesUp(t) ==
    /\ caller[t].pc \in {"queued", "asked", "answered", "calling"}
    /\ caller' = [caller EXCEPT ![t] = Idle] /\ Abandons(t)
    /\ UNCHANGED <<loginFile, server, outworn, spent>>

\* The server's clock, and its own reasons.
Outwears ==
    /\ loginFile.access \notin outworn.expiring \cup outworn.revoked
    /\ outworn' \in {[outworn EXCEPT !.expiring = @ \cup {loginFile.access}],
                     [outworn EXCEPT !.revoked = @ \cup {loginFile.access}]}
    /\ UNCHANGED <<loginFile, server, caller, spent, cut>>

CredentialNext ==
    \/ \E t \in Callers : Load(t) \/ CallAnswered(t) \/ Refresh(t) \/ Exchange(t)
                          \/ Adopt(t) \/ GivesUp(t)
    \/ Outwears
CredentialSpec == CredentialInit /\ [][CredentialNext]_credentialVars

-----------------------------------------------------------------------------
\* The refresh token in force is never out of reach: it is in the file, or in the answer
\* of a caller that is about to write it (auth.rs refresh_with, apply_refreshed).
LoginHeld ==
    \/ cut \/ loginFile.refresh = server.refresh
    \/ \E t \in Callers : caller[t].answer = "rotated" /\ caller[t].access = server.refresh
\* A process has no refresh token under way whose rotation it has read: "a caller that
\* queued behind another's refresh takes its result" (auth.rs 114).
SpentOnce == \A t \in Callers : caller[t].pc = "asked" => cut \/ caller[t].refresh \notin spent[t]
\* However its tasks, other processes, interrupts and the server's refusals fall, a login
\* is lost only with an answer that could not be read or written.
LoginStays == LoginHeld /\ SpentOnce
=============================================================================
