----------------------------- MODULE StepPromise -----------------------------
(***************************************************************************)
(* What a workflow promises of its steps, whatever way they are run: each  *)
(* is settled once, and none runs before all it needs has answered.        *)
(***************************************************************************)
VARIABLES needs, status

None(f) == \A i \in DOMAIN f : f[i] = "none"

Init == None(status) /\ DOMAIN needs = DOMAIN status

MaySettle(i, how) ==
    \/ how = "skipped"
    \/ how \in {"ok", "failed"} /\ \A n \in needs[i] : status[n] = "ok"

Settle ==
    /\ needs' = needs
    /\ DOMAIN status' = DOMAIN status
    /\ \A i \in DOMAIN status :
          \/ status'[i] = status[i]
          \/ status[i] = "none" /\ MaySettle(i, status'[i])

\* The next run.
Again == None(status') /\ DOMAIN needs' = DOMAIN status'

Spec == Init /\ [][Settle \/ Again]_<<needs, status>>
=============================================================================
