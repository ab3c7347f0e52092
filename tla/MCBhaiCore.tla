----------------------------- MODULE MCBhaiCore -----------------------------
(***************************************************************************)
(* Small instances of the session for TLC.                                 *)
(***************************************************************************)
EXTENDS CoreProperties, TLC

CONSTANTS p1, p2, p3, a1, c1, c2, m1, m2

Typed == Permutations({p1, p2, p3}) \cup Permutations({m1, m2})
Kids == Permutations({c1, c2})
=============================================================================
