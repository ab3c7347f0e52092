------------------------------ MODULE MCSaved ------------------------------
(***************************************************************************)
(* What is kept of a session, what is kept of its children, and what its   *)
(* model is sent of it, each checked by itself: world says which moves.    *)
(***************************************************************************)
EXTENDS SavedSession, ChildRuns, Compaction

VARIABLE world
savedVars == <<world, vars, childVars, chatVars>>

\* Two runs of one child: typed to twice, or once and stopped, or once or stopped with one
\* mishap.
ChildBudget(typed, stops, mishaps) ==
    [runs |-> 2, typed |-> typed, stops |-> stops, mishaps |-> mishaps]
ChildBudgetsDef ==
    {ChildBudget(2, 0, 0), ChildBudget(1, 1, 0), ChildBudget(1, 0, 1), ChildBudget(0, 1, 1)}

SavedInit ==
    /\ Init /\ ChildInit /\ ConvoInit
    /\ world \in {"session", "children", "conversation"}
    /\ world # "children" => tally = ChildBudget(2, 0, 0)
    /\ world # "conversation" => brain \in Able

SavedNext ==
    /\ UNCHANGED world
    /\ \/ world = "session" /\ Next /\ UNCHANGED <<childVars, chatVars>>
       \/ world = "children" /\ ChildNext /\ UNCHANGED <<vars, chatVars>>
       \/ world = "conversation" /\ ConvoNext /\ UNCHANGED <<vars, childVars>>

SavedSpec == SavedInit /\ [][SavedNext]_savedVars
=============================================================================
