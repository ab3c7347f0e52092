--------------------------- MODULE PromptDelivery ---------------------------
(***************************************************************************)
(* What a session promises of a message it accepted: the model reads it    *)
(* exactly once, unless the user takes it back first or the agent dies.    *)
(***************************************************************************)
EXTENDS Naturals, Sequences

CONSTANT Prompts

VARIABLES
    waiting,    \* accepted and not yet read
    read,       \* read by the model, in that order
    back,       \* taken back by the user
    crashed     \* the agent died

vars == <<waiting, read, back, crashed>>

Known(p) == p \in waiting \cup back \/ \E i \in 1 .. Len(read) : read[i] = p

Init == waiting = {} /\ read = <<>> /\ back = {} /\ crashed = FALSE

Accept(p) ==
    /\ ~Known(p)
    /\ waiting' = waiting \cup {p}
    /\ UNCHANGED <<read, back, crashed>>

\* One step of the agent reads any number of waiting messages.
Read ==
    \E ps \in SUBSET waiting :
        /\ ps # {}
        /\ waiting' = waiting \ ps
        /\ Len(read') >= Len(read)
        /\ SubSeq(read', 1, Len(read)) = read
        /\ {read'[i] : i \in Len(read) + 1 .. Len(read')} = ps
        /\ \A i, j \in Len(read) + 1 .. Len(read') : i # j => read'[i] # read'[j]
        /\ UNCHANGED <<back, crashed>>

TakeBack ==
    /\ \E ps \in SUBSET waiting : waiting' = waiting \ ps /\ back' = back \cup ps
    /\ UNCHANGED <<read, crashed>>

\* A death of the agent loses what it held; what it had read is on disk.
Crash ==
    /\ ~crashed /\ crashed' = TRUE
    /\ waiting' \in SUBSET waiting
    /\ UNCHANGED <<read, back>>

Next == (\E p \in Prompts : Accept(p)) \/ Read \/ TakeBack \/ Crash

Spec == Init /\ [][Next]_vars
=============================================================================
