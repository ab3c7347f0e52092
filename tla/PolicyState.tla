----------------------------- MODULE PolicyState -----------------------------
(***************************************************************************)
(* The mode, the trust and the rules of a session, and the two files they  *)
(* outlive it in (permissions/mod.rs Policy, trust.rs, settings.rs).  What *)
(* is changed in several places is changed in several steps: the policy    *)
(* has atomics and one lock over its rules, none over the files.           *)
(***************************************************************************)
EXTENDS Permissions, FiniteSets

CONSTANTS
    None,
    Doers,        \* who may change the policy at once: front ends, agents that remember a rule
    Configured,   \* the mode the config asks for
    Deny, Asks,   \* the user's deny and ask rules
    Own,          \* what their own allow rules match, one set of names each
    Texts,        \* what rules saved in the project's settings may match
    Shipped,      \* those the repository may bring
    MaxOps,       \* bound: changes made by front ends
    MaxShipped    \* bound: changes of the settings file from outside

ASSUME PolicyAssumption ==
    /\ Shipped \subseteq Texts /\ Configured \in Modes
    /\ \A texts \in SUBSET Texts : texts # None

VARIABLES
    mode, wanted, trusted, allow,
    file,         \* the rules in .bhai/settings.local.json
    store,        \* what trust.json records of that file, or None
    op,           \* what each doer is in the middle of
    ops, shipped

policyVars == <<mode, wanted, trusted, allow, file, store, op, ops, shipped>>

Rule(text, repo) == [matches |-> text, repo |-> repo, user |-> TRUE]
Start == {Rule(t, FALSE) : t \in Own}
Loaded(texts) == {Rule(t, TRUE) : t \in texts}

Policy == [mode |-> mode, trusted |-> trusted, writes |-> TRUE, commands |-> TRUE,
           deny |-> Deny, ask |-> Asks, allow |-> allow]

\* An untrusted project only has ask.
Clamped(m, isTrusted) == IF isTrusted THEN m ELSE "ask"

Idle == [at |-> "idle", mode |-> "ask", snap |-> {}, text |-> {}, keep |-> FALSE, forget |-> FALSE]
Op == [at : {"idle", "locked", "clamp", "wanted", "rewant", "record", "honour", "forget",
             "keep", "read", "save", "again"},
       mode : Modes, snap : SUBSET Texts, text : Texts \cup {{}}, keep : BOOLEAN, forget : BOOLEAN]

PolicyTypeOK ==
    /\ mode \in Modes /\ wanted \in Modes /\ trusted \in BOOLEAN
    /\ allow \subseteq {Rule(t, r) : t \in Own \cup Texts, r \in BOOLEAN}
    /\ file \subseteq Texts
    /\ store \in (SUBSET Texts) \cup {None}
    /\ op \in [Doers -> Op]
    /\ ops \in 0 .. MaxOps /\ shipped \in 0 .. MaxShipped

PolicyInit ==
    /\ file \in {{}, Shipped}
    /\ store \in {None, file}
    /\ trusted = (store = file)
    /\ wanted = Configured /\ mode = Clamped(Configured, trusted)
    /\ allow = Start \cup Loaded(file)
    /\ op = [d \in Doers |-> Idle]
    /\ ops = 0 /\ shipped = 0

Goes(d, at) == op' = [op EXCEPT ![d].at = at]
Files == <<file, store, shipped>>

-----------------------------------------------------------------------------
(* The mode. *)

\* The session's lock is held over the whole of set_mode.
SetMode(d, m) ==
    /\ op[d].at = "idle" /\ ops < MaxOps
    /\ \A e \in Doers : op[e].at # "locked"
    /\ wanted' = m
    /\ op' = [op EXCEPT ![d] = [Idle EXCEPT !.at = "locked", !.mode = Clamped(m, trusted)]]
    /\ ops' = ops + 1
    /\ UNCHANGED <<mode, trusted, allow, Files>>

StoreMode(d) ==
    /\ op[d].at \in {"locked", "clamp"}
    /\ mode' = op[d].mode
    /\ IF op[d].forget THEN Goes(d, "forget") ELSE op' = [op EXCEPT ![d] = Idle]
    /\ UNCHANGED <<wanted, trusted, allow, Files, ops>>

\* set_mode(wanted()), which nothing locks: what is wanted is read, and written back.
ReadWanted(d) ==
    /\ op[d].at = "wanted"
    /\ op' = [op EXCEPT ![d].at = "rewant", ![d].mode = wanted]
    /\ UNCHANGED <<mode, wanted, trusted, allow, Files, ops>>

AgainWanted(d) ==
    /\ op[d].at = "rewant"
    /\ wanted' = op[d].mode
    /\ op' = [op EXCEPT ![d].at = "clamp", ![d].mode = Clamped(op[d].mode, trusted)]
    /\ UNCHANGED <<mode, trusted, allow, Files, ops>>

-----------------------------------------------------------------------------
(* Trust. *)

\* /trust: the files as they are now are read once.
Trust(d) ==
    /\ op[d].at = "idle" /\ ops < MaxOps
    /\ op' = [op EXCEPT ![d] = [Idle EXCEPT !.at = "record", !.snap = file]]
    /\ ops' = ops + 1
    /\ UNCHANGED <<mode, wanted, trusted, allow, Files>>

Record(d) ==
    /\ op[d].at = "record"
    /\ store' = op[d].snap
    /\ Goes(d, "honour")
    /\ UNCHANGED <<mode, wanted, trusted, allow, file, ops, shipped>>

\* The rules recorded, in place of those loaded before.
Honoured(d) ==
    {r \in allow : ~r.repo} \cup
    {r \in Loaded(op[d].snap) : ~ \E o \in allow : ~o.repo /\ o.matches = r.matches}

\* set_trusted, then for /trust the mode that was held back.
Honour(d) ==
    /\ op[d].at = "honour"
    /\ allow' = Honoured(d)
    /\ trusted' = TRUE
    /\ IF op[d].text = {} THEN Goes(d, "wanted") ELSE op' = [op EXCEPT ![d] = Idle]
    /\ UNCHANGED <<mode, wanted, Files, ops>>

Untrust(d) ==
    /\ op[d].at = "idle" /\ ops < MaxOps
    /\ trusted' = FALSE
    /\ op' = [op EXCEPT ![d] = [Idle EXCEPT !.at = "wanted", !.forget = TRUE]]
    /\ ops' = ops + 1
    /\ UNCHANGED <<mode, wanted, allow, Files>>

Forget(d) ==
    /\ op[d].at = "forget"
    /\ store' = None
    /\ op' = [op EXCEPT ![d] = Idle]
    /\ UNCHANGED <<mode, wanted, trusted, allow, file, ops, shipped>>

-----------------------------------------------------------------------------
(* A rule remembered, from an approval or by /allow. *)

Remembers(d, text) ==
    /\ allow' = allow \cup {Rule(text, FALSE)}
    /\ op' = [op EXCEPT ![d] = [Idle EXCEPT !.at = "keep", !.text = text]]

Allow(d, text) ==
    /\ op[d].at = "idle" /\ ops < MaxOps
    /\ Remembers(d, text)
    /\ ops' = ops + 1
    /\ UNCHANGED <<mode, wanted, trusted, Files>>

\* Mutant: what is remembered makes any project trusted.
KeepsAlways == TRUE
\* The files are as trusted, or bring no rule.
Keeps == store = file \/ file = {}

Keep(d) ==
    /\ op[d].at = "keep"
    /\ op' = [op EXCEPT ![d].at = "read", ![d].keep = Keeps]
    /\ UNCHANGED <<mode, wanted, trusted, allow, Files, ops>>

\* settings::remember reads the file, and writes another over it.
Read(d) ==
    /\ op[d].at = "read"
    /\ op' = [op EXCEPT ![d].at = "save", ![d].snap = file]
    /\ UNCHANGED <<mode, wanted, trusted, allow, Files, ops>>

Save(d) ==
    /\ op[d].at = "save"
    /\ file' = op[d].snap \cup {op[d].text}
    /\ IF op[d].keep THEN Goes(d, "again") ELSE op' = [op EXCEPT ![d] = Idle]
    /\ UNCHANGED <<mode, wanted, trusted, allow, store, ops, shipped>>

\* A store or a settings file that cannot be written: what was to follow is left out.
Unwritten(d) ==
    /\ op[d].at \in {"save", "record"}
    /\ op' = [op EXCEPT ![d] = Idle]
    /\ UNCHANGED <<mode, wanted, trusted, allow, Files, ops>>

\* trust() reads the files once more.
Again(d) ==
    /\ op[d].at = "again"
    /\ op' = [op EXCEPT ![d].at = "record", ![d].snap = file]
    /\ UNCHANGED <<mode, wanted, trusted, allow, Files, ops>>

-----------------------------------------------------------------------------
\* A checkout or an editor brings rules into the file.
Ship ==
    /\ shipped < MaxShipped /\ ~ Shipped \subseteq file
    /\ file' = file \cup Shipped
    /\ shipped' = shipped + 1
    /\ UNCHANGED <<mode, wanted, trusted, allow, store, op, ops>>

\* The session starts again: what is in memory is loaded from the files.
Reload ==
    /\ trusted' = (store = file)
    /\ wanted' = Configured
    /\ mode' = Clamped(Configured, trusted')
    /\ allow' = Start \cup Loaded(file)
    /\ op' = [d \in Doers |-> Idle]
    /\ UNCHANGED <<Files, ops>>

PolicyStep(d) ==
    \/ StoreMode(d) \/ ReadWanted(d) \/ AgainWanted(d) \/ Record(d) \/ Honour(d) \/ Forget(d)
    \/ Keep(d) \/ Read(d) \/ Save(d) \/ Again(d) \/ Unwritten(d)
Change(d) ==
    \/ \E m \in Modes : SetMode(d, m)
    \/ Trust(d) \/ Untrust(d)
    \/ \E t \in Texts \ Shipped : Allow(d, t)
=============================================================================
