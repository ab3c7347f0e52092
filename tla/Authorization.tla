---------------------------- MODULE Authorization ----------------------------
(***************************************************************************)
(* The judge's authorization memory (judge/authorization.rs): every        *)
(* message of the user is queued as a source and checkpointed; two model   *)
(* calls turn the first source into notes and retire older ones; a         *)
(* checkpoint and a journal bring the memory back after a restart.  The    *)
(* model's replies are arbitrary: what they may do is up to the checks.    *)
(* A source has one candidate at most.  Recovery of sessions from before   *)
(* the memory existed is left out.                                         *)
(***************************************************************************)
EXTENDS Naturals, Sequences, FiniteSets, SequencesExt

CONSTANTS
    MaxWords,       \* a bound: messages the user sends
    MaxEntries,     \* MAX_ENTRIES
    MaxLost       \* a bound: writes that fail and times bhai dies

ASSUME AuthorizationAssumption ==
    MaxWords \in Nat /\ MaxEntries \in Nat \ {0} /\ MaxLost \in Nat

VARIABLES
    memory,     \* Memory: revision, entries and pending sources
    checkpoint, \* authorization.json
    journal,    \* the last memory the session's file recorded
    update,     \* the memory an update in progress began with
    failed,     \* failed_update: a revision, 0 for none
    faults,
    spoken,     \* how many messages the user sent
    merged,     \* the messages notes were made of, in order, and what each retired
    unsaved     \* messages a restart lost, which were on no disk

authorizationVars ==
    <<memory, checkpoint, journal, update, failed, faults, spoken, merged, unsaved>>

Kinds == {"grant", "restriction", "revocation"}
NoMemory == [rev |-> 0, entries |-> {}, pending |-> <<>>]
NoUpdate == [on |-> FALSE, of |-> NoMemory, rev |-> 0]

AuthorizationInit ==
    /\ memory = NoMemory /\ checkpoint = NoMemory /\ journal = NoMemory
    /\ update = NoUpdate /\ failed = 0 /\ faults = 0
    /\ spoken = 0 /\ merged = <<>> /\ unsaved = {}

Kept(words) == {m.word : m \in ToSet(merged)} \cup {s.word : s \in ToSet(words.pending)}

\* enqueue: the message joins the pending sources and is checkpointed at once.  A write
\* that fails leaves the notes behind until another message.
Queued == [memory EXCEPT !.rev = @ + 1,
                         !.pending = Append(@, [id |-> memory.rev + 1, word |-> spoken + 1])]
StartUserTurn ==
    /\ spoken < MaxWords /\ spoken' = spoken + 1
    /\ memory' = Queued
    /\ \/ checkpoint' = Queued /\ UNCHANGED <<failed, faults>>
       \/ /\ faults < MaxLost /\ faults' = faults + 1
          /\ failed' = Queued.rev /\ UNCHANGED checkpoint
    /\ UNCHANGED <<journal, update, merged, unsaved>>

\* The session's file records the memory before a call and after a turn.
Records ==
    /\ journal # memory /\ journal' = memory
    /\ UNCHANGED <<memory, checkpoint, update, failed, faults, spoken, merged, unsaved>>

\* One update at a time, and none at a revision that failed.
StartUpdate ==
    /\ ~update.on /\ memory.pending # <<>> /\ failed # memory.rev
    /\ update' = [on |-> TRUE, of |-> memory, rev |-> memory.rev]
    /\ UNCHANGED <<memory, checkpoint, journal, failed, faults, spoken, merged, unsaved>>

\* What merging the first source gives: entries retired on its evidence, its own note.
Retired(entries, gone, source) ==
    {IF e.id \in gone THEN [e EXCEPT !.active = FALSE, !.by = source.id] ELSE e : e \in entries}
Noted(source, kinds) ==
    {[id |-> source.id, word |-> source.word, kind |-> k, active |-> TRUE, by |-> 0] : k \in kinds}
\* A departure for the checks: retired notes make room by dropping the oldest of all.
PrunedOldest(entries) ==
    IF Cardinality(entries) > MaxEntries
    THEN {e \in entries : \E f \in entries : f.id < e.id} ELSE entries

PrunedSources(entries) ==
    IF Cardinality(entries) > MaxEntries THEN {e \in entries : e.active} ELSE entries
\* The checks a reply has to pass: evidence, notes that are active, and no restriction
\* giving way to another.
Holds(entries, gone, kinds) ==
    /\ gone # {} => kinds # {}
    /\ \A e \in entries : e.id \in gone =>
         e.active /\ (e.kind # "grant" => "restriction" \notin kinds)

\* The replies are in: merged into the memory as it is now, or the update fails.
MergesNotes(gone, kinds) ==
    LET base   == update.of
        source == Head(base.pending)
        notes  == PrunedSources(Retired(base.entries, gone, source) \cup Noted(source, kinds))
        next   == [rev |-> memory.rev, entries |-> notes, pending |-> Tail(memory.pending)]
    IN  /\ Holds(base.entries, gone, kinds)
        /\ Cardinality(notes) <= MaxEntries
        /\ memory.pending # <<>> /\ Head(memory.pending) = source
        /\ memory' = next /\ checkpoint' = next
        /\ merged' = Append(merged, [word |-> source.word, gone |-> gone])
        /\ IF next.pending = <<>>
           THEN update' = NoUpdate /\ failed' = 0
           ELSE update' = [update EXCEPT !.of = next] /\ UNCHANGED failed
        /\ UNCHANGED <<journal, faults, spoken, unsaved>>
UpdateNotes ==
    /\ update.on
    /\ \E gone \in SUBSET {e.id : e \in update.of.entries}, kinds \in {{}} \cup {{k} : k \in Kinds} :
         MergesNotes(gone, kinds)

\* A timeout, a reply that does not hold or a write that fails: the revision it began
\* with is not tried again.
UpdateFails ==
    /\ update.on /\ update' = NoUpdate /\ failed' = update.rev
    /\ faults < MaxLost /\ faults' = faults + 1
    /\ UNCHANGED <<memory, checkpoint, journal, spoken, merged, unsaved>>

\* An interrupt drops the update where it stands.
UpdateDropped ==
    /\ update.on /\ update' = NoUpdate
    /\ UNCHANGED <<memory, checkpoint, journal, failed, faults, spoken, merged, unsaved>>

\* A departure for the checks: of two at one revision the journal wins.
RestoredJournal == IF checkpoint.rev <= journal.rev THEN journal ELSE checkpoint
\* checkpoint: which of the two a restart believes.
Restored ==
    IF \/ checkpoint.rev < journal.rev
       \/ checkpoint.rev = journal.rev /\ Len(checkpoint.pending) > Len(journal.pending)
    THEN journal ELSE checkpoint
Restart ==
    /\ faults < MaxLost /\ faults' = faults + 1
    /\ memory' = Restored /\ checkpoint' = Restored
    /\ update' = NoUpdate /\ failed' = 0
    /\ unsaved' = unsaved \cup ((Kept(memory) \ Kept(checkpoint)) \ Kept(journal))
    /\ UNCHANGED <<journal, spoken, merged>>

AuthorizationNext ==
    StartUserTurn \/ Records \/ StartUpdate \/ UpdateNotes \/ UpdateFails \/ UpdateDropped \/ Restart

AuthorizationSpec == AuthorizationInit /\ [][AuthorizationNext]_authorizationVars

(***************************************************************************)
(* Properties.                                                             *)
(***************************************************************************)
\* Every message is either waiting to be noted or was noted once, in the order sent,
\* whatever failed and whenever bhai died, but for one no disk ever held.
WordsKept ==
    /\ \A w \in 1 .. spoken : w \in Kept(memory) \cup unsaved
    /\ \A i, j \in DOMAIN merged : i < j => merged[i].word < merged[j].word
    /\ \A s \in ToSet(memory.pending) : \A m \in ToSet(merged) : m.word # s.word

\* A note is retired only on a later message, which is kept as long as the note is, and
\* what stood as a restriction never gives way to a new restriction.
EvidenceLater ==
    \A e \in memory.entries : ~e.active =>
        \E f \in memory.entries : f.id = e.by /\ f.id > e.id
            /\ (e.kind # "grant" => f.kind # "restriction")

\* An active note goes only on a message that retires it, never to make room and never
\* by a restart.
ActiveKept ==
    [][\A e \in memory.entries : e.active =>
         \/ e \in memory'.entries
         \/ merged' # merged /\ e.id \in Last(merged').gone]_authorizationVars

AuthorizationKept == [](WordsKept /\ EvidenceLater) /\ ActiveKept
=============================================================================
