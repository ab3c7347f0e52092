----------------------------- MODULE PatchFiles -----------------------------
(***************************************************************************)
(* apply_patch (tools/patch.rs): a patch of several files is planned on    *)
(* their text, then written file by file; a write that fails has the files *)
(* before it put back.  Anyone else may write a file in between.  A line   *)
(* is [word, lead, tail]: what it says, its indentation and its trailing   *)
(* blanks.  Links and modes are left out.                                  *)
(***************************************************************************)
EXTENDS Integers, Sequences, FiniteSets, SequencesExt

CONSTANTS
    Names,          \* file names
    DirOf,          \* name -> its directory
    Disks,          \* what the disk may hold at first
    Patches,        \* the patches asked for
    MaxFaults,      \* a bound: writes that fail
    MaxOthers       \* a bound: writes by someone else

\* No text: a file that is not there.
Absent == <<[word |-> "absent", lead |-> "", tail |-> ""]>>

\* Hunk and Chunk; a hunk has every field here, empty where it has no use of it.
Lines == [word : STRING, lead : STRING, tail : STRING]
Texts == Seq(Lines) \cup {Absent}
Chunks == [anchors : Seq(Lines), old : Seq(Lines), new : Seq(Lines), eof : BOOLEAN]
Hunks == [kind : {"add", "delete", "update"}, path : Names, to : Names \cup {"nowhere"},
          chunks : Seq(Chunks), lines : Seq(Lines)]
ASSUME PatchAssumption ==
    /\ "nowhere" \notin Names
    /\ \A d \in Disks : d \in [Names -> Texts]
    /\ \A p \in Patches : p \in Seq(Hunks)
    /\ MaxFaults \in Nat /\ MaxOthers \in Nat

VARIABLES
    disk, dirs,     \* the files, and the directories there are
    was,            \* both, as the plan found them
    patch, changes, \* the patch asked for, and its plan
    phase,          \* "asked", "writing", "undoing", "done", "refused", "back" or "lost"
    done,           \* changes written (or, undoing, still to put back)
    made,           \* directories made on the way
    others,         \* names someone else wrote since the plan
    faultsSeen

patchVars == <<disk, dirs, was, patch, changes, phase, done, made, others, faultsSeen>>

PatchInit ==
    /\ disk \in Disks /\ dirs = {DirOf[n] : n \in {n \in Names : disk[n] # Absent}} \cup {"."}
    /\ was = [disk |-> disk, dirs |-> dirs] /\ patch \in Patches
    /\ changes = <<>> /\ phase = "asked" /\ done = 0 /\ made = {} /\ others = {} /\ faultsSeen = 0

(***************************************************************************)
(* One file's new text.                                                    *)
(***************************************************************************)
Norm(tier, l) == CASE tier = 1 -> l
                   [] tier = 2 -> [l EXCEPT !.tail = ""]
                   [] tier = 3 -> l.word
MatchesAt(text, want, s, tier) ==
    \A i \in DOMAIN want : Norm(tier, text[s + i]) = Norm(tier, want[i])
Found(text, want, from, eof, tier) ==
    LET last == Len(text) - Len(want)
    IN  {s \in (IF eof THEN {last} ELSE from..last) : s >= from /\ MatchesAt(text, want, s, tier)}
FirstPlace(places) == IF places = {} THEN -1 ELSE CHOOSE s \in places : \A r \in places : s <= r
Only(places) == IF Cardinality(places) = 1 THEN FirstPlace(places) ELSE -1
Strictest(first, second, third) ==
    IF first # {} THEN first ELSE IF second # {} THEN second ELSE third
\* A departure for the checks: the first of several places is taken.
SeekFirst(text, want, from, eof) ==
    FirstPlace(Strictest(Found(text, want, from, eof, 1), Found(text, want, from, eof, 2),
                     Found(text, want, from, eof, 3)))
\* seek: the first tier with a match decides, and it has to have only one.
Seek(text, want, from, eof) ==
    Only(Strictest(Found(text, want, from, eof, 1), Found(text, want, from, eof, 2),
                   Found(text, want, from, eof, 3)))

\* update: the chunks in order, each looked for after the last.
Past(st, at) ==
    IF ~st.ok \/ at < 0 THEN [st EXCEPT !.ok = FALSE] ELSE [st EXCEPT !.cursor = at + 1]
AnchorsPassed(text, before, c) ==
    LET past[i \in 0..Len(c.anchors)] ==
            IF i = 0 THEN before
            ELSE Past(past[i - 1], Seek(text, <<c.anchors[i]>>, past[i - 1].cursor, FALSE))
    IN  past[Len(c.anchors)]
Place(text, st, c) ==
    IF c.old # <<>> THEN Seek(text, c.old, st.cursor, c.eof)
    ELSE IF c.anchors = <<>> \/ c.eof THEN Len(text) ELSE st.cursor
PutIn(text, st, c, start) ==
    IF ~st.ok \/ start < 0 THEN [st EXCEPT !.ok = FALSE]
    ELSE [ok |-> TRUE, copied |-> start + Len(c.old), cursor |-> start + Len(c.old),
          out |-> st.out \o SubSeq(text, st.copied + 1, start) \o c.new]
PutInPlace(text, st, c) == PutIn(text, st, c, Place(text, st, c))
Chunked(text, before, c) == PutInPlace(text, AnchorsPassed(text, before, c), c)
WithRest(text, st) == [ok |-> st.ok, text |-> st.out \o SubSeq(text, st.copied + 1, Len(text))]
AtStart == [ok |-> TRUE, copied |-> 0, cursor |-> 0, out |-> <<>>]
Update(text, chunks) ==
    LET after[i \in 0..Len(chunks)] ==
            IF i = 0 THEN AtStart ELSE Chunked(text, after[i - 1], chunks[i])
    IN  WithRest(text, after[Len(chunks)])

(***************************************************************************)
(* The plan.                                                               *)
(***************************************************************************)
Targets(h) == IF h.kind = "update" /\ h.to # "nowhere" THEN <<h.path, h.to>> ELSE <<h.path>>
Change(n, before, after) == [path |-> n, before |-> before, after |-> after]
UpdatedBy(h, new) ==
    IF h.to = "nowhere"
    THEN [ok |-> new.ok, by |-> <<Change(h.path, disk[h.path], new.text)>>]
    ELSE [ok |-> new.ok /\ disk[h.to] = Absent,
          by |-> <<Change(h.to, Absent, new.text), Change(h.path, disk[h.path], Absent)>>]
\* The changes of one hunk, or a refusal.
Planned(h) ==
    CASE h.kind = "add" ->
           [ok |-> disk[h.path] = Absent, by |-> <<Change(h.path, Absent, h.lines)>>]
      [] h.kind = "delete" ->
           [ok |-> disk[h.path] # Absent, by |-> <<Change(h.path, disk[h.path], Absent)>>]
      [] h.kind = "update" ->
           IF disk[h.path] = Absent THEN [ok |-> FALSE, by |-> <<>>]
           ELSE UpdatedBy(h, Update(disk[h.path], h.chunks))
Plans ==
    /\ phase = "asked"
    /\ LET named == FlattenSeq([i \in DOMAIN patch |-> Targets(patch[i])])
           by == [i \in DOMAIN patch |-> Planned(patch[i])]
           ok == IsInjective(named) /\ \A i \in DOMAIN by : by[i].ok
       IN  /\ phase' = IF ok THEN "writing" ELSE "refused"
           /\ changes' = IF ok THEN FlattenSeq([i \in DOMAIN by |-> by[i].by]) ELSE <<>>
    /\ was' = [disk |-> disk, dirs |-> dirs]
    /\ UNCHANGED <<disk, dirs, patch, done, made, others, faultsSeen>>

(***************************************************************************)
(* The writes.                                                             *)
(***************************************************************************)
\* put: a removal of what is not there is done; a write makes the directories it lacks
\* even when it fails after.
Put(n, text) ==
    /\ disk' = [disk EXCEPT ![n] = text]
    /\ dirs' = IF text = Absent THEN dirs ELSE dirs \cup {DirOf[n]}
    /\ made' = IF text = Absent THEN made ELSE made \cup ({DirOf[n]} \ dirs)
    /\ UNCHANGED faultsSeen
PutFails(n, text) ==
    /\ faultsSeen < MaxFaults /\ faultsSeen' = faultsSeen + 1
    /\ UNCHANGED disk
    /\ \/ UNCHANGED <<dirs, made>>
       \/ /\ text # Absent
          /\ dirs' = dirs \cup {DirOf[n]} /\ made' = made \cup ({DirOf[n]} \ dirs)

Writes ==
    /\ phase = "writing"
    /\ IF done = Len(changes) THEN phase' = "done" /\ UNCHANGED <<disk, dirs, made, faultsSeen, done>>
       ELSE LET c == changes[done + 1]
            IN  \/ Put(c.path, c.after) /\ done' = done + 1 /\ UNCHANGED phase
                \/ PutFails(c.path, c.after) /\ phase' = "undoing" /\ UNCHANGED done
    /\ UNCHANGED <<was, patch, changes, others>>

\* A departure for the checks: the putting back ends with the first that fails.
UndoesStopping ==
    /\ phase = "undoing" /\ done > 0
    /\ LET c == changes[done]
       IN  \/ Put(c.path, c.before) /\ done' = done - 1 /\ UNCHANGED others
           \/ PutFails(c.path, c.before) /\ done' = 0 /\ others' = others \cup {c.path}
    /\ UNCHANGED <<was, patch, changes, phase>>
\* commit: what was written is put back, the last first, past what cannot be.
Undoes ==
    /\ phase = "undoing" /\ done > 0
    /\ LET c == changes[done]
       IN  \/ Put(c.path, c.before) /\ UNCHANGED others
           \/ PutFails(c.path, c.before) /\ others' = others \cup {c.path}    \* told as lost
    /\ done' = done - 1
    /\ UNCHANGED <<was, patch, changes, phase>>
\* Then the directories it made go, those that are empty.
UndoneFiles ==
    /\ phase = "undoing" /\ done = 0
    /\ dirs' = dirs \ {d \in made : \A n \in Names : DirOf[n] = d => disk[n] = Absent}
    /\ phase' = "back"
    /\ UNCHANGED <<disk, was, patch, changes, done, made, others, faultsSeen>>

\* Someone else writes or removes a file.
SomeoneWrites(n) ==
    /\ Cardinality(others) < MaxOthers /\ phase \in {"asked", "writing", "undoing"}
    /\ disk' = [disk EXCEPT ![n] = IF @ = Absent THEN <<>> ELSE Absent]
    /\ dirs' = IF disk[n] = Absent THEN dirs \cup {DirOf[n]} ELSE dirs
    /\ others' = IF phase = "asked" THEN others ELSE others \cup {n}
    /\ UNCHANGED <<was, patch, changes, phase, done, made, faultsSeen>>

PatchNext == Plans \/ Writes \/ Undoes \/ UndoneFiles \/ \E n \in Names : SomeoneWrites(n)
PatchSpec == PatchInit /\ [][PatchNext]_patchVars

(***************************************************************************)
(* Properties.                                                             *)
(***************************************************************************)
\* A patch that is over was applied in full, or every file and directory is as it was,
\* but for what someone else wrote and what is told as lost.
AllOrNone ==
    /\ phase = "done" => \A i \in DOMAIN changes : \/ changes[i].path \in others
                                                   \/ disk[changes[i].path] = changes[i].after
    /\ phase = "back" =>
         /\ \A n \in Names \ others : disk[n] = was.disk[n]
         /\ others = {} => dirs = was.dirs

\* What a planned update makes of a file is its text with each chunk put in where its old
\* lines stand, in order and apart; and an old text that stands exactly once after the
\* chunk before it is found there, and one that stands there twice is refused.
Spliced(text, chunks, new) ==
    \E at \in [DOMAIN chunks -> 0..Len(text)] :
        LET end(i) == IF i = 0 THEN 0 ELSE at[i] + Len(chunks[i].old)
        IN  /\ \A i \in DOMAIN chunks :
                 /\ end(i - 1) <= at[i] /\ end(i) <= Len(text)
                 /\ MatchesAt(text, chunks[i].old, at[i], 3)
                 /\ chunks[i].old # <<>> => \A s \in end(i - 1)..(Len(text) - Len(chunks[i].old)) :
                      MatchesAt(text, chunks[i].old, s, 1) /\ s # at[i] =>
                        chunks[i].anchors # <<>> \/ chunks[i].eof
            /\ new = FlattenSeq([i \in DOMAIN chunks |->
                        SubSeq(text, end(i - 1) + 1, at[i]) \o chunks[i].new])
                     \o SubSeq(text, end(Len(chunks)) + 1, Len(text))
UpdatesSpliced ==
    phase = "writing" => \A i \in DOMAIN patch :
        LET h == patch[i]
            into == IF h.kind = "update" /\ h.to # "nowhere" THEN h.to ELSE h.path
        IN  h.kind = "update" => \E j \in DOMAIN changes :
              changes[j].path = into /\ Spliced(was.disk[h.path], h.chunks, changes[j].after)

PatchKept == AllOrNone /\ UpdatesSpliced
=============================================================================
