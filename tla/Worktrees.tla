-------------------------------- MODULE Worktrees --------------------------------
(***************************************************************************)
(* worktrees.rs: a git worktree for each child that asks for one, and the  *)
(* registry several bhai processes of a project share.  A row is written   *)
(* before its worktree exists; it is settled when the child ends, when its *)
(* process starts or quits, or by /worktrees clean: removed when nothing   *)
(* would be lost, kept otherwise.  Processes die at any step.              *)
(***************************************************************************)
EXTENDS Integers, Sequences, FiniteSets

CONSTANTS
    Leasers,         \* the children that ask for a worktree
    BhaiProcs,       \* the bhai processes of the project
    ParentOf,        \* the process each child runs in
    Pids,            \* process ids, handed out again once free
    MaxRuns          \* bound on starts of a process, and on what the user does

ASSUME ParentType == ParentOf \in [Leasers -> BhaiProcs]
ASSUME OwnersApart ==
    /\ Leasers \cap BhaiProcs = {} /\ "none" \notin Leasers \cup BhaiProcs
    /\ MaxRuns \in Nat

VARIABLES
    rows,        \* the registry: child, pid, and whether it was kept
    trees,       \* of each child: its directory, its branch, and what git lists
    tasks,       \* where each child is
    procs,       \* of each process: where it is, and its pid
    jobs,        \* settling under way: a child's release, a process's sweep
    regLock,     \* who holds the registry's lock
    loose,       \* history: at work while its process quit, or beside a dead process's row
    lost,        \* history: work that was removed and is nowhere else
    deeds        \* starts of processes, and what the user did

treeVars == <<rows, trees, tasks, procs, jobs, regLock, loose, lost, deeds>>

NoTree == [dir |-> FALSE, dirty |-> FALSE, branch |-> "none", on |-> "no"]
NoJob == [pc |-> "none", at |-> 1, left |-> <<>>, listing |-> <<>>]
Owners == Leasers \cup BhaiProcs
TreeInit ==
    /\ rows = <<>> /\ trees = [c \in Leasers |-> NoTree]
    /\ tasks = [c \in Leasers |-> "none"]
    /\ procs = [p \in BhaiProcs |-> [pc |-> "down", pid |-> 0]]
    /\ jobs = [t \in Owners |-> NoJob] /\ regLock = "none"
    /\ loose = {} /\ lost = {} /\ deeds = 0

Alive(pid) == \E p \in BhaiProcs : procs[p].pc # "down" /\ procs[p].pid = pid
ProcOf(t) == IF t \in Leasers THEN ParentOf[t] ELSE t
PidOf(c) == procs[ParentOf[c]].pid
RowsOf(c) == {i \in DOMAIN rows : rows[i].child = c}
Least(s) == CHOOSE i \in s : \A j \in s : i <= j
\* What git worktree list says: whether it has the child's branch checked out there.
Listing == [c \in Leasers |-> trees[c].on]
AtWork(c) == tasks[c] \in {"adding", "undoing", "working"}

-----------------------------------------------------------------------------
(* A child and its worktree: lease, create, finish. *)

Asks(c) ==
    /\ tasks[c] = "none" /\ procs[ParentOf[c]].pc = "up"
    /\ tasks' = [tasks EXCEPT ![c] = "leasing"]
    /\ UNCHANGED <<rows, trees, procs, jobs, regLock, loose, lost, deeds>>
NewRow(c) == [child |-> c, pid |-> PidOf(c), kept |-> FALSE]
Beside(c, own) == \E i \in RowsOf(c) \ own : rows[i] # NewRow(c)
Excused(c, own) == IF Beside(c, own) THEN loose \cup {c} ELSE loose
\* The worktree it was kept in; or a row for a new one.
KeptFor(c) == {i \in RowsOf(c) : rows[i].kept /\ trees[c].on = "ours" /\ trees[c].dir}
\* Mutant: the row still says that nothing is working there.
TakenOverKept(c) == [rows EXCEPT ![Least(KeptFor(c))].pid = PidOf(c)]
TakenOver(c) ==
    [rows EXCEPT ![Least(KeptFor(c))].kept = FALSE, ![Least(KeptFor(c))].pid = PidOf(c)]
Lease(c) ==
    /\ tasks[c] = "leasing" /\ regLock = "none"
    /\ IF KeptFor(c) # {}
       THEN /\ rows' = TakenOver(c)
            /\ tasks' = [tasks EXCEPT ![c] = "working"] /\ loose' = Excused(c, {Least(KeptFor(c))})
       ELSE tasks' = [tasks EXCEPT ![c] = "creating"] /\ UNCHANGED <<rows, loose>>
    /\ UNCHANGED <<trees, procs, jobs, regLock, lost, deeds>>
WriteRow(c) ==
    /\ tasks[c] = "creating" /\ regLock = "none"
    /\ rows' = Append(rows, NewRow(c))
    /\ tasks' = [tasks EXCEPT ![c] = "adding"]
    /\ UNCHANGED <<trees, procs, jobs, regLock, loose, lost, deeds>>
\* git worktree add -b: refused when the branch is there, or the path is or was.
Addable(c) == trees[c] = NoTree
AddTree(c) ==
    /\ tasks[c] = "adding"
    /\ \/ /\ Addable(c) /\ tasks' = [tasks EXCEPT ![c] = "working"]
          /\ trees' = [trees EXCEPT ![c] = [dir |-> TRUE, dirty |-> FALSE, branch |-> "base", on |-> "ours"]]
          /\ loose' = Excused(c, {})
       \/ tasks' = [tasks EXCEPT ![c] = "undoing"] /\ UNCHANGED <<trees, loose>>
    /\ UNCHANGED <<rows, procs, jobs, regLock, lost, deeds>>
\* The rows that are the one written are taken out again, and only those.
\* Mutant: every row of the child is.
UndoneAll(c) == SelectSeq(rows, LAMBDA r : r.child # c)
Undone(c) ==
    LET left[n \in 0 .. Len(rows)] ==
            IF n = 0 THEN <<>>
            ELSE IF rows[n] = NewRow(c) THEN left[n - 1] ELSE Append(left[n - 1], rows[n])
    IN  left[Len(rows)]
UndoRow(c) ==
    /\ tasks[c] = "undoing" /\ regLock = "none"
    /\ rows' = Undone(c)
    /\ tasks' = [tasks EXCEPT ![c] = "none"]
    /\ UNCHANGED <<trees, procs, jobs, regLock, loose, lost, deeds>>

\* What a child does there: changes files, commits them, checks out something else.
Works(c) ==
    /\ tasks[c] = "working" /\ trees[c].dir
    /\ trees' \in
        {[trees EXCEPT ![c].dirty = TRUE]}
        \cup {[trees EXCEPT ![c].dirty = FALSE, ![c].branch = "ahead"] :
                 x \in IF trees[c].dirty /\ trees[c].on = "ours" THEN {1} ELSE {}}
        \cup {[trees EXCEPT ![c].on = "other"] : x \in IF trees[c].on = "ours" THEN {1} ELSE {}}
    /\ UNCHANGED <<rows, tasks, procs, jobs, regLock, loose, lost, deeds>>
\* finish, or the lease dropped.
Finish(c) ==
    /\ tasks[c] = "working"
    /\ tasks' = [tasks EXCEPT ![c] = "releasing"]
    /\ jobs' = [jobs EXCEPT ![c] = [NoJob EXCEPT !.pc = "lock"]]
    /\ UNCHANGED <<rows, trees, procs, regLock, loose, lost, deeds>>

-----------------------------------------------------------------------------
(* Settling: release, sweep, settle. *)

\* What a sweep picks: at startup, quitting, and for /worktrees clean.
Picks(p, r) ==
    CASE procs[p].pc = "starting" -> r.pid = procs[p].pid \/ ~Alive(r.pid)
      [] procs[p].pc = "quitting" -> r.pid = procs[p].pid
      [] procs[p].pc = "up"       -> r.kept \/ ~Alive(r.pid)
Picked(t, i) ==
    IF t \in Leasers THEN i \in RowsOf(t) /\ \A j \in RowsOf(t) : i <= j ELSE Picks(t, rows[i])
TakeLock(t) ==
    /\ jobs[t].pc = "lock" /\ regLock = "none" /\ regLock' = t
    /\ jobs' = [jobs EXCEPT ![t].pc = "look", ![t].listing = Listing]
    /\ loose' = IF t \in BhaiProcs /\ procs[t].pc = "quitting"
                 THEN loose \cup {c \in Leasers : ParentOf[c] = t /\ AtWork(c)} ELSE loose
    /\ UNCHANGED <<rows, trees, tasks, procs, lost, deeds>>

\* git worktree prune: of every worktree whose directory is gone.
Pruned == [c \in Leasers |-> IF trees[c].dir THEN trees[c] ELSE [trees[c] EXCEPT !.on = "no"]]
\* Nothing would be lost.  A doubt keeps it.
\* Mutant: commits that the checkout lacks are not looked for.
SpareDirty(c, on) ==
    IF trees[c].dir THEN ~trees[c].dirty /\ on = "ours"
                    ELSE trees[c].branch = "none" \/ on = "ours"
Spare(c, on) ==
    /\ trees[c].branch # "ahead"
    /\ IF trees[c].dir THEN ~trees[c].dirty /\ on = "ours"
                       ELSE trees[c].branch = "none" \/ on = "ours"
\* What is done with a row: it is left as it is, left out, or left and marked.
PassedOver(t) == [jobs[t] EXCEPT !.pc = "look", !.at = @ + 1, !.left = Append(@, rows[jobs[t].at])]
LeftOut(t) == [jobs[t] EXCEPT !.pc = "look", !.at = @ + 1]
Marked(t) ==
    [jobs[t] EXCEPT !.pc = "look", !.at = @ + 1,
                    !.left = Append(@, [rows[jobs[t].at] EXCEPT !.kept = TRUE])]
Look(t) ==
    /\ jobs[t].pc = "look" /\ jobs[t].at \in DOMAIN rows
    /\ LET i == jobs[t].at  c == rows[i].child
       IN  IF ~Picked(t, i)
           THEN jobs' = [jobs EXCEPT ![t] = PassedOver(t)] /\ UNCHANGED trees
           ELSE /\ trees' = IF trees[c].dir THEN trees ELSE Pruned
                /\ jobs' = [jobs EXCEPT ![t] =
                      IF ~Spare(c, jobs[t].listing[c]) THEN Marked(t)
                      ELSE IF trees[c].dir THEN [jobs[t] EXCEPT !.pc = "remove"]
                      ELSE IF trees[c].branch = "none" THEN LeftOut(t)
                      ELSE [jobs[t] EXCEPT !.pc = "drop"]]
    /\ UNCHANGED <<rows, tasks, procs, regLock, loose, lost, deeds>>
\* git worktree remove, which refuses what has changes; then the branch.
RemovesTree(t) ==
    /\ jobs[t].pc = "remove"
    /\ LET c == rows[jobs[t].at].child
       IN  \/ /\ ~trees[c].dirty
              /\ trees' = [trees EXCEPT ![c].dir = FALSE, ![c].on = "no"]
              /\ jobs' = [jobs EXCEPT ![t].pc = "drop"]
           \/ UNCHANGED trees /\ jobs' = [jobs EXCEPT ![t] = Marked(t)]
    /\ UNCHANGED <<rows, tasks, procs, regLock, loose, lost, deeds>>
\* Whether git deletes it or not, the row goes.
DropBranch(t) ==
    /\ jobs[t].pc = "drop"
    /\ LET c == rows[jobs[t].at].child
       IN  \/ /\ trees' = [trees EXCEPT ![c].branch = "none"]
              /\ lost' = IF trees[c].branch = "ahead" THEN lost \cup {c} ELSE lost
           \/ UNCHANGED <<trees, lost>>
    /\ jobs' = [jobs EXCEPT ![t] = LeftOut(t)]
    /\ UNCHANGED <<rows, tasks, procs, regLock, loose, deeds>>
\* The registry is written over; what is left of a startup, a quit or a child follows.
Save(t) ==
    /\ jobs[t].pc = "look" /\ jobs[t].at \notin DOMAIN rows
    /\ rows' = jobs[t].left
    /\ regLock' = "none" /\ jobs' = [jobs EXCEPT ![t] = NoJob]
    /\ IF t \in Leasers
       THEN tasks' = [tasks EXCEPT ![t] = "none"] /\ UNCHANGED <<procs, trees>>
       ELSE /\ procs' = [procs EXCEPT ![t].pc = IF @ = "quitting" THEN "gone" ELSE "up"]
            /\ trees' = IF procs[t].pc = "starting" THEN Pruned ELSE trees
            /\ UNCHANGED tasks
    /\ UNCHANGED <<loose, lost, deeds>>

-----------------------------------------------------------------------------
(* Processes, and the user. *)

Does == deeds < MaxRuns /\ deeds' = deeds + 1
StartProc(p) ==
    /\ procs[p].pc = "down" /\ Does
    /\ \E n \in {n \in Pids : ~Alive(n)} : procs' = [procs EXCEPT ![p] = [pc |-> "starting", pid |-> n]]
    /\ jobs' = [jobs EXCEPT ![p] = [NoJob EXCEPT !.pc = "lock"]]
    /\ UNCHANGED <<rows, trees, tasks, regLock, loose, lost>>
Clean(p) ==
    /\ procs[p].pc = "up" /\ jobs[p].pc = "none" /\ Does
    /\ jobs' = [jobs EXCEPT ![p] = [NoJob EXCEPT !.pc = "lock"]]
    /\ UNCHANGED <<rows, trees, tasks, procs, regLock, loose, lost>>
QuitProc(p) ==
    /\ procs[p].pc = "up" /\ jobs[p].pc = "none"
    /\ procs' = [procs EXCEPT ![p].pc = "quitting"]
    /\ jobs' = [jobs EXCEPT ![p] = [NoJob EXCEPT !.pc = "lock"]]
    /\ UNCHANGED <<rows, trees, tasks, regLock, loose, lost, deeds>>
\* It ends, by itself once it has settled or killed at any step: its lock is let go of.
Dies(p) ==
    /\ procs[p].pc # "down"
    /\ procs' = [procs EXCEPT ![p].pc = "down"]
    /\ jobs' = [t \in Owners |-> IF ProcOf(t) = p THEN NoJob ELSE jobs[t]]
    /\ tasks' = [c \in Leasers |-> IF ParentOf[c] = p THEN "none" ELSE tasks[c]]
    /\ regLock' = IF regLock # "none" /\ ProcOf(regLock) = p THEN "none" ELSE regLock
    /\ UNCHANGED <<rows, trees, loose, lost, deeds>>
\* The user merges a branch, or deletes a directory no child is in.
Merges(c) ==
    /\ trees[c].branch = "ahead" /\ Does
    /\ trees' = [trees EXCEPT ![c].branch = "base"]
    /\ UNCHANGED <<rows, tasks, procs, jobs, regLock, loose, lost>>
Deletes(c) ==
    /\ trees[c].dir /\ tasks[c] = "none" /\ Does
    /\ trees' = [trees EXCEPT ![c].dir = FALSE, ![c].dirty = FALSE]
    /\ UNCHANGED <<rows, tasks, procs, jobs, regLock, loose, lost>>

LeaserSteps(c) ==
    \/ Asks(c) \/ Lease(c) \/ WriteRow(c) \/ AddTree(c) \/ UndoRow(c) \/ Works(c) \/ Finish(c)
    \/ Merges(c) \/ Deletes(c)
Settles(t) == TakeLock(t) \/ Look(t) \/ RemovesTree(t) \/ DropBranch(t) \/ Save(t)
TreeNext ==
    \/ \E c \in Leasers : LeaserSteps(c)
    \/ \E t \in Owners : Settles(t)
    \/ \E p \in BhaiProcs : StartProc(p) \/ Clean(p) \/ QuitProc(p) \/ Dies(p)
TreeSpec == TreeInit /\ [][TreeNext]_treeVars

-----------------------------------------------------------------------------
(* What holds of the worktrees.  Excused are a child its process quits on, and one whose   *)
(* worktree is made beside a row a dead process left while another had its pid.            *)

\* No commit a child made is removed before the checkout has it (worktrees.rs 6).
WorkKept == lost \subseteq loose
\* A worktree that exists is listed, also after a death at any step (worktrees.rs 4: "a crash
\* at any point leaves something the next startup can find").
Findable == \A c \in Leasers : trees[c].dir => RowsOf(c) # {} \/ c \in loose
\* A child at work has its worktree, whatever another process settles.
HasItsTree == \A c \in Leasers : tasks[c] = "working" => trees[c].dir \/ c \in loose
TreesKept == WorkKept /\ Findable /\ HasItsTree
=============================================================================
