----------------------------- MODULE Permissions -----------------------------
(***************************************************************************)
(* permissions/mod.rs: what the rules, the mode and trust make of a call   *)
(* before anybody is asked.                                                *)
(*                                                                         *)
(* A subject is what a rule can match: a command of a chain, a path, a     *)
(* host, a tool by its name.  `name' is the subject as written, `forms'    *)
(* also what deny and ask rules see in it: the program behind a wrapper,   *)
(* another case, the words of a command that cannot be taken apart.        *)
(***************************************************************************)
EXTENDS Naturals, Sequences, SequencesExt

Modes == {"ask", "auto", "bypass"}

\* Deny and ask rules match any form.
Hits(rules, s) == \E r \in rules : r.matches \cap s.forms # {}

\* The allow rules a mode honours: ask only the user's own, and a repo's need trust.
Counts(p, r) == (p.trusted \/ ~r.repo) /\ (p.mode # "ask" \/ r.user)
Allowed(p, s) == \E r \in p.allow : Counts(p, r) /\ s.name \in r.matches

\* What auto allows of its own waits on trust.
Relaxed(p) == p.mode = "auto" /\ p.trusted
\* Protected paths and what cannot be read: bhai's own guards, dropped in bypass.
Guarded(p) == p.mode # "bypass"
Fallback(p, allowed) == IF allowed \/ p.mode = "bypass" THEN "allow" ELSE "ask"

-----------------------------------------------------------------------------
(* A path: read, write, edit, and each file of a patch or a redirect. *)

ProjectWrite(p, s) == Relaxed(p) /\ p.writes /\ s.change /\ s.inside

CheckPath(p, s, needs) ==
    IF Hits(p.deny, s) THEN "deny"
    ELSE IF Hits(p.ask, s) \/ (Guarded(p) /\ s.protected) THEN "ask"
    ELSE IF ~needs THEN "allow"
    ELSE Fallback(p, Allowed(p, s) \/ ProjectWrite(p, s))

\* A tool that only its name decides: a host, an mcp tool, a schedule.
CheckOther(p, s, needs) ==
    IF Hits(p.deny, s) THEN "deny"
    ELSE IF Hits(p.ask, s) THEN "ask"
    ELSE IF ~needs THEN "allow"
    ELSE Fallback(p, Allowed(p, s))

-----------------------------------------------------------------------------
(* A chain of commands. *)

\* Mutant: a relative target is the project's, wherever the chain has gone.
NamedAnyway(t, here) == TRUE
\* A redirect's target can be named where the chain is, or wherever it is.
Named(t, here) == here \/ t.absolute
Redirected(p, c, here) ==
    \A t \in c.to : Named(t, here) /\ CheckPath(p, t, TRUE) = "allow"
ProjectCommand(p, c, here) ==
    /\ here /\ Relaxed(p) /\ p.commands /\ c.project
    /\ \A t \in c.to : Named(t, here) /\ ProjectWrite(p, t)
ReadOnly(p, c) == p.mode # "ask" /\ c.to = {} /\ c.readonly
Runs(p, c, here) ==
    \/ Allowed(p, c) /\ Redirected(p, c, here)
    \/ ReadOnly(p, c)
    \/ ProjectCommand(p, c, here)

\* Where a command leaves the chain: inside the project, somewhere that cannot be named,
\* or stopped. cd: "no", "in" (a directory of the project), "out".
Along(p, at, c) ==
    IF at = "stuck" THEN "stuck"
    ELSE IF p.mode # "ask" /\ c.cd # "no"
         THEN IF c.cd = "in" /\ at = "in" THEN "in"
              ELSE IF Allowed(p, c) THEN "lost" ELSE "stuck"
    ELSE IF Runs(p, c, at = "in") THEN at ELSE "stuck"

Commands(call) == {call.commands[i] : i \in 1 .. Len(call.commands)}

\* The whole chain, command by command, from the project's root.
Follows(p, call) ==
    FoldLeft(LAMBDA at, c : Along(p, at, c), "in", call.commands) # "stuck"

\* launch: the command starts a cloud instance.
CheckBash(p, call) ==
    IF \E c \in Commands(call) : Hits(p.deny, c) THEN "deny"
    ELSE IF \E c \in Commands(call) : Hits(p.ask, c) THEN "ask"
    ELSE IF ~call.parsed THEN Fallback(p, FALSE)
    ELSE IF p.mode = "auto" /\ call.launch THEN "ask"
    ELSE IF Guarded(p) /\ \E c \in Commands(call) : c.protected THEN "ask"
    ELSE IF ~call.inside THEN Fallback(p, FALSE)
    ELSE Fallback(p, Follows(p, call))

-----------------------------------------------------------------------------
(* What is made of several things. *)

\* Every file of a patch, and the strictest answer.
CheckPatch(p, call) ==
    LET each == {CheckPath(p, s, call.needs) : s \in call.paths}
    IN  IF Hits(p.deny, call.self) \/ "deny" \in each THEN "deny"
        ELSE IF Hits(p.ask, call.self) \/ "ask" \in each \/ each = {} THEN "ask"
        ELSE "allow"

\* Typing into a shell is also every command typed.
CheckTyping(p, call) ==
    LET own == CheckOther(p, call.self, call.needs)
        bash == IF call.commands = <<>> THEN "allow" ELSE CheckBash(p, call)
    IN  IF "deny" \in {own, bash} THEN "deny"
        ELSE IF "ask" \in {own, bash} THEN "ask"
        ELSE "allow"

\* A monitor's command answers to deny rules, and to no other.
CheckMonitor(p, call) ==
    IF call.needs /\ CheckBash(p, call) = "deny" THEN "deny"
    ELSE CheckOther(p, call.self, call.needs)

\* Mutant: the rules of a chain decide its first command alone.
CheckFirst(p, call) ==
    IF call.tool = "bash"
    THEN CheckBash(p, [call EXCEPT !.commands = SubSeq(call.commands, 1, 1)])
    ELSE CheckOther(p, call.self, call.needs)
Check(p, call) ==
    IF call.tool = "bash" THEN CheckBash(p, call)
    ELSE IF call.tool = "path" THEN CheckPath(p, call.self, call.needs)
    ELSE IF call.tool = "patch" THEN CheckPatch(p, call)
    ELSE IF call.tool = "write_stdin" THEN CheckTyping(p, call)
    ELSE IF call.tool = "monitor" THEN CheckMonitor(p, call)
    ELSE CheckOther(p, call.self, call.needs)

\* Everything of a call a rule may match.
Subjects(call) ==
    Commands(call) \cup (IF call.tool = "patch" THEN call.paths ELSE {})
        \cup (IF call.tool = "bash" THEN {} ELSE {call.self})

\* Mutant: the judge may wave through what an ask rule keeps for the user.
JudgeableAnyway(p, call) == Relaxed(p)
\* What the judge may answer for: nothing outside auto in a trusted project, and nothing
\* an ask rule keeps for the user.
Judgeable(p, call) == Relaxed(p) /\ ~ \E s \in Subjects(call) : Hits(p.ask, s)
=============================================================================
