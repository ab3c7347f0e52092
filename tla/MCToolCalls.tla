----------------------------- MODULE MCToolCalls -----------------------------
(***************************************************************************)
(* Two instances of the gate that a call has to pass, one at a time: world *)
(* says which.  "gate" is one call of a child beside a front end, "appeals"*)
(* an agent whose calls may overlap and that appeals what was denied.      *)
(***************************************************************************)
EXTENDS ToolProperties

A(name) == [name |-> name, forms |-> {name}, protected |-> FALSE]
Command(name, forms, readonly, project) ==
    [name |-> name, forms |-> {name} \cup forms, protected |-> FALSE, to |-> {},
     readonly |-> readonly, project |-> project, cd |-> "no"]
Into(where) == [Command("cd", {}, FALSE, FALSE) EXCEPT !.cd = where]
Writing(command, to) == [command EXCEPT !.to = {to}]
Path(name, change, inside, protected) ==
    [name |-> name, forms |-> {name}, protected |-> protected, change |-> change,
     inside |-> inside, absolute |-> TRUE]
Call(tool, self, commands, needs) ==
    [tool |-> tool, self |-> self, commands |-> commands, parsed |-> TRUE, launch |-> FALSE,
     inside |-> TRUE, paths |-> {}, needs |-> needs, parallel |-> FALSE]

ls == Command("ls", {}, TRUE, FALSE)
make == Command("make", {}, FALSE, FALSE)
curl == Command("curl", {}, FALSE, FALSE)
push == Command("push", {}, FALSE, FALSE)
sudo == Command("sudo", {"rm"}, FALSE, FALSE)

\* The calls of the two runs: MCIs gives every one its shape.
Bash(commands) == Call("bash", A("bash"), commands, TRUE)
MCIs ==
    [ls |-> Bash(<<ls>>), make |-> Bash(<<make>>), curl |-> Bash(<<curl>>),
     pushes |-> Bash(<<ls, push>>), sudos |-> Bash(<<ls, sudo>>),
     watches |-> Call("monitor", A("monitor"), <<push>>, TRUE),
     key |-> Call("path", Path("key", FALSE, TRUE, TRUE), <<>>, FALSE),
     fetch |-> [Call("fetch", A("site"), <<>>, TRUE) EXCEPT !.parallel = TRUE]]

Named1(names) == [matches |-> names, repo |-> FALSE, user |-> TRUE]
MCDeny == {Named1({"rm"})}
MCAsks == {Named1({"push"})}
MCJudgeOf == [c \in Callers |-> IF c = "child" THEN "childs" ELSE "mains"]
MCOwn == {{"ls", "cd"}}
MCTexts == {{"make"}, {"curl"}}
MCShipped == {{"curl"}}
\* Chains of two commands: a move, a build, what a rule names, and where that writes.
MCCommands ==
    {ls, Into("in"), Into("out"), Command("cargo", {}, FALSE, TRUE),
     Writing(curl, [Path("log", TRUE, TRUE, FALSE) EXCEPT !.absolute = FALSE])}
MCChains == {Bash(s) : s \in MCCommands \X MCCommands}
NoChains == {}
KeyCalls == {"key"}
GateCalls == {"make", "curl", "pushes", "sudos", "watches", "key"}
AppealCalls == {"curl", "ls", "fetch"}

Overlapping == {"child", "other"}
Appealing == INSTANCE ToolProperties WITH
    Doers <- Overlapping, Callers <- Overlapping, Calls <- AppealCalls, Chains <- NoChains,
    Judges <- {"childs"}, JudgeOf <- [c \in Overlapping |-> "childs"],
    MaxJudged <- 3, Appeals <- 2, Hooks <- {"none", "block"},
    MaxOps <- 0, MaxShipped <- 0, MaxAims <- 1, MaxCalls <- 4, MaxStarts <- 1

VARIABLE world
gateVars == <<world, allVars>>

GateInit ==
    \/ world = "gate" /\ WatchedInit
    \/ world = "appeals" /\ Appealing!WatchedInit
GateNext ==
    /\ UNCHANGED world
    /\ \/ world = "gate" /\ WatchedNext
       \/ world = "appeals" /\ Appealing!WatchedNext
GateSpec == GateInit /\ [][GateNext]_gateVars
=============================================================================
