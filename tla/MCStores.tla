------------------------------ MODULE MCStores ------------------------------
(***************************************************************************)
(* Parts of bhai that do not touch each other and whose properties are of  *)
(* safety, each checked by itself in one run: world says which part moves, *)
(* and the others rest where they start.                                   *)
(***************************************************************************)
EXTENDS Commands, Worktrees, McpServers, Terminal, Egress, Authorization, PatchFiles, Credentials

VARIABLE world
storesVars == <<world, commandVars, treeVars, mcpVars, terminalVars, egressVars,
                authorizationVars, patchVars, credentialVars>>

\* Commands: one prints in two pieces, the other nothing.
MaxChunksDef == [serve |-> 2, build |-> 0]

\* Worktrees and MCP servers.
ParentOfDef == [ca |-> "pa"]
ViewOfDef == [agent |-> {"gh", "db"}]

\* Terminal: two prompts and an approval, or one prompt and all there is to ask.
BudgetsDef == {[prompts |-> 2, asks |-> 1, questions |-> 0],
               [prompts |-> 1, asks |-> 2, questions |-> 1]}

\* Egress: an origin for each kind of rule, and requests that pass, that do not, that hide
\* their path, and that carry a secret of another origin.
RulesDef == {[method |-> "any", origin |-> "api", path |-> <<"v1">>],
             [method |-> "get", origin |-> "other", path |-> <<>>],
             [method |-> "get", origin |-> "http", path |-> <<"pub">>]}
SecretsDef == <<[name |-> "token", origin |-> "api"], [name |-> "key", origin |-> "other"]>>
EgressAsk(origin, method, path, carries) ==
    [origin |-> origin, method |-> method, path |-> path, upgrade |-> FALSE, carries |-> carries]
AsksDef == {EgressAsk("api", "post", <<"v1", "x">>, {"token"}),
            EgressAsk("api", "post", <<"v1", "\\">>, {}),
            EgressAsk("api", "post", <<"v1", "..", "x">>, {}),
            EgressAsk("api", "get", <<"v1">>, {"token", "key"}),
            EgressAsk("other", "get", <<"x">>, {"key"}),
            [EgressAsk("other", "get", <<"x">>, {}) EXCEPT !.upgrade = TRUE],
            EgressAsk("far", "get", <<"x">>, {"token"}),
            EgressAsk("http", "get", <<"pub">>, {}),
            EgressAsk("http", "get", <<"pub">>, {"token"})}

\* Patches: texts with lines that differ only in blanks; updates of one and of two chunks,
\* with and without anchors, moves, and patches that name a file twice.
L(word, lead) == [word |-> word, lead |-> lead, tail |-> ""]
DirOfDef == [x |-> ".", y |-> ".", dz |-> "d"]
PatchLines == {L("a", ""), L("a", " "), L("b", "")}
TextsTried == {<<>>} \cup {<<p, q>> : p, q \in PatchLines} \cup {<<L("a", ""), p, q>> : p, q \in PatchLines}
DisksDef == {[x |-> t, y |-> v, dz |-> Absent] : t \in TextsTried, v \in {Absent, <<>>}}
Chunk(anchors, old, eof) == [anchors |-> anchors, old |-> old, new |-> <<L("c", "")>>, eof |-> eof]
ChunksTried == {Chunk(anchors, old, eof) : anchors \in {<<>>, <<L("a", "")>>},
               old \in {<<>>, <<L("a", "")>>, <<L("a", ""), L("b", "")>>}, eof \in BOOLEAN}
Edit(chunks, to) == [kind |-> "update", path |-> "x", to |-> to, chunks |-> chunks, lines |-> <<>>]
Add(n) == [kind |-> "add", path |-> n, to |-> "nowhere", chunks |-> <<>>, lines |-> <<>>]
Del(n) == [kind |-> "delete", path |-> n, to |-> "nowhere", chunks |-> <<>>, lines |-> <<>>]
Grow(to) == Edit(<<Chunk(<<>>, <<>>, FALSE)>>, to)
PatchesDef == {<<Edit(<<c>>, "nowhere")>> : c \in ChunksTried}
    \cup {<<Edit(<<c, d>>, "nowhere")>> : c, d \in ChunksTried}
    \cup {<<Grow("dz"), Add("y")>>, <<Add("dz"), Grow("nowhere"), Del("y")>>,
          <<Add("y"), Del("y")>>, <<Del("x"), Grow("dz")>>}

\* Callers of the model in two processes, of which one runs two tasks.
HomeDef(t) == IF t = "cli" THEN "codex" ELSE "bhai"

-----------------------------------------------------------------------------
(* Where a part rests. *)
McpRests == McpInit /\ conns = <<>> /\ \A s \in Repo : conf[s].approved = 1
TerminalRests == TerminalInit /\ hub.budget.prompts = 2
PatchRests ==
    /\ disk = [n \in Names |-> Absent] /\ dirs = {"."} /\ was = [disk |-> disk, dirs |-> dirs]
    /\ patch = <<Add("y")>> /\ changes = <<>> /\ phase = "asked" /\ done = 0 /\ made = {}
    /\ others = {} /\ faultsSeen = 0
RestsBut(w) ==
    /\ world = w
    /\ IF w = "commands" THEN TRUE ELSE CommandInit
    /\ IF w = "worktrees" THEN TRUE ELSE TreeInit
    /\ IF w = "mcp" THEN TRUE ELSE McpRests
    /\ IF w = "terminal" THEN TRUE ELSE TerminalRests
    /\ IF w = "egress" THEN TRUE ELSE EgressInit
    /\ IF w = "authorization" THEN TRUE ELSE AuthorizationInit
    /\ IF w = "patches" THEN TRUE ELSE PatchRests
    /\ IF w = "login" THEN TRUE ELSE CredentialInit

StoresInit ==
    \/ RestsBut("commands") /\ CommandInit
    \/ RestsBut("worktrees") /\ TreeInit
    \/ RestsBut("mcp") /\ McpInit
    \/ RestsBut("terminal") /\ TerminalInit
    \/ RestsBut("egress") /\ EgressInit
    \/ RestsBut("authorization") /\ AuthorizationInit
    \/ RestsBut("patches") /\ PatchInit
    \/ RestsBut("login") /\ CredentialInit

StoresNext ==
    /\ UNCHANGED world
    /\ IF world = "commands" THEN TRUE ELSE UNCHANGED commandVars
    /\ IF world = "worktrees" THEN TRUE ELSE UNCHANGED treeVars
    /\ IF world = "mcp" THEN TRUE ELSE UNCHANGED mcpVars
    /\ IF world = "terminal" THEN TRUE ELSE UNCHANGED terminalVars
    /\ IF world = "egress" THEN TRUE ELSE UNCHANGED egressVars
    /\ IF world = "authorization" THEN TRUE ELSE UNCHANGED authorizationVars
    /\ IF world = "patches" THEN TRUE ELSE UNCHANGED patchVars
    /\ IF world = "login" THEN TRUE ELSE UNCHANGED credentialVars
    /\ \/ world = "commands" /\ CommandNext
       \/ world = "worktrees" /\ TreeNext
       \/ world = "mcp" /\ McpNext
       \/ world = "terminal" /\ TerminalNext
       \/ world = "egress" /\ EgressNext
       \/ world = "authorization" /\ AuthorizationNext
       \/ world = "patches" /\ PatchNext
       \/ world = "login" /\ CredentialNext

StoresSpec == StoresInit /\ [][StoresNext]_storesVars

-----------------------------------------------------------------------------
\* A key allows only the approval that was read, and the screen shows what is.
ScreenKept == AllowedAsRead /\ ScreenTrue
=============================================================================
