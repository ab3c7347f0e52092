# bhai in TLA+

TLA+ models of bhai, a coding agent for the terminal: a session that front ends
share, an agent loop that calls a language model and runs the tools it asks for,
and child agents that work beside it. The models are translated from `src/src`;
TLC checks them on small instances and TLAPS proves some of what they say for
every instance. `PROJECT.json` maps every definition to the lines it stands for.

## The system

| component | state | operations | how it meets the others |
|---|---|---|---|
| session hub (`session.rs`) | one mutex over: the working mark, the queue, the approvals parked, the model shown, the children's panes, the event log | submit, queue, unqueue, interrupt, answer, set_model, set_goal, compact, retry, btw, workflow, clear; `on_agent` for each event | `try_send` into two bounded channels; one unbounded event channel back; a shared `Cancel` |
| agent loop (`agent.rs`, `goal.rs`) | the history, the goal, the model in force, the compacted copy | one loop that picks what to do, `turn` with its steps, batches of calls, compaction | reads the channels and the session's queue, sends events, waits on one-shot replies |
| child agents (`tools/agent.rs`, `background.rs`) | a task each, a latched interrupt flag, a mailbox | spawn, steer, close, report | report channel into the loop, approvals through the session |
| permissions and judge | rules, saved settings, the mode, verdicts | allow, ask or deny a call | asked by the loop before a tool runs |
| workflow (`workflow.rs`) | steps, their results, a token budget | run the ready steps, stop, resume | starts child agents |
| compaction (`compact.rs`, `agent.rs` Compaction, `cache.rs`) | the history as it is sent, the cache guard's last request, a copy made of an idle history | evict, fold behind a summary, install the backend's item, copy | called by the loop between steps, at a turn's end and while idle |
| transcripts (`sessions.rs`) | an append-only file | append, compact, resume, fork | written by the loop, read at a start |
| schedules, monitors (`schedules.rs`, `monitor.rs`) | a file of rows and claims; observers with their samples, edges and hooks | fire, claim, pause, wake | submit prompts nobody typed |
| serve and attach (`server.rs`, `remote.rs`, `daemon.rs`, `tunnel.rs`) | an event log with a bounded ring, mirrors; a daemon's roll of session processes; one ssh | publish, since, resync; open, close, stop | front ends far from the session |
| model client (`client.rs`, `websocket.rs`, `cache.rs`, `auth.rs`) | retries, the websocket's last response, the prompt cache guard, a login file that processes share | one call with its retries; a refresh | the loop awaits it |
| background commands (`tools/bash.rs`, `tools/stdin.rs`) | a registry of sessions, each a process group with unread output | start, read, stop, kill, keep | called by the loop; killed when bhai ends |
| worktrees (`worktrees.rs`) | a registry file with its lock, a git worktree for a child | lease, settle, sweep | leased by a child's spawn, swept at a start and a quit |
| mcp servers (`mcp/`) | connections, tools found, approvals and pins | start, start late, reload, call, shut down | called by the loop through a view of the hub |
| hooks, egress (`hooks.rs`, `egress.rs`) | handlers of two files; links, leaf certificates, secrets read once | fire around a call; let a request out | the loop awaits the first; what bash runs goes through the second |
| judge's memory (`judge/authorization.rs`) | notes on what the user authorized, messages not yet noted | queue, update, checkpoint, journal, recover | read by the judge |
| patches (`tools/patch.rs`) | a plan over several files | plan, write, put back | one call of the loop |
| terminal (`app.rs`, `ui.rs`) | the App: mark, queue's panel, approval box, guards | a key, an event, a frame, a tick | the session's operations; a broadcast that drops what it cannot hold |
| configuration (`config.rs`, `cli_args.rs`) | flags | read once at a start | |

What is hard in it. The session and the loop are two tasks that each believe
something about the other: the session marks itself as working when it hands a
message over and unmarks itself on the end it is told of, while the loop also
opens turns nobody asked for (a child's report, an active goal). Interrupts are
a flag that one side raises and the other clears for the next turn. Approvals
are one-shot replies that must be answered or dropped. The loop may panic. The
channels are bounded and `try_send` may be refused. `PROJECT.json` lists the
hazards at their lines.

What makes each component correct:

* session hub and loop: the mark follows the turns; each accepted message is read
  once and in order; an interrupt stops what it was accepted for, and only that;
  every approval can be answered, once; a switch of model never passes a turn.
* children: every report reaches the history once; an interrupt reaches every
  child, one spawned just after it included (one being spawned may be missed).
* goal: an active goal goes on until it is done, paused or useless.
* permissions: a denied call never runs whatever the other rules say.
* workflow: a step runs after its dependencies, once, within the budget.
* compaction: every call stays with its output, nothing said goes without something that
  stands for it, and a request extends the one before unless the guard was told.
* transcripts: what is read back is what was in force, cut back to the last call answered.
* schedules: an entry fires once per due time, whichever processes watch it.
* attach: a mirror shows what the session holds once it has caught up.
* client: a retry never repeats what was already delivered; a delta goes only to a
  socket that holds what it leaves out; a login survives every refresh.
* monitors: a hook wakes the session when it has held for as long as it must, once
  for each time it comes true, and the end of what is observed is told.
* background commands: output is read once and in order, a bhai that winds down leaves
  nothing running, no signal goes to a process that is not its own.
* worktrees: no two owners of one, none removed that holds work, none forgotten.
* mcp: a call reaches the server its tool was listed by, held to what was approved.
* egress: what leaves matches a rule as the server will read it; a secret goes only
  to its origin.
* hooks: what one handler blocked is blocked, what one asked about the user is asked, and the rules
  see the input that runs; nobody untrusted is heard; no handler outlives its deadline.
* judge's memory: no message of the user is lost, and no restriction is dropped.
* patches: all files or none, unless someone else wrote or the way back failed.
* terminal: a key approves only the call that was seen; the mark agrees with the
  session once every event was read.
* daemon: one process for a session, none left behind; a tunnel comes back.

## The modules

| module | what it is |
|---|---|
| `Wire` | channels, flags, replies and children: what hub, loop and children share (`cli.rs` start, `agent.rs` Cancel, Control, AgentEvent) |
| `SessionHub` | `session.rs`: one action per operation; each holds the mutex, so each is one step, except `submit_automatic`, which lets go of it half way, and `interrupt`, which looks, raises the flag, goes through the children and rejects |
| `AgentLoop` | `agent.rs` `run_configured` and `turn`, `tools/agent.rs` `spawn` and the child's task; a step ends where the code awaits something the session can interleave with |
| `BhaiCore` | the composition, the user's operations and the history variable `cut`, which remembers what an accepted interrupt was to stop |
| `PromptDelivery` | the abstract promise about a message: read exactly once, or taken back, or lost with the agent |
| `CoreProperties` | invariants, action properties, fairness, liveness, and the refinement of `PromptDelivery` |
| `MCBhaiCore` | the constants of the instances |
| `CoreProofs` | types, the working mark, the interrupt: proved, with the lemmas the next two use |
| `DeliveryProofs` | reports and approvals, `BhaiCore` implements `PromptDelivery`, and a turn runs for the session as the session took it to be: proved |
| `Served` | `server.rs` and the log of `session.rs`: the routes a mirror uses, the numbered events, the ring |
| `Follow` | `remote.rs` follow and act, `session.rs` seed and mirror: the stream, its end, a lag, a snapshot, what the mirror makes of an event; the actions given here, held while the link is down, sent one at a time and again |
| `Attach` | the composition and its properties |
| `ServeProofs` | the daemon's roll, the tunnel's ssh and a mirror that has caught up: proved |
| `WorkflowRun` | `workflow.rs`: what a file has to be to run, and the run: waves, chunks of children that run at once, the budget, the stop, the cache that outlives a run; its properties |
| `StepPromise` | the abstract promise: a step is settled once, and runs only when all it needs has answered |
| `WorkflowProofs` | `WorkflowRun` implements `StepPromise`, and launches soundly |
| `Permissions` | `permissions/mod.rs` `check` and `judgeable`: what rules, mode and trust make of a call, as operators |
| `PolicyState` | the mode, the trust, the rules and the two files they are kept in; a change made in several places is several steps |
| `JudgeState` | `judge.rs`: what a judge keeps between calls: its count, the verdicts kept, the appeals |
| `ToolCalls` | `agent.rs` `execute`: a call from the model to the tool, composed with both |
| `ToolProperties`, `MCToolCalls` | its properties, the history variable `vouched`, the calls and rules of the instances |
| `ToolProofs` | the gate: rules that stand, rules let in, verdicts and appeals: proved |
| `Schedules` | `schedule.rs` and `schedules.rs`: a wall clock put back and forward, the instant a local time names and the next fire of a spec; the store, the changes made to it, the runner with its passes, naps and restarts; its properties |
| `MCApart` | the instances of `Attach` and of `Schedules`, whose clock has a repeated and a skipped time |
| `SavedSession` | `sessions.rs`: the lines of a session's file, `load` and `answered` as operators; `Writer`, `resume`, `hold` and `prune`, and what `agent.rs` writes: the bhais that open one session |
| `ChildRuns` | a child over its runs: `tools/agent.rs` `spawn` and `reopen`, `run_child`, the mailbox, `abandoned`, `load_child` |
| `Compaction` | `compact.rs` and `Compaction` of `agent.rs`: what a model is sent and how it is kept inside its window, with the effort updates, the environment and the guard of `cache.rs` |
| `MCSaved` | the instance of `SavedSession`, `ChildRuns` and `Compaction` |
| `Monitors` | `monitor.rs`: the runner of each observer, its samples, the edges of its hooks, the wakes |
| `HookRuns` | `agent.rs` `execute` with `hooks.rs`: a call's handlers before and after the tool, their trust, deadlines and process groups, and what they make of the decision |
| `ModelCalls` | `client.rs`, `websocket.rs`, `cache.rs`: the calls of a conversation, sent again over the socket or HTTPS |
| `Credentials` | `auth.rs`: the login and its refresh, by several tasks of several processes |
| `Daemon` | `daemon.rs`, `tunnel.rs`: the roll of session processes; the one ssh, started again |
| `Commands` | `tools/bash.rs`, `tools/stdin.rs`: the registry of background commands |
| `Worktrees` | `worktrees.rs`: the registry, leases, settling, the sweep |
| `McpServers` | `mcp/mod.rs`, `mcp/servers.rs`: connections, late starts, reloads, calls, the shutdown |
| `Terminal` | `app.rs`, `ui.rs`, the loop of `cli.rs`: keys, events, frames and ticks |
| `Egress` | `egress.rs`: a connection, its requests and the secrets they need |
| `Authorization` | `judge/authorization.rs`: the memory, its updates, its checkpoint and journal |
| `PatchFiles` | `tools/patch.rs`: a chunk's place as an algorithm, the plan, the writes, the way back |
| `StoreProofs` | the login, the egress proxy, the commands left running, the MCP servers, the worktrees and the files of a patch: proved |
| `SavedProofs` | what a model is sent of a conversation, what the cache guard has, and what the judge's memory keeps: proved |
| `Induction` | least elements, and functions defined by recursion, over numbers and over finite sets: what a proof about a fold rests on |
| `MCServices`, `MCStores` | the instances of the parts that do not touch each other |

How the state corresponds. `rxUser`, `rxControl`, `events`, `results` are the
four channels of `cli.rs` 1201-1312. `stop` and `childStop` are `Cancel.turn` and
`Cancel.children`; a child is `born` between its reading of the turn's flag and its joining of the
list, and `interrupting` is where an interrupt is: it looks, raises the turn's flag, goes through the list
and rejects in steps of their own, `slipped` being the children it went past meanwhile. `working`, `held`, `queue`, `pending`, `panes`, `hubFork` are the
fields of `session.rs` `Inner`. `pc` is where the loop awaits: `idle` is the select
at the top, `step` the top of a step, `calling` the model call, `tools` a batch that
runs, `asking` a batch that waits on an approval, `after` the batch's end, `closing`,
`marking`, `compacting`, `ending` what comes after `turn` returns. `wake` is the
decision of 967-968, taken once at the top of the loop and acted on later.
The model's answers, the failures of a call and whether a turn does work are
choices.

Attach. `log` is every event of this run of the server and its ring the last `Kept`
of them (4096 in the code); `srv` is what `/state` answers. A text event stands for
everything the mirror's state does not depend on. `follow` is where `follow`
waits, `wire` the frames on their way, `after` its own `after`, `up` the watch
`act` looks at. A snapshot is read in the three steps of its handler (number,
state, transcript), and the session goes on between them. `transit` holds the
requests on their way: one that was given up on may still arrive, or not.
`run`, `seeded`, `gap` and `raced` are history: which start of the server this is,
which one the screen was seeded from, a lag left unread because its snapshot failed,
and a snapshot during which the session went on. `crossed` is history too: since the session
was last idle, a prompt was queued behind prompts its turn had taken and not shown.

Workflow. `status` is what `Outcome` each step has, `text` what its instances left,
`tasks` the launches of the wave that runs, `pos` how many of them the chunks have
come to. `phase` is where `run` waits: for the user's yes, at the top of a wave, at the
top of a chunk, for the children of a chunk. `Launch` weighs the chunk, looks in the
cache and starts what is not there; `Gather` is `join_all`'s return and all that is
taken in before the next chunk. A key of the cache is what the prompt is made of: the
step's own text (`version`), the item, and the answers of the steps it names. `ran` is
history: the steps that started a child in this run.

Tool calls. `pc` is where `execute` awaits: the hook, the judge's notes, its verdict,
the user, the saving of a rule, the tool. A subject is whatever a rule can match (a
command of a chain, a path, a host, a tool by name): it comes with its `name`, which
allow rules see, and its `forms`, which deny and ask rules see (the program behind a
wrapper, a path in another spelling). `mode`, `wanted`, `trusted` and `allow` are the
fields of `Policy`, `file` the project's local settings, `store` what `trust.json`
says of it; `op` is what each front end, or agent that remembers a rule, is in the
middle of. `words` is how many messages the user has sent to any agent, `noted` and
`failed` how far the notes on them have come, `aim` the goal's revision. `Decide` takes
the rules, the mode and whether the judge may answer in one step, as nothing is awaited
between them. `by`, `rulings` and `vouched` are history: who let a call run, what the
judges answered, which of the project's rules the user let in.

Schedules. `rows` is the store by id, `runner` where `run` is, with what it holds of the
last pass (`fires`, `wake`) and the `Notify` it sleeps on (`poked`). A change reads the
clock before it takes the lock: `doing` holds the time it read, and what it then does under
the lock is one step, as the file is written aside and renamed. One bhai holds a session
(`sessions.rs` hold), so there is one runner; the store outlives it. `fired` and `began` are
history: what reached the session, and when this start of bhai was.

Transcripts. `file` is the lines a reader finds, `synced` how many of them the disk has
whatever happens, `lock` who holds it. `mem` is the history, model and goal the loop of each bhai has,
`writer` its `Writer`, `todo` the records of a change still to be written: the loop writes
them one after another with nothing awaited, so only an end, a failed write or the power
comes between. `at` is `read` between `find` and `Writer::resume`. `held` and `raced`
are history: the last conversation synced and those since, and whether a resume took a
file that had changed since it was read, or that a prune had already found unlocked.

Children over their runs. `kid` is the last run of each: its flag, its step, its history (`talk`),
its mailbox (`box`); `tapes` the transcripts line by line, with lines cut short; `parent.landing`
the calls whose outputs have not joined the history yet, `reports` the channel. `mail`, `after` and
`astray` are history: what was accepted, how much of it once the loop had ended, and
runs that panicked, writes that failed and a continuation that overtook a report.

Compaction. `convo` is the history by kind of item, with the number of what was said and, for what
stands in place of items, the numbers it stands for. `guard` is the cache guard's `previous`, `copy`
the fork with the one attempt at it, `size` the ledger's last input, `turn.update` the index
`update_at`, `next` what `/compact` left for the end of the turn, `pass` the compaction that waits
for its summary. An output weighs three or one, everything else one. `lived`, `missed`, `misplaced` and `forsaken`
are history: what was said, how the last request failed to extend the one before, whether
another item went in place of a refused update, and the request a given-up summary left in the guard.

Monitors. `watches` is what the list shows, `edges` the state of each hook (`Edge`),
`runner` the task of each observer with the sample it holds, `changed` its watch channel.
A sample is taken, then the lock: a control may come between, which is `crossed`. A time
is how long ago something was, cut off where no limit tells more.

Hooks. `fire` is the call under way: `at` is where `execute` awaits, `hooks` the handlers as they were
loaded when it began, `place` the one that runs, then what they said of it and what the rules were asked about
(`checked`). `spoken` is history: what was said, by whose handlers, and whether the project was trusted when
the call began. What the rules, the judge and the user say is a choice; `ToolCalls` has them.

Calls. `talk` is the conversation as its requests are made of, `line` the socket as both
ends see it (`last` what this end believes the other holds, `holds` what it holds), `guard` the
cache guard's last request. `call.pc` is where the call waits; an answer breaks at any
place a stream may. `login` is a refresh whose answer is being read, `errorbody` the body of an answer that is
an error, `arriving` a response; `fresh` says that something has come since the deadline was last looked at.

Login. `loginFile` is `auth.json`, `server` what the server takes; `caller` holds the tokens a
task read, so a refresh by one is stale for the others. A refresh token is spent once.

Daemon. `served` is the session processes, `roll` those in the map by session, `opens` and `stops` the
requests; `opening` the lock an open holds while a process comes up. Tunnel: `shows` is the
`watch` of its state, `first` the one-shot of the first connection.

Commands. A session's group, its pipe, what was drained from it and what was read are
apart, as `poll` drains with the registry unlocked. bhai goes by winding down (`kill_all`, and each `Proc` as it is
dropped) or by a signal, which kills what is in the table and drops nothing: `bereft` is what was then in no table. Worktrees: `rows` is the file,
`regLock` the lock, `procs` the bhais with their pids, `jobs` where each owner is: a sweep goes
row by row (`listing` what it read, `at` its row, `left` what it puts back), and the lock is held over all of it.

MCP. `conns` is every connection ever started, `entry`, `reloaded` and `late` the three maps a
tool is looked up in, `mcpTask` a call between the look-up and the request, or a reload
between its steps.

Terminal. `hub` is what the session holds, `feed` the broadcast, `inbox` what the loop was
forwarded, `screen` the App. `armed` is the approval the next key may answer: the box must
have been drawn to its end. A tick looks twice at the front question (`looked`).

Egress, memory, patches. `cells` is the `OnceCell` of each secret; `update` the memory an
update began with, compared by revision when it lands; `phase`, `changes` and `done` where the
writer of a patch is.

## What the runs check

| run | module | what it shows |
|---|---|---|
| `typed` | `MCBhaiCore` | A user at the keyboard, with nothing that opens a turn on its own: queueing, /compact, /compact-then, /retry, /btw, workflows, /model, /clear and interrupts never leave the session marked without a turn or a turn without its mark, switch a model under a turn, undo an interrupt or reorder messages; what waits is read, and an interrupted turn ends once what is on screen is answered. |
| `children` | `MCBhaiCore` | Two detached children and the turn that spawned them asking for approvals at once, against an interrupt of everything or of one child: nobody is left waiting on an approval that no one can answer, no child runs on past an interrupt but one that read the flag before it and joined the list of children behind it, no report is lost or landed twice. |
| `goal` | `MCBhaiCore` | A goal the model adopts and the user sets, pauses, resumes and clears opens turns of its own: an active goal that is not interrupted gets another turn, and one whose turns do no work is paused rather than turned for ever. |
| `delivery` | `MCBhaiCore` | With channels of one place, a schedule, a child, a panic at any step and a queue the user drops, what happens to every accepted message refines the abstract promise of PromptDelivery: read once, taken back, or lost with the agent; and what the child reports reaches the history. |
| `apart` | `MCApart` | Attach: a mirror over a log of two events, a link that dies, a snapshot that is lost and a server that starts again: what was seen is on screen, once unless the snapshot was read while the session went on; a mirror that has caught up shows the state served, but for a queue that goes behind what the turn has taken; a prompt sent again is taken once, in order, and arrives. Schedules: an interval, a cron and a time of day, on a clock that is put back and forward, set, paused, resumed and cancelled while the runner passes, fails and bhai ends anywhere and starts again: every row stands on the first of its slots after the time read for it, no slot is fired twice nor a backlog made up for, bounds hold, and what is due is fired while bhai stays up. |
| `stores` | `MCStores` | Eight parts with state that has to stay right under every interleaving, one at a time: commands left running and their output, worktrees shared by two bhais, MCP servers over reloads, the terminal between events, frames and keys, the egress proxy and its secrets, a patch that fails half way, a login refreshed by several processes, and the notes of what the user authorized. |
| `toolcall` | `MCToolCalls` | A child makes calls the rules tell apart while a front end changes the mode, trusts, distrusts and allows, the project brings rules of its own, the user speaks, interrupts and starts the session again: what deny and ask rules match stays stopped, repo rules wait for the user, and no verdict outlives what it was given on. Apart from that two agents whose calls may overlap, under one judge, with a denied command appealed as it was and as another: a verdict kept is not asked for again, and nothing in its place runs on the rules alone. |
| `transcript` | `MCSaved` | Two bhais at one saved session: turns with two calls each, compactions, clears, switches of model and goals are written record by record, and writes fail, bhais end and the power goes anywhere between and within them. What is on the file reads back as what is in force, and a resume comes back to a conversation that was, with no call left without its result. And one child over two runs, typed to, stopped, continued, panicking or cut off: what is typed is read once, every run is reported once, also over a resume, and its transcript reads back as its history. And the history a model is sent, with its outputs evicted, folded behind summaries and compacted by the backend at every point and over every failure: each call stays with its result, nothing said goes without something that stands for it, the environment stays told, and a request extends the one before unless the guard was told. |
| `services` | `MCServices` | Six parts that have to come to an end, one at a time. Workflows: a fan-out between a list and a gate, a cached chain run again after an edit, steps side by side under a small budget and a file with a cycle settle every step once and after what it needs, start nothing after an interrupt or a failure, stay under the budget, and end. An observer wakes its session as its hooks say, whatever a pause, a resume or a stop does to it. Hooks of two files never let through what one of them blocked, and leave no process. A call of the model that is retried, answered in part or interrupted is told whole or not at all. A daemon has one process to a session and leaves none behind; a tunnel comes back after an outage. |

Bounds. Two messages tell order apart; two models tell a switch from none; two
children with the main agent are three askers for one screen; channels of one or
two places fill (production uses 16, `cli.rs` 1215). `MaxOps` bounds the user's
operations besides messages and answers; `Batch` the calls of one batch that ask
together; `Lag` the events the pump may be behind when the loop, after its grace of
100 ms, opens a goal's turn or makes the idle copy. `CHECK_DEADLOCK FALSE`
everywhere in the core: an idle session waits for its user.

Attach has a ring of two events, two starts of the server, one approval in each and one fault of
the network. Its user does two things, or three over a link that stays with a server that neither asks nor
restarts (`Few`): two prompts are not enough for one to be queued behind what a turn has
taken. The rest is enough for a lag, for a cut in the middle of a
replay, for a prompt sent twice and for an approval settled before its answer
arrives. What the agent only says is left out, and so is a queue cleared at the
server: it is published as a line of text, which no mirror reads back.

`apart`, `services` and `stores` check one part at a time: `world` says which part moves, and the
others rest in a state from which nothing their fairness names is enabled, so each part
is checked as if alone, and under its own fairness only.

The workflows of `MCServices` are a chain that is cached, edited and run again
(`MaxRuns` 2), a list that fans out into a gate (`MaxItems` 3 against a cap of 2), five
steps side by side two at a time under a budget they can pass (`MaxCost` 2), and a cycle,
which must not be started. `parallel` 2 with three tasks and more makes the second chunk
of a wave, where a stop, a spent budget and an interrupt matter.

The gate has one child that makes calls, a front end that changes the policy twice, two
starts, one message of the user and one deny, one ask and one shipped rule: a verdict
can be overtaken by words, by an interrupt and by a change of mode. `ChainSound` looks at
every chain of two out of five commands whenever the policy changes. In the same run,
apart from that, two agents with calls that overlap are under one judge, without a front
end: three verdicts a turn, two rounds of an appeal.

An observer has two hooks, one that must hold and fires once, one that repeats with a
cooldown; a wake gap of two instants, two controls. A call may be sent twice (`MAX_ATTEMPTS` is
larger; every further attempt does the same) and the conversation has two, so the second
can be a delta on the first. A hook file holds up to two handlers, of every kind, and one call is made: trust
comes before it, within it or not at all. The
daemon has two requests, one saved session and two processes; the tunnel two outages.

Commands are one registered session and two calls, so the registry is full when
the second wants in; one prints twice, so its pieces have an order to be read in, and the other nothing. Two bhais with two pids share four worktree runs, so a pid may come
back. One server is started at launch and held to its approval, one is deferred; two
reloads, one edit. The broadcast keeps two events and the loop one. The proxy has three clients,
nine requests: enough for two to wait for one reading of a secret that fails. The memory
holds three entries and hears four messages, so it retires some; two writes fail or two
ends come. Patches are over three files, two hunks and texts of up to three lines that
differ in blanks. Three tasks of two processes share the login, three tokens.

Schedules has one row of any of three kinds, three changes within one start, two over a restart or one over
a restart and a failed pass (`FewChanges`), and seven instants, on a clock that reads 1 2 2 3 4 6: a time that comes twice, one that never
does, an interval that ends on its count and a cron that ends on its expiry all happen
within them. A nap is two instants, so a wake can be missed and slept over.

A child has two runs of two steps (`CHILD_STEPS` is 40; the last and one before it), and two
texts, or one with an interrupt or a mishap: `ChildBudgets`. One child is enough, as children
share only the channel and the parent's history; `children` has two. The transcript has two bhais, three changes to the history, the model or the goal, and
two troubles (an end, a loss of power or a failed write), so a torn session can be
resumed, carried on, torn and resumed again. A step of work is a thought, two calls and
their results, the fewest where some calls are answered and one is not. A file that is
shortened is taken to be so at once; `set_len` is not synced.

The conversation has three messages, two answers and four other events, one output that is
never evicted (`KEEP_RESULTS` is 6), a window that a long output and a turn pass (`Full` 5, `Aim` 3),
and two models, of which one takes updates as items and compacts on its server.

Fairness. The loop, the pump and the children are tasks of one scheduler: weak
fairness. A response holds finitely many calls, so its batch ends: strong fairness
of `ToolsDone`. A lock let go of is taken again: weak fairness of `SubmitReleased`
and `RejectPending`. Nothing is asked of the user, except in `AnsweringSpec`, where the
user answers what is on screen. The properties that need it assume `TurnsEnd`: the
model does not call tools for ever.

In attach, faults are finite (`MaxFaults`), the reading and the writing task are scheduled,
and a request that is on its way arrives: weak fairness of each. Nothing is asked of
the agent but that it publishes what it has taken.

In schedules, time goes on and the runner is scheduled: weak fairness of `Tick` and
`Running`. Nothing is asked of the user or of a start.

The runner of an observer, a handler's deadline, a call's timeouts, the daemon's stops and
the tunnel's task are timers and tasks of the same scheduler: weak fairness of each. A
sample comes back, as it has a timeout; nothing is asked of the model, the network or the user. Of a call the
fair steps are bhai's own, its deadlines and its looks at the interrupt (`CallSteps`, `Wears`, `Silent`, `Stops`);
what the backend does (`BackendSteps`) it may leave undone, or do for ever.
`stores` has safety only.

In the workflow, `run` is awaited by a task and each child comes back: weak fairness of
its steps and of `ChildEnds`. The user's yes is not assumed: `RunEnds` starts at the
first wave.

## Where the code departs from what is said of it

Each is a run that must find its counterexample; `PROJECT.json` "findings" quotes
the line that says otherwise.

* `v_spawn` (`src/src/agent.rs:669`): A child that reads the flag of its turn just before an interrupt raises it, and joins the list of children just after the interrupt has gone through it, runs on with its own flag down.
* `v_updateat` (`src/src/agent.rs:1523`): An effort update opens a turn, the model has the history compacted in the middle of it, and a later call of the turn is refused: what is taken out is whatever now stands where the update stood.
* `v_cutback` (`src/src/sessions.rs:176`): A session read by one bhai, carried on and closed by another before the first takes the lock, is cut back to what the first one read.

More were met and have no run kept for them. An interrupt rejects the approvals parked, but
not one held back by `in_turn` (`agent.rs` 2242-2246), which comes on screen afterwards; `ask`
(3642-3689) does not watch the flag, so the turn waits until it is rejected by hand. A message accepted while a report's
`Resumed` is still to be pumped goes to the loop and not to the queue, and runs unmarked once that
report's turn has ended (`session.rs` 2000-2027); `typed`, which checks `TurnsAreMarked`,
has nothing that opens a turn on its own. And a server that starts again is known only by
an id from its future (`server.rs` 338-345): once it has published as many events as the
mirror had seen, it is taken for the one it was, against `README.md` 127.

One was found by the attempt to prove `ShowsTheSession`, and only then by TLC, with a third prompt. A mirror that hears
`Queued { position }` cuts its queue to `position - 1` (`session.rs` 786), but the session counts the position in what it
still holds (`enqueue`, 1213-1219), without the prompts its turn has taken (`take_queued`, 1245-1260) and the
agent has not yet said it was steered by (`agent.rs` 2485-2497). So a mirror drops those, or, hearing of them
next, the new prompt, and shows a shorter queue than there is until the session is idle, against "keep what the state says in step with
it" (`session.rs` 772-773). `crossed` names the case; the number of prompts shown is never too large.

Some properties of the other parts hold but for a case that a history variable names:

* monitors: a pause and a resume between the end of a sample and what is made of it lose
  the hooks of the end (`crossed`);
* calls: `CallEnds` excuses two backends. One begins an error's body, or a login's answer, and does not finish it: neither
  wait has a limit (`client.rs` 899, `auth.rs` 225), and the first looks at no interrupt either, so an interrupt ends a
  call anywhere but there (`StopEndsCall`). The core takes it that an interrupted call of the model ends, which so far is not so. The other sends
  a chunk, a ping or a keep-alive now and again for ever, each of which puts `IDLE_TIMEOUT` off (`client.rs` 929, 1089);
* login: an interrupt, or an answer lost, between the server's spending of a refresh token
  and its being written loses the login (`cut`); were a server to spend the refresh token at some refreshes
  and not at others, an answer that keeps it, written after another process's answer that spent it, would put the
  spent one back (`apply_refreshed`, `auth.rs` 235), so the server is taken to do always the one or the other;
* commands: a call that becomes a session after `kill_all` outlives bhai (`keptLate`); `keep` and
  `kill_all` may signal a group whose leader was reaped during a drain; a second poll with a
  ctrl-c waiting would too; a stop that finds a poll to have seen and told the shell's end returns at once and
  leaves the shell's background jobs running (`moot`, `tools/bash.rs` 1114-1116, against 1096-1099: "its process group killed
  if it is still running"); a bhai killed by a signal it did not take, or by a second one, drops nothing
  (1170-1209), so a call in progress, one not yet kept and a session its user was stopping live on (`bereft`);
* worktrees: the sweep at a quit settles while children still work (`loose`); a row of a pid in
  use again may let another bhai remove a clean worktree that is in use;
* terminal: the queue's panel may stay wrong after a lag or an unqueue; the prompt that esc
  hands back travels in the broadcast and may be dropped (`dropped`); a password typed for
  a question withdrawn between the two looks of a tick goes to the next question (`torn`,
  `app.rs` 1844-1848); a frame with the box hidden behind "again to save" counts as settled (`covered`);
* children: a text typed after a loop has ended, or while it fails, is accepted until the task
  drops its mailbox and never read, against the comment at `agent.rs` 403-404; one typed at the
  last step makes a child that answered fail as if it "kept calling tools"; a child
  continued before its report was read (`overtook`) is not told of at a resume, as
  `abandoned` closes both starts on the one report; a line cut short by the end of bhai is
  skipped once, but the next run appends to it, and after that `load_child` refuses the
  file, so the child cannot be continued again (`Clean`); a panic tells nothing (`silent`);
* compaction: when a summary asked of the model fails or is interrupted and nothing was evicted, the
  guard keeps that request, so the next one is told as a break of the cache, and refused under
  `--strict-cache` (`agent.rs` 2635-2640, `forsaken`); an effort update stands before the message it
  came with, so a compaction in the middle of the turn, or the run again after an overflow, drops it
  and the rest of the turn runs at the request's effort (`agent.rs` 1281, 1705, `rewritten`); a switch of
  model drops the backend's items and what they stood for (`agent.rs` 1071-1076, as its comment says);
* transcripts: a prune lets the lock go before it removes the file (`sessions.rs` 910), so a bhai
  that resumed in between writes to a file without a name (`raced`);
* monitors have one observer in the run, so wakes of two that fall together are not looked at; hooks: a handler is
  configured for both events, and a descendant that leaves its process group is not followed;
* daemon: a close whose client goes away while the process is waited for is taken to be carried out; between a process's being reaped and its leaving the roll, up to a second, a stop
  may signal its pid, against the comment at `daemon.rs` 425-431; a session opened while the daemon
  closes is killed without a wind-down; a daemon killed outright leaves its sessions running;
* mcp: approvals and pins are read, changed and written without a lock between processes, and
  the config is read before a reload takes its lock.

## What is proved

`CoreProofs`: `TypeCorrect`, every variable keeps its type, for every number of
messages, children and models and every capacity. One lemma per action, each split
by the conjuncts it can disturb.

`Marked`, also there: the inductive invariant `MarkInv` behind the working mark.
`WorkingEnds` alone is not inductive: when the hub hears a `Resumed` it marks itself,
and only `Closed` (every `Resumed` among the events is followed by a `TurnEnd` among
them, or the loop is still busy) says that an end is still to come; `alive` has to
agree with `pc` for a panic to be covered. `MarkedEnds` follows. `InterruptKnown` is
inductive as it stands: from the moment an interrupt has gone through the list, the flag of every live child
is up for as long as the turn's is, but for those in `slipped`. It cannot say more: `Cancel::child` reads the turn's flag
and then takes the lock of the list, `Cancel::stop` raises the flag and then takes that lock, and an interrupt whose
two steps both fall between a child's two misses it. `v_spawn` is that run; what is proved is that no other child is missed.

`WorkflowProofs`: `PromiseKept`, `Spec => KeepsPromise` for every set of files. The
invariant `Shape` says only that `status` covers the steps of the file that runs. `Wave`
settles as skipped, and `Fold` settles what is `Ready`, which is what `MaySettle` asks;
everything else leaves `status` alone, and `Again` starts a new file with nothing settled.
`LaunchesAreSound`, `Spec => LaunchesSound`, from `FlowInv`: children are out in a chunk only, which was weighed against the
budget at its full size; a failure that stops has stopped (`FailuresStop`: a hit never fails, as what is kept fits the step
it was kept for, `StoreFits`); the steps of a wave stay ready until it is folded, and what ran in a run
that is not yet cold is of the wave that is on (`WarmRuns`), so nothing a cached answer stands on has run. What a step stands
on, the tasks of a wave and the cost of a chunk are recursive functions and a fold: `BelowSettled`, `FlattenIn`, `SumBound`.
Of the files it takes that cached steps of one version ask for one kind of answer (`VersionsAssumption`: what asks for an object is in the prompt).

`DeliveryProofs`: `ReportsKept`, from `ReportInv`: `ReportKept` says nothing of a child that is about to
report, so that none is landed twice needs that only a child that is gone has posted.
`ApprovalsAnswerable`, from `ApprovalInv`: `ApprovalsMatch` speaks of what is parked, and an approval
that is still among the events is parked by a later step of the hub; so an approval is in one of the two
places, once, exactly as long as its asker waits or has died with the loop, and an
asker that does not wait has no reply left over for its next question.

Also there: `OnePlaceEach`, `Spec => []PlaceInv` for every operation of the user: no message is in
two of queue, channel, copy, history and the taken back, nor twice in one. `Delivered`, the refinement:
under `NoCopies`, `Spec => EveryPromptDelivered`, each step being a read, a submission,
a taking back, a loss with the agent, or a stutter of `PromptDelivery`. `PlaceInv` is what makes a
step of the session one step of the promise: a message that leaves one place for another
would otherwise be read or lost while a second copy of it waits. `NoCopies` (nothing is sent onto a
compacted copy) is needed, not convenient: the loop refuses such a message if a turn has begun or the copy is
gone, and the hub has accepted it by then; `delivery`, which checks it, has `forked` out for the same reason; `typed` has it in.

And `TurnsAreTheSessions`, under `OnlyTyped`: no children, no goal, so nothing but what is
typed opens a turn. `TokenInv` counts turns (of those asked for, run and ended but not heard of, there is at
most one, and the session is marked for it), `SwitchInv` says which model the controls on their way will
leave, `CutInv` that what an interrupt was accepted for runs or waits with the flag up, `OrderInv` that
read, handed over and queued come in this order of acceptance. None holds without the others: a
switch is only let through by a session that is not marked, and a message only handed over by the end of a
turn there is one of. Without `OnlyTyped` the property is false, as the section above says: a turn that a
report opens is marked only when `Resumed` is heard. `held` ends the order, as the property says.

`ToolProofs`, for every set of rules, every call and any number of agents and front ends.
`DenialStands` and `AskingStands`: neither is inductive; `Stands` says what is known of
a call at each place it can wait. `Answer` is the lemma about the rules (what is not
denied has nothing a deny rule matches), by cases on the tool. The judge comes in
because `Judgeable` refuses what an ask rule matches, and what is true of a call and the
user's rules stays true while mode, trust and allow rules change under it.
`OnlyVouchedRules`, from `LetIn`: what each front end holds in the middle of a change (the rule it saves, the files
it read before it records them) is sane too, as another may write or trust between its steps.
`StartsAsDecided` and `AppealsStand`, action properties from `JudgeInv`: what is put to a judge is about
the call that waits and no more than was said, a verdict remembered was given for those words, and
one that was kept is still remembered while nothing more is said. Of the code they take that all commands come from three
tools (`CallsAssumption`), that a call has a judge and whoever makes one may remember a rule (`CallersAssumption`), and that what is configured is among the rules and modes there are (`PolicyAssumption`).

The assumptions are the `ASSUME`s of `Wire`, `AgentLoop`, `BhaiCore`, `WorkflowRun`, `PolicyState`, `ToolCalls`, `Served` and `Daemon`: capacities and
bounds are naturals, the special values are distinct (the daemon itself is none of its requests), a file's steps are finite. TLC evaluates each of them in some run.

`StoreProofs`, each for any number of callers, clients, commands or servers. `LoginIsKept`, where the server spends
the refresh token always, or never (why not now and then, the list above says). `LoginHeld` is not inductive:
`CredentialInv` adds, for a server that spends it, `TokensInOrder` (the file is behind the server by at most one answer, which one
caller holds, what callers have sent is no newer than the file, and what was read as spent is older), and that
a process has one refresh under way. `EgressIsKept`: `EgressInv` follows a request in
hand: it passed the check, carries what it asked for of the secrets looked at, each at home where it goes, and who reads a secret holds its
cell. The server sees the path with its dots resolved, which the check passed, and resolving it again
changes nothing: an induction over the segments (`ResolvesToItself`). `CommandsAreKept`, from `CommandInv`: `Told` keeps what
was given and what is piped one sequence with its pieces in order, and `Stands` says where a command may be
at each place of its call and of its stop. The point is the process group: a leader that was reaped is in
the table only inside the call that drains it, so room made, `/clear` and the quit pass it over; a stop in its
grace has a leader not yet reaped, and the command is out of the table, so no poll reaps it meanwhile.
`ServersStayApart`, from `McpInv`: whatever runs is kept for the shutdown or in the hands of one task (`Held`), and
who has a connection in hand has the server to itself, since a first call holds the lock of the late servers and a
reload its own, and that one too when the server is late. `Apart` is what a step leaves to every other task; it and what
its own task knows give each step. That a call follows a reload needs that nothing about to be shown is among what
the call must not reach (`Fresh`). `TreesAreKept`, from `TreeInv`: the rows a sweep picked are at no one's work, what the
holder of the lock has yet to write still lists every worktree there is, and what is being removed has nothing a child made that the
checkout lacks; a child whose commits are excused (a fork or a settling that failed) is said to be so in `loose`.
`PatchesAreKept`, from `PatchInv`: a plan has one change of a file, made for what the file said; what was written and not put back
is as planned, and all else as found, but for what others wrote; the directories are those found and those made, and none of these has a file of
before in it. That a plan is apart is an induction over what `FlattenSeq` joins (`PlanApart`); that an update is its chunks spliced in
(`UpdateSplices`) one over the chunks, with `SeekFinds`: a place found by any tier has the lines, and is the only one that has them to the letter.

`SavedProofs`, for any window, any set of models and any number of turns. `ConversationIsKept` and `CacheIsKept`, from
`ConvoInv`. That a call and its output are both there is not inductive, as a fold may cut anywhere between two messages; that
they are neighbours is (`Well`), and each of the fold, the eviction, the installing of a summary and the removal of an update keeps it.
What was said is `Stands`, which a fold leaves as it was; a pass carries the place and the effort of the turn it is made in; a copy
is made while idle only, and whatever moves the history on forgets it. Of the guard: between two compactions it is a prefix of the history, or was reset, or holds the one
request that was given up. Both say nothing after `misplaced`, which is the finding above. `Only` keeps the items of some kinds and is
recursive; that it keeps their order and what is between them is an induction over places.

`AuthorizationIsKept`, from `AuthorizationInv`, for any number of messages, notes, faults and restarts. Its heart is that a message takes the next
revision for its id and a merge takes none, so that a revision tells how many sources wait: the checkpoint is the memory but for the last
messages (`Behind`), exactly as many as it is behind in revisions, and so is the journal when it is the newer of the two; when it is not, it has no word the
checkpoint lacks (`JournalFits`). So whichever a restart believes, its notes are those of the memory, and what is lost was on neither. An update is merged
into the notes it began with and its source is still the first that waits (`UpdateFits`), since only a message changes the memory meanwhile;
the sources that wait are all later than the notes, which is why evidence is (`MergeOfNotes`).

`ServeProofs`: `DaemonIsOne`, for any number of requests and processes. `OneProcess` follows from `DaemonInv`: who waits
for a process to come up holds the lock and the session is not on the roll, and no session is on it twice, so what
is up is one process of each. `NoneStrays` is inductive with it. For `TunnelIsOne`, `OneSsh` is inductive as it stands.
`MirrorShows`, `Spec => []ShowsTheSession`, for any size of the ring and any number of prompts, approvals, faults and restarts, from
`AttachInv`. `ServerInv` says what the session and its log are to each other. `MirrorInv` says where a mirror is: the frames on the wire
follow on from one another but for lags, the first from `after`; a state read into a snapshot is the session's if nothing was published since its number (`SnapFits`). Its heart is `Leads`: the
events of the log not yet applied lead from what the mirror shows to what the session has. It is kept because each step of the session is a few
moves, each of which appends the event that makes the same change to a view (`Moves`), and a mirror applies the first of them.
`PromptsInv` says that a request of this run is for a prompt no later than the one whose answer is awaited (`GivenInOrder`, `OnTheWay`, `Awaited`),
and that one the server has taken it remembers (`SeenBefore`, `TakenOnce`), so a copy that arrives late is not taken again.

`Induction`: induction over numbers and sets, and the existence of functions defined by recursion over them,
stated for sets and functions where the library takes a predicate, which the provers here do not instantiate.

The assumptions of `Credentials`, `Egress`, `Commands`, `McpServers`, `Worktrees`, `PatchFiles`, `Authorization` and `Compaction` say that the secrets are a list with names and origins,
that a request carries names of secrets, that a server is launched or late and not both, that no caller is a reload,
that every child belongs to a bhai and no owner is a process, that as many messages as a fold keeps is a number,
that the disks and patches are texts and hunks of files there may be,
and that the bounds are naturals (sessions at least one).

Left to TLC, because these provers cannot: every liveness property and the fairness behind it.
Left because nobody has yet: `ChainSound` and what `ChildRuns` and `SavedSession` say, which rest on folds over a
command chain, a history or a file (an induction with `Induction` for each), and the invariants of
the other parts (see the plan).

## Not modelled

Of the core: `edit_prompt` (the queue's last prompt back into the input), the speed, context
and authorization controls, `fork_session`, the quota pause of a goal,
`close_agent` (the same effect as `InterruptChild`). The compaction a tool asks for and the marker of an
aborted turn are in `Compaction`, a child's mailbox and panics in `ChildRuns`. `wind_down` is `DropQueue` and `Interrupt` and a wait.

Of the parts: each module's comment and the components' notes in `PROJECT.json` say what is
left out. In short: wire formats and parsing (a command line, a patch's grammar, a
schedule's text, an MCP catalog over HTTP, an OAuth exchange with a server), what is asked of a
service whose answer is only worded (fetch, web, images, memory, models), the Ollama backend
and the fast tier, links and file modes, recovery of sessions older than the judge's
memory, the terminal's menus, search, slash commands, mouse and dictation, and of a compaction the
instruction files, the goal's and the plan's items, images and the figures of tokens.

Not at all: layout, markdown and colour, which have no state to get wrong between steps; flags
and configuration, read once; the sandbox profile and the virtual machine, made from settings
once; the entries of a transcript's view, which restate the history.

## Plan

1. Core (done): hub, loop, children, goal; types, mark and interrupt proved.
2. Transcript, workflow, permissions and judge, event log and mirror, schedules (done but
   for what the components' notes leave out); the refinement of `StepPromise` and the deny
   and ask rules proved.
3. Monitors, hooks, model calls, the login, background commands, worktrees, MCP, the daemon
   and the tunnel, the terminal, egress, the judge's memory, patches, compaction (done, as above).
4. Left to model: the entries of a transcript's view, the quota pause, `fork`.
5. Core, gate, workflow, login, egress, commands, MCP servers, worktrees, compaction, patches, the judge's memory, the daemon's roll and the mirror proved, but for liveness (done).
   Left to prove: the terminal (`ScreenKept`), schedules (`SlotsKept`), command chains
   (`ChainSound`), and what `ChildRuns` and `SavedSession` say of a history or a file.
