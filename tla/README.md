# A TLA+ model of kimi-agent-rs

kimi-agent-rs is an agent server: clients talk JSON-RPC to it over stdio or
WebSocket, each prompt runs a *turn* of the agent's *soul*, and the turn calls a
model and tools, asks the client for approvals, and keeps what happened in
SQLite. This directory models the parts of it where tasks, awaits, failures and
cancellation meet. Paths are relative to `src/kimi-agent/src/` unless they say
otherwise.

## 1. Inventory

| Part | State | Operations | Hard because |
|---|---|---|---|
| Wire server (`wire/server.rs`) | active turn slot, pending map, write queue, session facts, set of taken sessions | prompt, cancel, response, disconnect, shutdown, upgrade | reader, turn task and UI loops run in parallel; a client may leave at any moment |
| Wire (`wire/channel.rs`, `utils/`) | raw and merged queues, merge buffer, recorder task | send, merge, flush, shutdown, join | three senders without an order between them; a buffer that is unlocked half-way |
| run_soul (`soul/mod.rs`) | cancel token, UI task | run, cancel, tear down | the soul's future is dropped wherever it stands, and only at the end |
| Soul (`soul/kimisoul.rs`) | step counter, context, D-Mail, flow position | turn, step, compaction, rewind, slash commands, flows | every await may fail or be the last one |
| Approvals (`soul/approval.rs`) | request queue, map of waiters, yolo, session approvals | request, fetch, resolve, share | tools, piping tasks and the client race; tasks outlive turns |
| Context (`soul/context.rs`, `soul/denwarenji.rs`) | history, token count, checkpoint id; pending D-Mail | append, checkpoint, revert, clear, restore | storage first, memory second, with failures in between |
| Storage (`storage/`) | event log and rows per session, one lock per process | append, truncate, create, finish, delete | one lock for everyone; transactions go on when their caller is gone |
| Sessions (`storage/sessions.rs`, `session.rs`) | rows with parents, emptiness, the last-active pointer; a lease per process | find, create, continue, finish, delete | several processes and subagents over one table |
| Toolset and MCP (`soul/toolset.rs`, `mcp*.rs`) | tools, owners of names, server states, loading tasks | register, connect, call, clean up | connecting and cleaning up interleave |
| Agents and subagents (`soul/agent.rs`, `tools/multiagent`) | child sessions, own wire | Task, CreateSubagent, `/init` | shared approvals and storage, no shared cancellation |
| Skills and flows (`skill/`, FlowRunner in `soul/kimisoul.rs`) | a graph; a position and a count of moves | draw, infer, validate, walk | loops in the graph, answers of the model that choose the way, and limits at their boundaries |
| kosong (`src/kosong/src/`) | a message that grows, calls by id; a reader per dialect | stream, merge, dispatch, collect, convert | four dialects, each with its repetitions and orders; bodies cut anywhere |
| Shell and processes (`tools/shell.rs`, `src/kaos/src/`) | pipes or bounded queues, half-read lines, an output buffer | exec, read, wait, kill | two streams, a deadline, a command that ends before or after its streams |
| File tools (`tools/file/`, `src/kaos/src/`) | a file; what each call has read of it and shown | read, edit, write, append | read, approval and write are separate, and writes are not atomic |
| MCP servers (`cli/mcp.rs`, `storage/mcp.rs`) | a list, tokens by address | add, remove, auth, reset, list, test | load and store are two transactions; a browser in between |
| Configuration, start-up, other tools and CLI | little | parsing, printing | sequential |

What makes the modelled parts correct:

* an approval or a rejection is the client's, for that call, and nobody is asked
  twice; every request is settled or its loss can be explained;
* storage and memory tell the same story after failures; checkpoint ids identify
  checkpoints; D-Mails go where they were sent; the model never sees a call
  without its results;
* what tasks send is recorded once; a turn that ends has been shown and recorded;
  a cancelled turn returns;
* one turn at a time in a session, one reply per prompt, no answer or question
  without its other side; a client that leaves gives its session back, and no
  used session is deleted;
* a row of the table of sessions says what is so and holds its own events;
* what the model said is heard whole, in any dialect and any cut but one within a
  letter, which harms that letter; its calls and its signed reasoning go back to it; a
  step ends when its stream does;
* a command's report holds its output and how it ended, and comes; a file holds
  what calls reported, or a later call knew better; edits of the server list hold;
* a tool name has one source, which is there; the agent's and the client's own
  tools are never lost to a server; a step waits for the servers it may use;
* a flow that passed the validation can be walked whatever the model answers,
  stops at its limit and not before, and closes the turns it opened unless it fails.

## 2. Modules

`Approval`, `SoulContext`, `TurnWire`, `WireServer`, `Sessions`, `Toolset`, `Flow`,
`Streams`, `Shell`, `FileTools` and `McpServers` are the components, each with an `MC`
module that gives small values to its constants, and `...Proofs` modules with the
theorems. `SessionLease` and `TurnLog` are abstract specifications, which `WireServer`
and `TurnWire` implement. `Streams` composes `Parts` (kosong's message), `ChatStream`,
`AnthropicStream` and `ResponsesStream` (the readers of the providers) and `Requests`
(the way back). The others overlap on purpose: the turn is one action of the server, a
script of sends in the wire, a program counter in the context, one visit of a node in
a flow, a holder of the lock in the toolset, and what makes a session used in
`Sessions`; a session that the server's model finds and deletes is a row there. A
definition under the comment "Faulty variant" is the one after it with a plausible
mistake; no action uses it, and put in its place it breaks a property.

**Approval** (`soul/approval.rs`, the piping tasks of `kimisoul.rs`,
`PendingResponse` in `wire/types.rs`). A tool call is a request `r`; a step of the
soul starts a piping task `p`. `Skip`, `Put`, `Register`, `FindUnset`,
`FallAsleep` and `Conclude` are the stretches of `Approval::request` between its
awaits, `Lock`, `AutoApprove`, `Forward`, `FindNoReply`, `AwaitReply` and `Relay`
those of a piping task. `Cancel` detaches the piping task of the step, which is
aborted (`Die`) only if the step ends by itself. `excused`, `said` and `shown`
are history.

**SoulContext** (`soul/context.rs`, `denwarenji.rs`, `compaction.rs`, the agent
loop). `pc` is what the soul awaits; an action is what runs between two awaits.
`stored` is the session's event log, `history`, `tokens`, `nextId` are the
fields of `Context`. A write goes to `stored`, then to memory, so `Fail`, `Cancel`
and `Crash` find it before or after its commit. A token count is only `Fits` or
`Long`: whether the context must be compacted.

**TurnWire** (`wire/channel.rs`, `run_soul`, the recorder and the UI loop). Each
sender follows a script of message kinds. A send is `PublishRaw`, then `Join`
under the buffer's lock, or `Take`, `PublishTaken` after unlocking, and `Finish`.
`run_soul`'s teardown is `Flush` .. `Return`, one action per lock or await.
`lock` is the storage's fair lock with its queue. The soul's future is dropped in
`Return`, where Rust drops it.

**TurnLog** is what a turn promises of its messages without buffers, queues and tasks:
`Send`, `See` by the client, `Keep` of what is recorded together, and `Return`. The
mapping is at the end of `TurnWire`: a message is sent when it is published raw, seen
when the UI loop has written it, and kept when its chunk was appended, or failed to be.

**WireServer** (`wire/server.rs`). A connection goes from `Connect` over its
preparation to `open`, then through `shutdown` to `Release`; prompts start turn
tasks (`running`, `closing`, `returned`, `replied`, `kept`, `ended`), which ask,
and UI loops that register the questions. `slot` is `active_turn`: once shutdown
has taken the turn out, the variable stands for the join handle it waits for.

**SessionLease** is what the server promises of a session without sockets, tasks and
tokens: `Take` and `GiveBack` of the session, `Begin` and `End` of a turn, and one
reply per prompt (`Refuse`, `Answer`). The mapping is at the end of `WireServer`:
the holder is the connection between its lease and its release (or that went away
while it was prepared), the turn is the prompt whose task has not cleared its slot.

**Sessions** (`storage/sessions.rs`, `session.rs`, `wire/server.rs`, `tools/multiagent`).
A row carries its id, parent, root, stored emptiness and the names in which events
were appended to it. Clients connect to a server process or are one (`Connect` ..
`Persist`), subagents and `/init` make child sessions (`TurnSpawns`, `KidSpawns`) and
outlive the turn that started them. Each transaction is one action. `NextId` is
SQLite's rule for row ids, which gives the id of a deleted last row out again.
`latest` is history: what the user finished last.

**Flow** (`skill/flow/`, `KimiSoul::run` and `FlowRunner` in `kimisoul.rs`). A
drawing grows by one line per action (`DrawNode`, `DrawEdge`, `DrawConflict`) in
`nodes` and `outgoing`, which are the parsers' maps; `Load` is the inference of
decisions and `validate_flow`. Then one run of the soul: `RunFlow`, `RunRalph`
(whose graph is built in code and is not validated), `RunSingle`, or a run without a
turn. `/init` (`RunInit`) runs a whole soul of its own on the same wire, with its own
`TurnBegin`, which may be a ralph loop; `outer` counts the run around it, and
`FinishInit` is what is left of that when the soul inside returns. `Visit` starts the turn of a node, `FinishTask`, `Choose`, `AskAgain`,
`RejectTool` and `FailTurn` are its outcomes. The two parsers read different
syntaxes into the same maps; a line is modelled by the ids, texts and label it
yields. `visits` is history; `open` is what a client would count.

**Toolset** (`soul/toolset.rs`, its start in `soul/agent.rs`, `ensure_skill_mcp_ready`
and `agent_loop` in `kimisoul.rs`, `initialize` in `wire/server.rs`). `pc` is the
agent's own task: it starts, runs skills and prompts one after another, and shuts
down. A load looks at one server per action (`LoadServer`) and hands its batch to
a task (`Spawn`); a task connects its servers one by one (`NextServer`, `Connects`,
`Unauthorized`, `Fails`, `Registers`), each action one stretch under the lock or
one answer of the server. The lock is the formula `LockFree`: the owner holds it
across awaits only while it loads, generates a step or cleans up. A cancel drops
the handles of awaited tasks, not the tasks (`detached`), or leaves a load
half-way (`cut`); both are history, which the code does not keep. What servers
list is fixed, names are compared and nothing else of a tool is looked at. A
cancel inside the cleanup of `/init`'s temporary agent is not modelled.

**Streams** (`src/kosong/src/`). The server answers with blocks of letters and says them
in its dialect and one of its styles: ids always, once or never, arguments with the
opening or in pieces, repeated in done events or only there, parallel calls
interleaved. `Ingest` is the reader's step on one event, `Read` takes whatever has
arrived - so the moments of reading are the ways to cut the body between events; what
is cut within an event waits in the buffer. But every reader decodes each chunk for
itself (`from_utf8_lossy`), so a letter of several bytes that is cut is lost: `Tear`
replaces one, and remembers which (`torn`). A last line without its end is never read:
`EndBody` may leave the end mark unheard. `TakePart` merges
parts into the message, `Conclude` dispatches the calls and `Collect` their results.
A response that is not streamed becomes parts at once (`Whole`). `Requests` converts
the message and its results back; an entry is what the server will read. Anthropic's
redacted reasoning does not go back as what it was: kosong's message has one kind of
reasoning, so that the request has a thinking block with an empty text and the data as
its signature, which is what `StepGoesBack` says of it. Other
messages, options and headers are left out.

**Shell** (`tools/shell.rs`, `src/kaos/src/local.rs`, `ssh.rs`). A command follows a script of
writes, may hand its streams to a child, close them, or die. Locally the tool reads
pipes; over SSH a task (`Receive`) moves messages from the channel into two bounded
queues and never waits. `Reads` is one branch of the tool's `select!`, which drops the
other; `Expires` is the deadline. `Write` is ToolResultBuilder.

**FileTools** (`tools/file/`). One file, whose text is the sequence of the calls that
wrote its pieces; `Raw` is a piece that is no UTF-8, and what every tool but
ReadMediaFile reads in its place is `Mark` (`Lossy`), which StrReplaceFile then writes. A
changing call looks, reads, proposes, is approved and writes: locally
a truncation and a filling, over SFTP an open and a filling; an append is left to tokio
(`AppendLocal`, `Land`). Readers sniff the first bytes, then read lines or the whole.
ReadFile cuts lines that are longer than `MaxLength` (or panics, if the cut is within a
letter: `CutPanics`) and stops at the lines it was asked for, at `MaxLines` or at
`MaxBytes`, in this order (`Full`), and `told` is what its message says of that.
`log`, `readAt` and `blind` are history: who changed the file and who knew.

**McpServers** (`cli/mcp.rs`, `storage/mcp.rs`). Each process runs one `mcp` command, or an
agent that renews tokens. `list` is what it loaded; `Save` stores it whole.
`Authorize` .. `Keep` is the OAuth flow: discovery, registration, the browser command
(`Opened`; with `$BROWSER` set the command waits for it without a timeout), then a
browser that may call back, connect in advance (`Preconnect`), refuse or do nothing
until the timeout, then the exchange. `log` is history.

External behaviour is modelled from how the code uses it: tokio's fair mutexes and
its dropping of futures, SQLite's atomic commits, the model servers, commands, SSH servers and browsers that
the last four modules talk to, and an HTTP server that drops the
future of a handler whose client is gone (`DropHandler`).

## 3. Runs

| Run | Question | Bounds |
|---|---|---|
| `approval_safety` | are verdicts the client's, whatever tasks survive? | 2 calls, 2 turns, 2 steps: a stale task and a live one, two waiters |
| `context_faults` | do memory, storage and ids survive faults? | 2 turns of 2 steps: a fault, then what it leads to |
| `context_dmail` | do D-Mails, compactions and limits work together? | 2 turns of 3 steps, 2 parallel calls |
| `wire_turn` | does the wire implement the log, and does a turn return? | 4 messages of 3 tasks with merging, one transaction, cancels and failing appends |
| `server` | does the server implement the lease; replies, pending requests, cancels, disconnects | 2 clients, the first with 2 prompts of one question each, the second fails, leaves or disconnects |
| `sessions_shared` | do rows tell the truth, whoever shares the table? | 3 processes: a server with 2 clients, one client with a name, one that continues; 1 subagent, 1 `/init`, 2 names, 3 rows, crashes |
| `toolset_loads` | who serves a name, who is at a server, does everyone get on? | 4 servers in 2 batches, 3 names of which one is builtin, 2 runs of a skill |
| `flow_walk` | do validation, walk and limits fit together? | 4 nodes, 13 kinds of lines, drawings of 4 lines, 3 moves, a run or one inside `/init`, `max_ralph_iterations` -1 .. 2 |
| `streams_heard` | is what the model said what kosong hears and sends back? | answers of up to 3 blocks of 2 letters, of which one may be torn, 2 calls, 4 dialects in their styles, a broken connection |
| `shell_reports` | is a report true, and does it come? | scripts of up to 4 writes, queues of 1 chunk, 3 letters of output, both backends |
| `file_edits` | do reported changes last, are shown texts true? | an overwrite, an append, a replacement and a reader; 3 old pieces, the last no UTF-8, or no file, every operation failing, `MAX_LINES`, `MAX_LINE_LENGTH` and `MAX_BYTES` of 2 with a line of 3, readings of 2 and of 3 lines, media of 3 pieces at most |
| `mcp_commands` | do edits hold, are reports true, do commands end? | 2 processes, 2 names, 2 addresses, 3 first lists |

The bounds let every race happen that two actors of a kind can have; a third
piping task or sender adds no new pair. Four lines draw a loop with an exit, a
decision and a detour, and three moves go round it more than once. Two letters make
a block that can be cut, two calls interleave, and three blocks put something before,
between and after them. A queue of one chunk and a builder of three letters are full
after two writes, with more to come. Three rows are two sessions and a child, and
enough for an id to be given out again. `SessionsShared.cfg` and `ApprovalCancel.cfg`
use the symmetry of clients and names; no run with liveness uses symmetry.
`CHECK_DEADLOCK FALSE` is set throughout: the bounded models end, and so do the real
turns, commands and calls.

More configurations are kept to be run by hand. The first one passes; each of the
others asks more than the code keeps and shows what it does instead:

| Config (module) | Shows |
|---|---|
| `ApprovalSettles` (MCApproval) | without cancels and with a patient client, every request is settled |
| `ApprovalStale` (MCApproval) | the piping task of a cancelled turn takes the next turn's request to a dead wire |
| `ContextMarks` (MCSoulContext) | compaction restarts the checkpoint ids and keeps CHECKPOINT messages with the old ones |
| `WireTeardown` (MCTurnWire) | a cancel while the soul holds, or awaits, the storage lock: `run_soul` waits for a recorder that waits for the soul |
| `SessionRows` (MCSessions) | with two processes at one session, a row is deleted under its user, its id is given out again, and events land in another session |
| `StreamsDone` (MCStreams) | parts that arrive together with Kimi's `[DONE]` are lost |
| `ShellOutput` (MCShell) | locally, half a line of one stream is lost when the other has a line |
| `ShellSignals` (MCShell) | locally, a command killed by a signal is reported as a success |

**Fairness.** Tasks that can go on are polled by the runtime, and storage
operations end. The client is fair only where a property needs it: in
`wire_turn` users answer what they are asked until they cancel, in `server` never.
The soul is not fair in `WireServer`: a turn may think for ever, and a cancelled one
must be answered nevertheless. In `flow_walk` the runner goes on, the turns of tasks
end, and a decision that is asked for ever is answered with one of its choices some
time; the limit of moves does not help there, because repeated questions are not
counted. In `toolset_loads` tasks are polled and a server that is being connected
answers or fails: the code sets no time limit there, and a server that stays silent
would hold up the run. In `streams_heard` the reader and the tools go on, the model's
server owes nothing: reads have no time limit, so `StepEnds` starts where the body has
ended. There the server speaks only while no parts wait to be taken (`Arrives`): what
came earlier would be read no sooner. In `shell_reports` the tool, its receiving task and the timer go on, commands,
children and SSH servers need not. In `mcp_commands` a process goes on and its timers
run out; a browser may do nothing. Discovery, registration, the command of `$BROWSER`,
the exchange and the connection of `mcp test` have no timeout in the code and no fairness
here (`WithOthers`); `CommandEnds` is about commands that do not stay at one of these for
ever (`Untimed`).

**Assumptions of the runs.** Ids of requests are unique (an external tool's
request has the id that the model gave its call), and so are the ids that a model
gives to the calls of one answer. The UI loop writes what is queued in less than
500 ms, so `Return` finds it done or asking. `context_faults` has no fault at the one
await inside a rewind between the truncation and the reload. `wire_turn` cancels only
between storage operations. `WireServer` takes from `TurnWire` that `run_soul`
returns, so `LeavingEnds` holds except where `WireTeardown.cfg` applies. `FlowEnds`
leaves out three kinds of flows that the code lets through: a BEGIN whose first edge
leads back to it (`Spins`), decisions none of whose labels can be named because they
are padded with blanks (`Answerable`), and the ralph loop with a negative limit, which
has 10^15 moves. In `sessions_shared` no session has clients of two processes at a time
(`Apart`), although any processes have clients of others: two processes at one session
delete, and call empty, what the other has just written, and the code has nothing
against it (leases are per process). In `AnswerIsKept` the arguments of a call that a
Responses server names only at its end are left out when one of their letters is torn
(`Spoilt`): the pieces that came before and the whole are not alike then, and both are
kept. In `streams_heard` `[DONE]` comes apart, and local commands in `shell_reports` write whole
lines and are not killed by others; the configurations above show why. `ReportsHold`
speaks of commands during which no other process changes the tables, `FilesAreAsTold`
of calls that nobody disturbs, up to bytes that are no UTF-8; `EditsHold` and `ReportedIsKept` say what remains of the
others: a reported change is lost only to somebody who had read the older text.

## 4. Proofs

`ToolProofs` has the theorems of `Approval` and of `FileTools`, which a call goes through
one after the other.

Of `Approval`, for all sets of calls and actions and all bounds:
`TypeCorrect` (`TypeOK`), `VerdictSafe` (`VerdictIsTheClients`),
`NeverAskedTwice` (`AskedOnce`) and `NoneIsLost` (`Accounted`). `TypeOK` is inductive.
For the verdicts, `VerdictInv` adds that a piping task that awaits holds a request, and
`GrantInv`: every value set for a waiter, every reply on its way and every session
approval goes back to something the client said; `SaidGrows` and `GrantsGrow` say that
these sources never shrink. For `AskedOnce`, `AskedInv` adds that what is queued
or held belongs to a tool that has asked; without it a tool could ask again. For
`Accounted`, `WaitInv` says where the request of each waiting tool is on its way, and
`LifeInv` that the piping task of a running step is born and not aborted.

Of `FileTools`, for any jobs, calls and limits: `ReportedStaysTrue` (`ReportedIsKept`) and
`FilesStayTrue` (`FilesAreAsTold`). Neither is inductive. For the first, `KeptInv` ties
the state to the log: it ends with the file as it is (`Logged`), and where a call is says
what it may have done (`Staged`). `Recalled` speaks of what a call has in its hands: if it
read the file after another call reported its piece and did not find that piece, somebody
else had overridden it by then, and for good (`OverrodeForGood`: nothing that call may
still do changes this). Without it, writing back an old text would look like an edit that
lost nothing. For the second, `Traced` says which steps in the log a changing call has
made so far and with what text - an append, or an emptying and a filling - and `Streamed`
how far a reader is in a file that nobody has changed since it looked, and how many
bytes its lines make.

`SoulContextProofs`, for all bounds and any number of parallel calls, each theorem for
the faults that it names:

* `CheckpointsOrdered` (`CheckpointIdsIncrease`), without a fault between the truncation
  and the reload of a rewind and without transactions that commit after the next turn
  began (`NoInterruptedRewind`). In `IdsInv` the stored ids are increasing and below
  `Taken`, the first id not given out; an operation issued and not yet committed is
  harmless at any later moment.
* `MemoryRestorable` (`Restorable`), with every fault, crash and late commit but a
  fault at that one reload (`WholeRewinds`), where memory and storage do part.
* `CallsStayAnswered` (`CallsAnswered`), as long as nothing comes between an answer and
  its results (`WholeAnswers`): `Open` says that the calls of the history, and of what
  is stored, are answered up to those that the step at hand still waits for, and
  `CutsTidy` that no checkpoint to which a rewind may go lies between calls and results.
* `DmailsStayInStep` (`DmailWithinStep`), as long as no turn ends from within a step
  (`WholeSteps`).
* `DmailsLand` (`DmailLands`), for an agent with the tool for D-Mails and faults outside
  checkpoints, reloads, steps and cancelled writes (`CalmTurns`). `LandInv` adds that
  the stored ids are 0, 1, 2 ... (`Numbered`), that a mark follows each checkpoint
  (`Marked`), and that what was seen of the conversation before the target of a D-Mail
  is what its truncation leaves (`Before`).

The run for the calls and the D-Mails has no faults, so these theorems say more than it
does. The operators on sequences that the log is made of have lemmas of their own
(`ConcatParts`, `AppendOne`, `SubSeqParts`, `StartOfConcat`, ...).

`FlowProofs`, for all lines, labels and limits: `LimitIsExact` (`MovesAreLimited`)
and `TurnsClosed` (`TurnsAreClosed`) from `CountInv`, which adds how visits and
moves, and the number of open turns, relate at each `pc`, inside `/init` and outside of
it; and `WaysClear`
(`WaysAreClear`) from `WayInv`: the walk stays in a set of nodes that edges do not
leave, in which a task has at most one edge and a decision has labels that tell
its edges apart (`Clear`). At the start that set is what the validation reached,
or the nodes of the ralph loop. `Reachable` is defined as the least closed set with
BEGIN, so that its closure needs no induction; that it is what the loop of
`validate_flow` finds is not proved.

`ToolsetProofs` has the theorems of `Shell` and of `Toolset`.

Of `Shell`, for any scripts and limits: `ReportStaysTrue` (`ReportIsTrue`), under
`Careful`: commands on this machine write whole lines and nobody else kills them, which
`ShellOutput.cfg` and `ShellSignals.cfg` show to be necessary. The report says nothing
before the end, so `ShellInv` follows each letter on its way there: from the pipe over
the channel, the queue and the reader to the builder (`Stage`). In each stage the letters
of a stream are in order (`InOrder`), none is behind a later one (`Ranked`), and none is
lost without being counted as dropped (`Whole`). `Through` and `ClosesLast` say that a
stream which the tool has read to its end has nothing on its way any more: the channel
closes last, and the receiving task ends after it. `Status` follows the exit status from
the server to the report (`Ended`). Once the call has given up (`Patient`), nothing is
claimed of the output.

Of `Toolset`, for all sets of servers, names and skills, all offers and any number of
runs: `TypeCorrect`, `OneSource` (`ToolsHaveOneSource`), `ToolsAreKept`
(`ToolsStay`), `ConnectedOnce` (`OneConnection`), `StaysClean` (`CleanStaysClean`)
and `StepsCovered` (`StepsAreCovered`). `EntryInv` adds to the first ones that a task
is at a server exactly while it connects or lists it, so that only the task
itself can settle its entry, and that nothing has an owner at the start.
`WaitInv` says who holds the handle of each live task, and that the task of the
load in progress is not born yet; `ServedInv` that somebody is at each server that
is not settled. In a step the pool and the awaited tasks are empty, so whoever is
left is detached.

`WireServerProofs`, for all sets of connections and any limits of prompts and
requests: `LeaseKept` (`KeepsTheLease`: the server implements `SessionLease`),
`TakenCorrect` (`TakenIsServed`), `AwaitedIsPending` (`PendingIsAwaited`), and three
that the run does not repeat: `TurnsCorrect` (`OneTurnAtATime`), `RepliesCorrect`
(`OneReplyPerPrompt`) and `UsedKept` (`UsedSessionIsKept`). `IInv` is inductive:
`OneHolder` (taken exactly while one connection holds the session), `SlotIsPlace` (a
turn in its place is the one in the slot, and its connection is not past `Join`;
without it, `Release` could come in the middle of a turn) and `RepliesFollow` (a prompt
has its reply exactly when its task's stage says so; without it, a second reply could
follow a cancel). `Kinds` sorts the steps into the few kinds that the invariant tells
apart, and `LeaseStep` maps each to a step of the lease or a stutter; the holder and
the turn, which the mapping chooses, are unique by the invariant (`Read`). `UsedKept`
adds `Recorded`: a client that created a session with events has a turn at work or has
set `last_turn_state`, so that finalizing it does not delete it. `AwaitedIsPending`
adds to `IInv` that the UI loop of a turn takes the requests one by one and only taken
ones are settled (`InTurnAsked`), so that an answer cannot be there before its request.

`SessionsProofs`, for any clients, processes, names, subagents and crashes:
`OwnEvents` (`EventsAreOwn`), `TrueRows` (`RowsAreTrue`), `LatestFound`
(`ContinuesLatest`) and `UsedKept` (`UsedIsKept`), as long as no session has clients of
two processes (`SessionsApart`; with two at one, `SessionRows.cfg` shows a row given out
again under its user). All four follow from one `SessionsInv`: names are unique among the rows
(`RowsInv`), a served client and a subagent have the row of their name to themselves
(`Placed`, `Housed`), and clients at work have names of their own because they hold the
leases (`Distinct`). `Placed` also keeps what makes the deletions and the second
transaction of `post_run` safe: a new session that saw no turn has no events and is not
the last active one, and what `Finalize` read is still so when `Persist` stores it.

`TurnWireProofs`, for all scripts of the tasks that `TurnScripts` allows: `LogKept`
(`KeepsTheLog`: the wire implements `TurnLog`), `RecordArrives` (`RecordIsWhole`) and
`SeenBeforeEnd` (`EventsBeforeResponse`, which the log implies and the run does not
repeat).
`SeenInv` says that what was published is shown or queued, each once; `RecordInv`
follows every message through the merge buffer, the hands of the senders that have
taken a chunk, the queue and the recorder (`PlaceInv`: one place, once), and says where
what is due may still be at each stage of closing (`CloseInv`). `TurnScripts` is what
`kimisoul.rs` lets a turn send: only tools ask the client, the soul waits for the tools
it started, and merged messages come from the stream of the answer alone, or from the
output of a command, when nothing else runs. `LogStep` maps each step to one of the log
or a stutter: only `PublishRaw`, `UiShows`, `RecorderAppends` and `Return` show there, and
`Return` may come because `CloseInv` and the UI loop's end leave nothing on its way.

`McpServersProofs`, for any processes and servers: `EditsAreKept` (`EditsHold`) and
`ReportsAreTrue` (`ReportsHold`). Its `IInv` adds to the two what each command still
has to do (`Errands`), that a list loaded after an edit has it unless its holder is about
to undo it (`ListKnows`), and what a command that nobody disturbs knows of the tokens
(`SeesAlone`).

Constants are constrained only by the named assumptions `ApprovalAssumption`,
`SoulContextAssumption`, `FlowAssumption`, `ToolsetAssumption`,
`WireServerAssumption`, `SessionsAssumption`, `TurnScripts`, `ShellAssumption`,
`FileToolsAssumption` and `McpServersAssumption`, and by the conditions on faults and
commands named above. Liveness (`TurnEnds`, `TurnReturns`, `LeavingEnds`, `FlowEnds`,
`WaitsEnd`, `StepEnds`, `CallReturns`, `CommandEnds`) is only model-checked: the prover
does not handle fairness. `Streams` is model-checked only: `AnswerIsKept` and
`StepGoesBack` compare folds over what the server sent with what was read, which is
induction over data.

## 5. Not modelled

Not modelled: configuration, model selection and the start-up wiring (sequential); the
options, headers and file uploads of the providers; Glob, Grep, the web tools, todo and
think (they keep nothing); logging in over SSH, globbing and path arithmetic in kaos;
the MCP transports and what one MCP call does; JSON, diagram and frontmatter parsing;
the wording of messages and titles; retries inside a step, which repeat `Streams` from
its start with nothing kept; the merged UI side that relays a subagent's messages.
