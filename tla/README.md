# Verification of agent-in-a-browser

TLA+ models of the parts of this repository in which several actors share
state: what is modelled, what TLC checks on small instances, and what TLAPS
proves for every instance. Every definition is translated from the source;
`PROJECT.json` maps each one to its lines.

## The system

The repository runs an agent's tools inside a browser tab. A tab holds a
*sandbox* (WASM components in Web Workers, with a file system in OPFS); an MCP
client outside the browser reaches it through a *session*, a Durable Object
that relays HTTP requests over the tab's WebSocket.

| part | state it keeps | operations | what is hard about it |
| --- | --- | --- | --- |
| **SessionRelay** (`worker/src/session-relay.ts`) | `browserSocket`, `browserReady`, `cachedToolList`, `sessionToken`, `pendingRequests`, `lastActivity`; token and alarm in storage | init, teardown, WebSocket upgrade, browser messages, close, alarm, MCP requests with a 60 s timer | replacement of the browser under requests, restarts and hibernation that lose the memory, sends on sockets that are closing, timers racing answers |
| **Worker router** (`worker/src/index.ts`) | none | creates sessions, routes by hostname | session creation is two calls |
| **RelayClient** (`packages/edge-agent-session/src/relay-client.ts`) | `ws`, `state`, `reconnectTimer`, `intentionalClose` | connect, disconnect, the four socket events, answering requests | late events of a socket already given up, reconnection against disconnect(), tabs competing for a session |
| **Its callers** (`edge-agent-sdk/src/sandbox.ts`, `frontend/src/main-tui.ts`) | the sandbox they drive | connect once, announce readiness | announcing before the socket is open |
| **OPFS bridge and helper** (`wasi-shims/src/opfs-sync-bridge.ts`, `opfs-async-helper.ts`) | a SharedArrayBuffer: two flags, a length, JSON and binary bytes; `helperReady`, `helperCrashed` | a blocking call; the helper's request loop; crash detection and reinitialisation | two threads without a lock, a 30 s timeout racing the answer, a helper that dies |
| **Synchronous file system** (`opfs-filesystem-sync-impl.ts`) | a tree index of OPFS, descriptors with a path and an entry of it | the WASI file operations and a git `fs` | index and OPFS diverging; operations of several requests |
| **Terminal input bridge** (`stdin-sync-bridge.ts`, `worker-bridge.ts`) | flags and a buffer in shared memory, `stdinBuffer`, `residualBuffer` | typing, blocking and non-blocking reads | order and loss of keys between the page and a worker that gives up after 50 ms |
| **HTTP bridge** (`http-sync-bridge.ts`, `worker-bridge.ts`) | flags and one chunk in shared memory | fetch, chunk by chunk, with a consumption handshake | two timeouts that leave the sides in different requests |
| **edge-agent-mcp** (`packages/edge-agent-mcp/src/modes`) | pending calls, a socket or a child process | forwarding MCP calls | a late close of an old connection or child |
| **wasi-tokio** (`runtime/codex-wasm/wasi-tokio/src`, `wasi-tokio-macros`) | a task queue, locks, channels, cells, timers | polling in rounds, spawn, abort, send and receive, `select!` | one thread and yet interleavings: a poll may run a round of other tasks in its middle |
| **Memory pipeline** (`codex-codemod/replacements/state/src/runtime/memories.rs`) | rows of jobs, outputs and threads in SQLite | claim, finish, fail and prune extractions; claim, renew, finish and fail the consolidation; pollute, clear | leases that run out under late workers, retries, changes that arrive while a consolidation runs |
| **Shell pipelines** (`runtime/src/shell/new_executor.rs`, `shell/commands`) | bounded pipes, a future per stage and per drain | run the stages together, or one after the other | pipes that are full or dropped, stages that stop early, the way back from one to the other |
| everything else | see `components` in `PROJECT.json` | | sequential, stateless, generated, or not read closely yet |

How they interact: an MCP client *calls* the Worker over HTTP, the Worker
*calls* the session's object, the object *sends* `mcp_request` frames to the
WebSocket of the browser it knows and *settles* a promise when `mcp_response`
frames come back; RelayClient *calls back* into the sandbox and sends its
answer on the socket it has at that moment. Inside the tab, a worker that runs
WASM *blocks on shared memory* that the helper worker (files) or the page
(keys, HTTP) writes. One kind of WASM component is the shell and its commands;
another is an upstream Rust agent whose native crates are replaced:
`wasi-tokio` is what its futures run on, and `memories.rs` is how its sessions,
which share one database, divide the work on its long-term memory.

### What makes each part correct

- *SessionRelay*: a client that waits is known to a timer; requests wait only
  for the browser they were sent to; each client gets one final answer; one
  browser per session; the deployer's token survives restarts; idle sessions
  expire and sessions in use do not.
- *RelayClient*: one socket at a time, found again after any fault, none after
  `disconnect()`; `ready` only when the other side can know it.
- *OPFS bridge*: an answer belongs to the call that gets it, an operation is
  carried out once, nobody reads bytes the other is writing, every call
  returns.
- *File system*: the index lists what OPFS has; a rename keeps the contents.
- *Terminal and HTTP bridges*: bytes arrive in order, none lost, none twice.
- *wasi-tokio*: no task is lost, polled twice or starved; a channel delivers in
  order and ends when nobody can send; a cell has one value.
- *Memory pipeline*: a late worker changes nothing; every output, and every
  deletion of one, is consolidated in the end, whoever crashed meanwhile.
- *Shell pipelines*: the result is that of the commands as functions on texts,
  and it comes, unless a command writes for ever into a reader that does.

The hazards behind these, each at its line, are under `hazards` in
`PROJECT.json`, with the properties that cover them or the planned module.

## Modules

| module | role |
| --- | --- |
| `RequestReply` | abstract specification: what an MCP client is promised |
| `SessionRelay` | the Durable Object and arbitrary browser peers; implements `RequestReply` |
| `SessionLifetime` | the object's clock, alarm and expiry |
| `RelaySession` | composes `SessionRelay` with the real RelayClient in each tab; implements `SessionRelay` |
| `FileCalls` | abstract specification: what a blocking file operation is to its caller |
| `OpfsBridge` | the shared-memory call protocol, with both of its clients; implements `FileCalls` |
| `StdinBridge` | terminal input: page, worker and the memory between them |
| `WasiTokio` | the executor, `select!`, the mpsc channel and the cell, under arbitrary programs |
| `Memories` | the jobs, outputs and thread modes of the memory pipeline, and the sessions that share them |
| `ShellPipeline` | one pipeline of the shell, run either way, against the meaning of its commands |
| `*Proofs` | the theorems about each of them, except the abstract two (see *Proofs*) |
| `MC*` | instances for TLC: status messages, slow operations, symmetry |

Definitions named `Something_Defect` after `Something`, under a comment that
begins "Mutant", are the bugs each property is shown to detect; no behaviour
of the specifications uses them.

### SessionRelay

An action is one event that the Workers runtime delivers to the object, with
every call its handler makes: `handleWebSocketUpgrade` closes the old socket,
fails the pending requests and resets the readiness in one step because
nothing awaits in between. `await state.storage…` keeps the input gate closed
and does not split a handler; `await request.json()` does, so an MCP request
is `McpArrive` (token and headers) and `McpDispatch` (body), and everything
may happen in between, or the body cannot be read. Timers are `RequestTimeout`;
`Hibernate` and `Restart` lose the memory and keep the storage, and only
`Hibernate` keeps the sockets: the object accepts them with the hibernation
API, so it may be evicted whenever no request is open. `forgotten` is history:
the open sockets whose reference went that way.

A connection has a state and a queue of frames at each end. `send()` on a
socket that is closing throws, which the code meets with a pending entry
already made: `Forward` models the exception and what the client is told. The
peer at the other end is arbitrary: it may say anything the wire protocol
allows, at any time, or nothing.

`SessionLifetime` is apart because time is: the other module's handlers do not
look at the clock. There a tick is a fraction of the seven days, and the memory
may be lost at any time, any number of times.

### RelaySession

`EXTENDS SessionRelay` and replaces the arbitrary peers by RelayClient: one
action per handler of the WebSocket events, `connect`, `disconnect` and the
reconnection timer. `ObjectSpec` is the refinement: whatever the tabs do is
something SessionRelay's peers may do, so what holds there holds here. Output
on a socket that is not open is dropped silently, as `send()` does. The
callers are the constant `App`. Backoff delays are some delay.

### OpfsBridge

A step is one access to shared memory. The helper and two clients are program
counters over one buffer; the clients share `makeRequest`'s shape and differ
in what they check first and remember of a timeout: `syncFileOperation` marks
the helper as crashed, `syncWriteFileBinary` and `makeRequest` remember
nothing. Bytes are replaced by whose they are: the JSON in the buffer is "the
request of call 2" or "the answer to call 1", and decoding it with the length
of another message may yield garbage. `HelperDies` may happen anywhere, seen
or unseen. An operation on OPFS takes effect in one step or not at all: what
the browser still does of an operation whose worker was terminated in its midst
is not modelled.

`FileCalls` is the promise: calls are begun one after the other, each is carried
out at most once and with its own data, returns its own result or fails, and a
call that has failed may still be carried out, but not after the next has begun.
Of the steps of the protocol these are visible: `Begin`, `HelperWork` (which
carries the call out), the one by which its thread goes on (`Decode`, `Release`
or `CopyData`, by module and kind: it returns) and `Timeout` (it fails); the
mapping (`Result`, `Written`, `Got`) hides the outcome until the thread goes on.

### StdinBridge

Again a step is one access to shared memory. A read that finds nothing goes
through *post*, *compare*, *sleep* and gives up, or through *length*, *copy*,
*clear*, *release*; the page stores bytes, length and flag in three steps.
Bytes are numbered in the order of typing, so that order, loss and duplication
can be read off `received`. `nonBlockingReadStdin` and `signalStdinEof` are
called by nobody and left out. The user types at any time, and the bridge
acknowledges nothing, so the page can break the stream in three places: it sends
a key past keys it has kept (*overtaken*), stores an answer on one that was not
taken (*overwritten*), and cuts a kept key to what one read asks for
(*truncated*). `harm` is history: which of them has happened.

### WasiTokio

The future given to `block_on` and the tasks are *bodies*; between two awaits a
body may call any operation (spawn, abort, send, drop a sender, close, finish),
and it may await a message, a task, the initializer of the cell, something from
outside (`pause`), or a `select!` of two of them. `rounds` is the stack of calls
of `poll_spawned_tasks` in progress: `block_on` begins one after every poll of
its future, the code `select!` generates one before it polls its branches, so a
round may start within the poll of a task of another round. A branch of a
`select!` whose output does not match its pattern throws it away and is disabled
(`disable`), the others are polled on; which outputs do not match is a choice.
The panic that ends the program when all are disabled, and preconditions of
branches, are left out. A step is what runs
between two points where another body may run. There are no wakers (the code's
does nothing); what waits is polled in each round.

A task that calls `block_on` itself (as `JoinSet::spawn` does) polls only tasks
queued since the outer round took the queue. When it waits for one of that
round, or for the main future, nobody ever polls what it waits for. The two
liveness properties name that case (`Blocked`) as their exception.

### Memories

Every function of `memories.rs` is one action. The SQLite replacement behind
`sqlx` answers without suspending, so that nothing happens within a function,
although only two of them open their transaction with `BEGIN IMMEDIATE`. The
rows keep the columns that a WHERE or a CASE looks at.
The code compares times of two kinds, and they are two domains here: the
versions of a thread (`updated_at`, `source_updated_at` and the watermarks
made of them) and the deadlines (`lease_until`, `retry_at`), which are "set" or
"passed": `Elapse` lets any of them pass. A worker's name stands for its
ownership token, since a session runs the pipeline once at a time and one that has crashed
(`Crash`) never comes back for its claims. Which rows are fresh
enough or used enough to be selected or pruned depends on counters that nothing
else reads: it is a choice. `memory`, `seen` and `unqueued` are history: what the
consolidations have put in the files, which are written outside of this
repository, what they have looked at, and which threads were polluted or pruned
with nothing queued for it. What must leave the files is not recorded but
computed from them and the rows (`MustGo`).

### ShellPipeline

The unit is a line, and a pipe holds a few. Six commands stand for the rest by
what they do with their pipes: `cat` copies, `head` stops early, `sort` reads
all before it writes, `yes` never stops by itself, `seq` does not read, `fail`
only complains. A stage may also carry a redirection, be unknown to the shell,
or fail in its expansion: the first two send the whole pipeline from running
together to running stage by stage, where every stage's output is collected and
becomes a string (undecodable bytes are replaced) before the next starts.
`Meaning` is the reference: each command as a function from the text it reads to
the text it writes, and whether that ends. A write to a pipe whose reader is
gone fails, as the `piper` crate promises; with which error, and so whether
`yes` ends with 0 or 1, is left open.

## Runs

An invariant whose name ends in `Inv`, and `NothingMissed`, `ChannelContract`,
`StreamIntact`, `ResultIsWhole` and `CarriedOutOnce`, are conjunctions of parts
with a comment each: types and the simpler facts are checked together with the
property they serve.

| run | question | instance | result |
| --- | --- | --- | --- |
| `SessionRelay_requests` | does replacing, losing, restarting or hibernating lose a waiting client, the token, or the open browser? | 2 sockets, 2 concurrent calls, deployed | holds |
| `SessionRelay_liveness` | is every request answered, once? | 2 sockets, 1 request of any other kind, fair | holds |
| `RelaySession` | client and object together, over faults and hibernation: one socket per client, no answer for another tab, and does a tab end up connected and ready? | 2 tabs, 2 connections, 1 request, 1 fault, fair | holds |
| `SessionLifetime` | are sessions in use kept, and idle ones removed in time? | TTL of 4 ticks, losses of memory counted to 3 | holds |
| `SessionLifetime_idle` | are idle sessions removed, whatever happens to the memory? | the same | **violated** |
| `OpfsBridge` | is the bridge a synchronous file system to its caller, and does every call return? | 3 calls of 3 kinds, both clients, 1 death | holds |
| `OpfsBridge_late_answer` | also when a read by the file system is slow? | 3 calls | **violated** |
| `StdinBridge` | are keys read, in order and once, until the page overtakes, overwrites or cuts? | keys of 1 and 3 bytes, reads of 1 and 3, 5 bytes typed at any time, fair | holds |
| `WasiTokio` | are tasks, messages and the end of a channel lost, doubled or starved by rounds within rounds? | 2 tasks beside the main future, 1 message, `select!` of a message or a task, and of a task or the cell | holds |
| `Memories` | do late workers, stolen leases, pollution, pruning and clearing keep the rows, the flags and the files in step? | 2 threads, 2 sessions, 2 versions, 2 rare events | holds |
| `Memories_liveness` | is every edit extracted and every change consolidated, whatever was interrupted? | 2 threads, 1 session, 2 retries, 1 rare event, fair | holds |
| `ShellPipeline` | is the result that of the commands as functions, and does it come? | up to 3 stages of 6 commands, pipes of 2 lines, inputs of up to 3, fair | holds |

What the violated runs show; the sentences of the repository they contradict are
under `findings`:

- `OpfsBridge_late_answer`: `makeRequest` forgets a timeout, so that the answer
  that comes late is taken for the answer to the next request, which itself is
  overwritten.
- `SessionLifetime_idle`: `lastActivity` starts again at every construction. An
  object that was evicted and is constructed by its own alarm finds itself just
  used, sets the alarm again, and is evicted again: an idle session stays for
  ever. `ExpiresUnlessForgetful` is what is left of the promise.

Other behaviour contradicts a comment, or is a loss. A passing property names it
as its exception, so that the rest is checked beside it:

- *A second browser* (`OneBrowser`, exception `forgotten`): handleInit, a tab
  connects, `Hibernate`, a second tab connects. The object woke with
  `browserSocket` null and nothing asks `state.getWebSockets()`: MCP clients are
  told that no browser is connected while the first tab stays open, and the
  second is taken beside it (`session-relay.ts:173`: "one browser per session").
- *A stranded tab* (`Settles`, exception `Stranded`): the same, seen from the
  tab, which gets no close event, stays `ready` and never dials again. The other
  exception, `Rivals`, are two tabs that stay: each replaces the other for ever.
- *Keys* (`StreamIntact`, `EveryKeyIsRead`, exception `harm`): TLC shows for each
  of the three harms alone that the order is broken by overtaking and bytes are
  lost by the two others. The program reads one byte at a time, so that of an
  arrow key that was kept only the escape arrives. The worker's side keeps such
  rests, for this very reason (`stdin-sync-bridge.ts:101`); the page does not.
- *Memories that stay* (`NothingMissed`, exception `unqueued`): a thread that is
  polluted or pruned after a consolidation has selected it and before that ends
  is not flagged yet; nothing is queued, and it stays in the files.

Three more are kept out by a constant or a conjunct:

- `RelaySession` with `App = "tui"`, `Settles`: `main-tui.ts` announces readiness
  before the socket is open; the message is dropped and never repeated.
- `ShellPipeline`, `Finishes` without `Fits`: the stdin of a stage is written to
  its pipe before anything reads it, so that one larger than the pipe
  (`PIPE_CAPACITY`) stops the shell for ever, when the stages run together and
  when they do not.
- `WasiTokio`, `EveryBodyIsPolled` without `Blocked`: see *WasiTokio* above.

### Bounds, and why they are enough

- *Connections*: two make replacement possible. A connection both ends are done
  with may be used again (`Recycle`), so the number bounds how many exist at
  once, not in all.
- *Requests*: two are needed where one could be failed for another
  (`_requests`); where a property speaks of one request, one is enough, as
  requests interact through the socket only.
- *`Backlogs`* says how many frames an arbitrary peer may have in flight when it
  sends one more: `{0}` lets it race with every event; the real client needs
  `{0, 1, 2}` (a status and an answer, and its close). RelayClient itself is not
  bounded, and the theorem takes `Nat`.
- *`MaxParts`* cuts the counting of partial events, not their arrival.
- *`MaxLosses`* cuts the counting of losses, not their occurrence; `IdleLifeIsBounded`
  speaks of what is counted.
- *`MaxFaults`*, *`MaxOpens`*, *`MaxDeaths`*, *`MaxCalls`*
  bound what happens, as their comments say. Both callers of RelayClient in
  this repository call `connect()` once, hence `MaxOpens = 1` in the runs
  (a second opening can be orphaned by the late close of the first socket,
  since `onclose` clears `this.ws` whichever socket it belongs to).
  Three calls of the OPFS bridge let one be late, be overtaken, and be
  followed by another.
- *`Statuses`*: the browsers of the runs announce that they are ready, as the
  callers in this repository do. The theorems about `SessionRelay` hold for any
  status messages, those about `RelaySession` for any with one that says ready.
- `StdinBridge`: the buffer holds one long key. With 5 bytes an arrow key and two
  letters are typed in any order and in every phase of the worker. *`MaxPosted`*:
  two requests are on their way when a read has given up before the page looked
  at its message.
- `WasiTokio`: two tasks and the main future make three levels of rounds; a task
  can be held by one round while another runs, be aborted there, or spawn there.
  `MaxSends = 1`: one message is enough to be lost, come late, or arrive after
  the end; a receiver told of the end once does not ask again. `Selects` names
  what `select!` is used on: together every kind of await is a branch.
- `Memories`: two threads with `MaxRunning = 1` make every cap bind; `MaxNow = 2` gives each thread
  a first version and an edit, before, while or after it is extracted or
  consolidated. `MaxFaults` counts changes of mode, pollution, pruning, clearing, crashes and leases
  lost by a session at work together: two of them, at any two moments.
- `ShellPipeline`: three stages have a first, an inner and a last one; pipes of
  two lines are overrun by inputs of three lines, by `seq 3` and by `yes`,
  whose lines are counted up to `MaxYes`, more than all pipes and buffers
  hold: a `yes` that nobody ends gets stuck there, which is how the run tells
  that it would never end.
- Deadlock is not checked where a run may stop: all requests answered, all
  calls made. `SessionLifetime` and `StdinBridge` never stop and are
  checked.

### Fairness

- `SessionRelay`: the body of a request arrives or fails, a timer that is set
  fires, frames in flight are delivered. Browsers owe nothing: they need not
  answer, close or dial.
- `RelaySession`: a tab opens the session once, its reconnection timer fires,
  events are delivered. Disconnecting, faults and requests owe nothing.
- `SessionLifetime`: time passes and an alarm that is due fires, as Durable
  Objects promise.
- `OpfsBridge`: both threads run; a wait on a dead helper ends after its 30 s.
  No call has to be made, no helper has to die, and the liveness property does
  not use the timeout while the helper lives.
- `WasiTokio`: the one thread goes on, nothing more. Which body acts next is not a
  choice of fairness but of the executor, which is what the properties are about.
- `Memories`: a session that claimed a job ends it in some way, or crashes;
  leases and delays pass; sessions keep being started by some thread, as the
  claims are the first thing a session does. Strong fairness there, since what
  can be claimed comes and goes with the leases of others.
- `ShellPipeline`: `join` polls a future again when it was woken, so every stage
  and every drain that can go on does.
- `StdinBridge`: the page handles its messages, the program keeps reading, as
  the shell's input loop does. How a sleep ends is left open: it may time out
  each time, and keys arrive all the same, since a read looks at the flag first.

## Proofs

Every invariant and every action property that a run checks is also a theorem,
for any values of the constants that the module's assumption allows: any number
of sockets, requests, tabs, calls, threads, tasks, stages, and any bounds. Where
a theorem needs more, that is its hypothesis, stated in the theorem and named
below. Each `*Proofs` module extends the module it is about.

| module | theorem | statement |
| --- | --- | --- |
| `SessionRelayProofs` | `TypeCorrect` | `Spec => []TypeOK` |
| | `NobodyWaitsUnseen` | `Spec => []EveryWaiterIsPending` |
| | `PendingRequestsFollowSocket` | `Spec => []PendingFollowsSocket` |
| | `TokenSurvivesRestarts` | `Spec => []TokenIsDurable` |
| | `OnlyTheForgottenStayOpen` | `Spec => []OneBrowser` |
| | `RelayImplementsReplies` | `Spec => RepliesSpec` |
| `SessionLifetimeProofs` | `ClockIsSound` | `Spec => []ClockInv`, the types among it |
| | `TheActiveAreKept` | `Spec => ActiveSessionIsKept` |
| | `IdleLifeIsBoundedByLosses` | `Spec => []LifetimeInv` |
| `RelaySessionProofs` | `SessionTypeCorrect` | the types and the object's invariants, for `SessionSpec` |
| | `SessionImplementsObject` | `Backlogs = Nat => (SessionSpec => ObjectSpec)` |
| | `SessionKeepsTheContract` | `Backlogs = Nat => (SessionSpec => RepliesSpec /\ [](OneBrowser /\ TokenIsDurable))` |
| | `ClientsNeverGiveUp` | `SessionSpec => []NeverGivesUp` |
| | `ClientsAreSound` | `MaxOpens <= 1 /\ App = "sdk" => (SessionSpec => []ClientInv)` |
| | `ClientsStayAway` | `MaxOpens <= 1 => (SessionSpec => []DisconnectIsFinal)` |
| | `NoTabAnswersForAnother` | `SessionSpec => []ServedByTheBrowser` |
| `OpfsBridgeProofs` | `TypeCorrect` | `Spec => []TypeOK` |
| | `AnswersAreTheCallsOwn` | `Remembered => (Spec => []AnswersMatch)` |
| | `CallsAreCarriedOutOnce` | `Remembered => (Spec => []CarriedOutOnce)` |
| | `TheBufferIsNotShared` | `Remembered => (Spec => []NoRace)` |
| | `TheBridgeIsSynchronous` | `Remembered => (Spec => CallsSpec)` |
| `StdinBridgeProofs` | `TypeCorrect` | `Spec => []TypeOK` |
| | `TheStreamIsIntact` | `Spec => []StreamIntact` |
| `WasiTokioProofs` | `TypeCorrect` | `Spec => []TypeOK` |
| | `EveryTaskIsInOnePlace` | `Spec => []InOnePlace` |
| | `ChannelsKeepTheirPromise` | `Spec => []ChannelContract` |
| | `WhatIsSettledStays` | `Spec => SettledForGood` |
| `MemoriesProofs` | `RowsAgree` | `Spec => []IInv`, the types among it |
| | `RowsAreSound` | `Spec => []RowsInv` |
| | `NothingIsMissed` | `Spec => []NothingMissed` |
| | `BaselineIsTrue` | `Spec => []BaselineIsTheMemory` |
| | `RunningIsCapped` | `Spec => []RunningCap` |
| | `NothingIsUndone` | `Spec => NothingGoesBack` |
| `ShellPipelineProofs` | `TypeCorrect` | `Spec => []TypeOK` |
| | `NothingElseIsExpandedTwice` | `Spec => []TwiceOnlyBeforeFallBack` |
| | `TheResultIsWhole` | `Spec => []ResultIsWhole` |

### Hypotheses

- `MaxOpens <= 1`: a caller calls `connect()` once, as both callers in the
  repository do. `App = "sdk"`: `main-tui.ts` announces itself before its socket
  is open; `ClientsNeverGiveUp` and the others do without.
- `Backlogs = Nat`: the arbitrary peers of SessionRelay may have any number of
  frames in flight, as RelayClient may. It says nothing of the session, whose
  definitions do not mention the constant: every behaviour of `SessionSpec` is
  one of the unbounded `ObjectSpec`, which is the object with the most general
  peers.
- `Remembered`: only calls through `syncFileOperation`, which remembers a
  timeout, outlast their 30 s. Without it `AnswersMatch` is false: that is the
  run `OpfsBridge_late_answer`.

Each of them is the value a passing run gives its constants, so none is vacuous,
but for `Backlogs = Nat`, where arbitrary peers have infinitely many states: the
runs of RelaySession check the refinement with all the frames their session
ever has in flight.

### The arguments

*SessionRelay.* Type correctness is split by the groups of Next; the lemmas at
the top say what `Sent`, `ServerClosed`, `DownClosed`, `failAllPending` and
`Answer` return. `PendingInv`, type correctness with `EveryWaiterIsPending` and
`PendingFollowsSocket`, is inductive: a step that empties `pendingRequests`
rejects all of it (`FailAllSettles`), so that no client is left waiting, and
every assignment of `browserSocket` comes with such a step or happens when
nothing is pending. `OneBrowser` is inductive with the types: an upgrade closes
the socket it replaces, and a reference is lost only with its socket closing, by
a restart that closes all, or into `forgotten`. The refinement
maps `phase` to the client's view (`status`): a step answers some requests that
were open, or adds a partial event, or is a stutter.

*SessionLifetime.* A session removed by the alarm has been idle for a TTL
because the clock in memory is never ahead of the real one (`ClockIsBehind`), to
which the constructor contributes that it starts from the present.
`LifetimeInv` needs to know when the alarm comes: `AlarmKeepsTheBound`
says that until then the idle time stays within one TTL and one per loss, as
long as the losses are below what is counted.

*RelaySession.* The object's invariants are proved again for `SessionSpec`,
for any `Backlogs`; each handler of RelayClient is then shown to be a step of
SessionRelay's arbitrary peer, and what is proved of the object for such peers
is carried over (`SessionKeepsTheContract`). `ClientInv` needs whose socket each
connection is and what its state is (`ClientsInv`): the `onclose` of any
connection forgets the tab's present socket, which is harmless as long as a
connection that is not over *is* that socket. `ServedByTheBrowser` needs the
requests on the wires (`ServedInv`): one travels only where it was sent.

*OpfsBridge.* `IInv` is the protocol as a table: whose turn it is follows from
the flags and the two program counters (`OneAtATime`), and for each step of
either side it lists what the buffer, the length and the locals hold
(`ServesTheCall`, `PreparesTheCall`, `HasTheAnswer`). After a timeout the
bridge asks nothing until the helper has been replaced (`Abandoned`,
`HelperIsKnown`), which is where `Remembered` is used. The refinement of
`FileCalls` adds that a thread which goes on has an outcome (`OutcomeIsKnown`);
that a late operation is still the last call's, and its first, is
`ServesTheCall`.

*StdinBridge.* `StreamInv` has three parts. While nothing was overwritten or cut
(`Whole`), the two sides do not use the buffer at once (`Handover`: the page writes
only while no answer is there, the worker takes only one that is), and every byte
typed was read, is left over, or is on its way (`NothingLost`): for that, order
does not matter. Without any harm, behind what was read come the bytes the worker
holds, the answer in the buffer, the text the page sends and the keys it keeps,
each from where the one before it ends (`Order`). Sleeping and waking, and how a
sleep ends, do not appear in it: nothing but the flag matters.

*WasiTokio.* `PlaceInv` says that the queue and the rounds hold the tasks that
live, each once, and that a task's status says where; `StackInv` says who began
the rounds, so that the task polled at the top is the only one that can move.
`InOnePlace` counts places, which the invariant shows to be one. The channel has an
invariant of its own, which does not need the executor's.

*Memories.* The inductive invariant (`IInv`) relates the watermark of the global
job to everything that was ever enqueued (`WatermarkIsAhead`), and says of a
worker that owns the consolidation that either nothing changed since it made
its selection (`UpToDate`) or the watermark has passed all it can complete with
(`Overtaken`), so that its completion leaves the job dirty. A thread that came to
have to go since then is either among what the watermark has passed or in
`unqueued`. `RunningCap` follows from the guard of the claim and needs that
nothing else makes a job run.

*ShellPipeline.* `ResultIsWhole` speaks of what comes out; `TextInv` says for
every pipe that what was written to it is a beginning of the text the stage
before it means, that what is in it is the part between what was written and
what was taken, and for every stage what it holds of which text (`StageAt`). A
stage that has ended has written all of its text, unless nobody reads it: that
is how `head` may end a pipeline early and the result still be whole. The
lemmas go from parts of texts to one stage between two texts, for each of the
six commands; from there to the pipes of a window; and then from one window to
the next. `Meaning`, a recursive function of the state, is replaced in them by
an M that solves its equation (`MeaningIs`), which exists and is unique
(`MeaningExists`, `MeaningUnique`, by the least stage where two would differ).

Before they were proved, the inductive invariants were checked by TLC on the
instances of the runs.

### Only model-checked

The liveness properties: `EveryRequestAnswered`, `ClosedSocketIsForgotten`,
`ExpiresUnlessForgetful`, `Settles`, `EveryCallReturns`, `EveryKeyIsRead`,
`EveryBodyIsPolled`, `Finishes`, `EveryEditIsExtracted` and
`EveryChangeIsConsolidated`. Fairness and `ENABLED` are out of the prover's
reach.

## What is not modelled

Headers, bodies, URLs and tool lists are reduced to the distinctions the code
makes of them; `initialize` and `ping` answers are constants. Encryption,
CORS, logging and routing are left out. The lengths of messages in the OPFS
buffer are abstracted, so the missing length check of `makeRequest` is listed
as a hazard and not checked.

Of wasi-tokio: timers (beyond "ready at some later poll"), Notify (a counter
that all waiters share: `notify_waiters` wakes one), Semaphore, the locks,
broadcast, watch and oneshot, processes and I/O; what an aborted task's handle
answers, and capacities (a bounded `send` never waits). Of the memory pipeline:
`record_stage1_output_usage` and the order of ranking, which are choices. Of
the shell: everything but pipelines of plain commands, that is control flow,
functions, builtins, input redirection, and modules that are loaded lazily;
the limit `MAX_OUTPUT_SIZE`, which the code declares and uses nowhere, so that
`yes` alone collects output for ever. Most of the Rust lines of the repository
are generated bindings, single commands and text conversions, which have no
state to speak of.

Components with status `not_modelled` carry the
reason in `PROJECT.json`.

## Plan

Done: the relay, its client, its clock, the OPFS bridge, terminal input, the
executor, the memory pipeline, shell pipelines, and a theorem for each of their
safety properties. Next, in this order:

1. `AgentJobs` — items, workers and retries of `agent_jobs.rs`, next to
   `Memories`.
2. The other channels, Notify and Semaphore of wasi-tokio against tokio's
   contracts.
3. `SyncFilesystem` — tree index, descriptors and OPFS; properties
   `TreeMatchesOpfs`, `RenameKeepsContents`. Abstract specification: one map
   from paths to contents.
4. `HttpBridge` — chunks with consumption handshake and both timeouts;
   `StdioModes` — the handlers of `edge-agent-mcp`; control flow of the shell.
