# TLA+ models of the whale AI SDK

The repository is an agent runtime in Rust. A *daemon* (`whale-daemon`) holds *sessions* (threads)
for clients that speak JSON-RPC to it; a client starts a *run* (turn) in a session; the *engine*
(`whale-core`) executes the run as a loop of model steps and tool calls; a persistent session records
every step in a *store* (`whale-store`), so that a crash never hides a side effect. An application talks
to the daemon through the *SDK* (`whale-sdk-rust`), which also executes the tools and context policies
that live in the application's process. This project models the part of that system where
interleavings, lost answers, timeouts and crashes decide whether it is right.

All paths below are under `src/crates/` unless they begin with `docs/`.

## Inventory

| Component | State it keeps | Operations | What makes it correct |
|---|---|---|---|
| Session record (`whale-store/src/state.rs`) | history, runs, model steps, tool calls, unknown executions | `begin`, `mutate` with each `RunMutation`, `finalize`, `recover`, `validate`; acknowledgement in `apply` | the history stays a transcript with every call answered once; every dispatched call is accounted for; nothing recorded is taken back; recovery always succeeds |
| Store runtime and journal (`runtime.rs`, `backend.rs`, `sqlite.rs`) | one row per session with revision, epoch, lease; a worker task per attachment with its poison | `open`, `create`, `attach`, `forget`, the worker, `compare_exchange` | racing writers behave like one writer; no write on a stale record; a lost answer of a write is never taken for a result |
| Retention of detached sessions (`retention.rs`) | time stamps, tombstones | `sweep` | never retires what is in use or not accounted for |
| Engine (`whale-core/src/engine.rs`, `session.rs`) | the session's history in memory, the step being executed | `run_turn_with_context`, `run_inner` | what it holds in memory follows what is durable; it sends only commands the record accepts |
| Tool coordinator (`coordinator.rs`) | one future per call, a read/write barrier, the cancellation token | `execute_calls_with_journal`, `execute_single_call` | no effect before a durable intent, none twice, none after the end of the run; exclusive tools run alone |
| Runs of the daemon (`whale-daemon/src/server.rs`) | a `RunRecord` per run: snapshot, publication lock, watch channels | `turn.start`, `turn.cancel`, `execute_run`, `publish_stream` | one acknowledgement, ordered events, one terminal event; a cancel that was accepted wins; what a client is told is durable |
| Run retention (`whale-daemon/src/retention.rs`) | terminal runs with their age, markers of expired ids, the quota | admission, delivery mark, sweep, close | an id never runs twice; nothing expires before it was delivered, and nothing of it stays behind |
| Close and disconnect (`session_lifecycle.rs`, `recovery.rs`) | lifecycle registry: owner and phase of each session, tombstones, lost connections | `publish`, `reserve`, `finish_session_close`, `disconnect_connection` | waits for the run it cancels and does not wait for ever; a closed session stays closed, a lost connection leaves nothing behind, an open session is served |
| Interactions and approvals (`interactions.rs`, `whale-core/src/approval.rs`, `interaction.rs`) | pending requests with their generation, response transactions, a feed of changes | begin, respond through three doors, finish, retire, close | one answer per request, the one its client is told; what is pending is shown and what is shown can be answered |
| Views V1 (`session_views.rs`, `whale-protocol/src/session_views.rs`) | snapshot, cursor, bounded journal, notifier ring | commit, publish, replay, scrub, the reducer `SessionSnapshot::apply` | each cursor once and in order, or an error; a client that applies the events has what the daemon would tell it |
| Management V2 (`session_management.rs`, `session_catalog.rs`) | record and lane per session, ordered notifier, owner catalogue with tombstones | metadata, run and close commits, publish, prune, list | store and view tell the same; Closed is last and precedes the answer; a listing is the window it froze |
| History pages (`session_history.rs`) | archive of canonical items, page cursors | append, evict, page | pages tile the window down to what is kept |
| Host bridge (`context_bridge.rs`, `server.rs`; `contexts.rs` of the SDK) | pending reverse calls, active invocations | call, answer, progress, cancel, close | a call ends on both sides; late answers change nothing; a cancellation is not lost |
| Handshake (`initialization.rs` on both sides) | readiness of a connection, the shared attempt | initialize, acknowledge, gate, fail | nothing before the acknowledgement; a failure is told behind the clean-up |
| SDK client (`whale-sdk-rust/src/lib.rs`, `sessions.rs`) | pending requests, bindings of tool names, session phases | register, close, disconnect | host and daemon agree on what is bound and open; an uncertain outcome ends the connection |
| SDK runs (`run.rs`) | routes from runs to shared states, buffered events | start, get, event, drop | every handle that waits is routed; streams have no gap |
| SDK streams (`session_views.rs`, `session_management.rs`, `interactions.rs`) | hubs, workers, replicas | subscribe, replay, follow, resync, end | every event once and in order; a replica is what was pending; streams end |
| SDK connection (`connection.rs`, `runtime.rs`) | the owner task of reader, writer and endpoint | stop, deadlines, join, reap | one report for everybody, success only when all is released |
| SDK agents (`agent.rs`, `tool_packs.rs`) | packs being bound, staged routes, the session that is built | create, attach, roll back, release, drain | no pack and no session belongs to nobody; each is ended once, in order |
| Adapters and providers (`whale-adapters`, `whale-core/src/*provider.rs`) | stream state | conversion of provider streams | a canonical event stream |
| Transport, main, protocol records | none of interest | framing, serialization | |

How they interact. A client request is handled by a task of its own. `turn.start` registers a run and
spawns the *executing task*, which begins the run in the journal, publishes its first projection, waits
for the acknowledgement to be written, drives the engine in a `select!` against cancel and deadline, and
ends with a terminal write and a terminal event. The engine and each tool call send *commands* to the
session's journal worker over an unbounded channel and wait for one-shot replies. A tool may suspend on
an interaction, or be executed by the host through a reverse call. Cancel, close and disconnect reach the
executing task through watch channels and wait for it through another one. What a run changes is
committed to the V1 view, the V2 record and the interaction feed under the publication lock of the run, and
written to the client by a notifier per session. In the SDK one reader hands frames to requests, routes and
hubs; a worker per subscription replays and follows; one owner task ends the connection.

What is hard here: tasks that stop at every await between two locks; futures that are dropped with
commands under way; writes and replies that fail although they happened; crashes; bounded queues, rings and
journals that drop what somebody still needs; attachments that follow one another on the same row; ids
that come back after their clean-up; closes, disconnects and handshakes that wait for tasks which wait for
their client. The list with the lines where it bites is under `hazards` in `PROJECT.json`.

## Modules

| Module | Models | State and actions |
|---|---|---|
| `SessionState` | `SessionRecord` and its commands, as operators on a ledger | `CanX(g, ...)` is the guard of command `X`, `X(g, ...)` its effect |
| `RunLedger` | what a session promises: the ledger with a lease | one atomic action per command, `Detach`, `Attach`, `Retire` |
| `SessionJournal` | the stored row and everyone who writes it | load, compute and compare-and-exchange of each worker and caller, failing and ambiguous I/O, crash, `StoreRuntime::open` |
| `DurableTurn` | engine, tool calls, journal queue, and the daemon around them | one action per commit, per await of the engine and of each call; drop, crash, close, attach |
| `RunLifecycle` | one run of the daemon from `turn.start` to its terminal event | one action per stretch of code between two awaits of each task |
| `RunRetention` | the runs of a session in the registry and their expiry | admission, end, projection, delivery mark, the three steps of a retirement, close |
| `SessionLifecycle` | the registry of sessions and connections | one action per stretch between two awaits of creation, attachment, close job and `disconnect_connection` |
| `Interactions` | requests of tools and the transactions that answer them | begin, the eight steps of a response, cancel, deadline, end of run, retirement, close |
| `EventFeed` | cursor, bounded journal and replay floor of a feed, as operators | `Retain`, `Replay`, `ScrubRun` |
| `SessionViews` | a V1 view from commit to the application's `recv` | commit, publish, notify (late, twice or never), replay pages, live ring, enqueue, receive |
| `SessionProjection` | what a V1 view shows, and a client's copy of it | run loop, responder and cancel commit to the shared reducer |
| `NotifiedFeed` | what the V2 plane promises of its notifications | `Commit`, `Send`, `Stop` |
| `SessionManagement` | the V2 record of a session and its ordered notifier | lane, metadata over the store, close, order, queue, latest slot, write, confirm |
| `SessionStreams` | V2 subscriptions of the SDK | hub in a map of weak references, workers, pages, nudges, end |
| `SessionCatalog` | an owner's sessions, tombstones and listing | insert, close, prune, list page by page |
| `SessionHistory` | the archive and its pages | append, evict, walk backwards |
| `InteractionFeed` | interaction streams from the daemon's feed to a replica | commit, notify, gap and resync, enqueue, receive |
| `HostBridge` | reverse calls of a run, on both sides | register, send, dispatch, install, run, answer, settle, cancel, close, disconnect |
| `SdkClient` | requests, registrations, close and disconnect of the client | one action per stretch between two locks |
| `RunRoutes` | routes and handles of a run | start, query, drop, and the three steps of the reader |
| `Shutdown` | what the owner of a connection promises | `BeginCleanup`, `Let`, `Publish` |
| `ConnectionOwner` | the owner task with its deadlines, endpoint and child | stop, wake, close writer, join, force, reap, publish |
| `Initialization` | the handshake on both sides | attempt, acknowledge, gate, dispatch, fail, clean up |
| `SessionBuild` | an agent that builds a session with tool packs | bind, stage, ask, accept, deliver, claim, release, drain |
| `SessionStateProofs` | lemmas about one ledger, which three proofs share | |
| `RunLedgerProofs`, `SessionJournalProofs`, `DurableTurnProofs`, `RunLifecycleProofs`, `InteractionsProofs` | theorems about the module of that name | |
| `SessionProofs` | theorems about `SessionLifecycle` and `SessionManagement` | |
| `ConnectionProofs` | theorems about `ConnectionOwner` and `Initialization` | |
| `MC_RunLedger`, `MC_SessionJournal`, `MC_DurableTurn`, `MC_RunLifecycle`, `MC_SessionLifecycle` | an instance of one module | |
| `MC_Daemon`, `MC_Sdk` | the instances of the other modules, in two suites | |

`RunLedger` and `DurableTurn` use `SessionState`; `SessionJournal` uses it too and implements
`RunLedger` under the mapping *ledger* to the row's ledger, *lease* to attached, detached or retired,
*epoch* to the row's epoch (`ImplementsLedger`). `DurableTurn` writes the ledger in one step per
command that may fail ambiguously, which is what `SessionJournal` shows of the worker.
`RunLifecycle` keeps of the journal only whether the run's begin and end are durable. `SessionLifecycle` keeps of
the runs only that a close job waits for them, and of the journal whether it holds the stored record.
`SessionViews` and `InteractionFeed` extend `EventFeed`, as do `SessionManagement` and `SessionStreams`.
`SessionManagement` implements `NotifiedFeed` (`NotifiesInOrder`), which is what `SessionStreams` assumes of the
daemon. `ConnectionOwner` implements `Shutdown` (`KeepsPromise`), which is what `Initialization` waits for
when a handshake fails.

A definition named in a comment as `Mutant:` is not part of a specification. Each is a plausible mistake
in the definition below it, and putting it in that definition's place makes TLC report the property it is
listed with in `PROJECT.json`.

### The two suites

Most components are small enough to be checked together. `MC_Daemon` and `MC_Sdk` instantiate them as
*parts*: the variable `part` says which one moves, the variables of the others hold `"rest"`, and a name that
two modules share is the variable of the part that moves. `MC_Daemon` extends `Interactions`,
`SessionLifecycle` and `SessionManagement`, and `MC_Sdk` extends `ConnectionOwner` and `Initialization`: about these there are
theorems, and the suites check the very properties these modules state; their
variables have names of their own and rest in their initial state. The reachable states are the disjoint union of
those of the parts, so nothing is said about parts together; a suite's property says of each part what its
module states. Their fairness is stated in the suites, one weak fairness condition per scheduled task of the part.
In a leads-to of the form `Waits ~> ~Waits`, `Waits` is the disjunction of what each part may wait for.
Requests and events are bounded in every part, so it says that everything is settled once they pause.

### The session record: `SessionState`

`ledger.history` is the sequence of items, each a kind and an id. `ledger.run[t]` has the status of turn
`t`, the stretch of the history that is its own (`history_start` and the items of its snapshot), and its
model steps with their usage. `ledger.call[c]` has the turn and step of a call, whether its intent is
durable, its outcome and whether its result is in the history. `ledger.unknown[c]` is the entry of
`unknown_executions`. Contents of items, configuration and time stamps are left out. The byte limit of
the history is a limit on its length; usage has one field and the bound `MaxUsage` stands for the largest
`u64`. A replay of a known turn id, which `begin` answers without a change, is no step.

### The store: `SessionJournal`

`db` is the row. A worker takes a command, loads the row, checks its lease, applies the command and
writes; others may run between the load and the write. A write either happens, is refused by
`validate_replace` or the revision, or fails with an I/O error that leaves open whether it happened; the
last two poison the worker, which then refuses every command. Callers of `attach` and `forget` and the
sweep do the same on a detached row. A crash loses workers and callers and keeps the row.

### A durable turn: `DurableTurn`

`queue` and `reply` are the command channel and the one-shot replies. A command is in the queue before
its sender waits, so `Stop`, which drops the engine and the futures of its calls, leaves it there. `effect`
counts how often the handler of a call was entered, across crashes. A call holds the barrier from its
check of the token until it returns. Approvals, unknown tools and invalid arguments are one rejection.
The effect of a dropped handler on the world outside is open: the models say when a handler is *entered*.

### A run of the daemon: `RunLifecycle`, `RunRetention`

The tasks of `RunLifecycle` are the first `turn.start`, the same one repeated, `turn.cancel` requests, the
executing task, `session.close` and the disconnect. `snapLock` and `pubLock` are the two async mutexes. `wire` is
what the client received of this run, `notified` what subscribers of the view received, `durable` the run's
status in the journal, or `"absent"` in a session without one. `Kinds` says which sessions are checked: with a
journal the executing task announces the run, without one the request does. The legacy `turn.run` stream and
sampling options are not modelled. `RunRetention` has several runs: how one executes is left to
`RunLifecycle`, how it is admitted, projected, delivered, marked and retired is here. A sweep holds candidates
over its three awaits, during which the session may close.

### Sessions and connections: `SessionLifecycle`

`entry` is the registry (`doomed` is `Preparing` with its close flag, `done` says that the completion is
settled), `served` and `journal` are the daemon's `sessions` and `persistent_sessions`, keyed by session id only, `row` says
which session the stored record is attached to. `creator`, `closeCall`, `job` and `hangup` are the tasks: `thread.start`,
`session.create_persistent` or `recovery.attach`; `session.close`; one close job per session; calls of
`disconnect_connection`. `wanted` counts the calls of the last kind that have been spawned and have not begun.

### Questions to the client: `Interactions`, `InteractionFeed`, `HostBridge`

`Interactions` has one run and the requests that its tools suspend on. A request has a generation, because its id may
be begun again; a response is a transaction of eight steps under several locks, and cancel, deadline, end of run,
retirement and close may fall between any two. `InteractionFeed` follows the changes of the pending set from the
daemon's bounded journal to the replica of an application that was told of a gap. `HostBridge` has the frames of a
tool call or a context call on both sides: frames to the host keep their order, messages to the daemon are
handled by tasks of their own and keep none.

### Views: `EventFeed`, `SessionViews`, `SessionProjection`

A feed is a value: cursor, floor and journal. `SessionViews` moves its events through the rings of notifier and
hub, which drop their oldest, and the replay requests of one subscriber; the notifier repeats a frame whose write
timed out. An attachment that follows another one is a new stream (`Streams`). `SessionProjection` has the
data: window of the history, drafts and approvals of the active run, on the daemon and on a client with a
smaller window.

### The V2 plane: `SessionManagement`, `SessionStreams`, `SessionCatalog`, `SessionHistory`

`SessionManagement` has publishers that commit under the lane, release it, and hand their envelope to a notifier
that sorts by cursor; a full queue is made up for by a slot for the latest. The close waits for its envelopes.
`SessionStreams` has several streams on one hub. `SessionCatalog` and `SessionHistory` are the two listings by signed
cursor; a cursor is its claims, and each request for a page may find that what it names was pruned.

### The SDK: `SdkClient`, `RunRoutes`, `SessionBuild`, `ConnectionOwner`, `Initialization`

Every step is a stretch between two locks or awaits of one thread or task; requests may be rejected, time out
although they were carried out, or end with the connection. `ConnectionOwner` has the two deadlines of a
shutdown as phases that may begin at any time, and reader, writer, server and child that may hang.

## Runs

| Run | Instance | Shows |
|---|---|---|
| `run_ledger` | 2 turns, 2 calls, 3 items, 2 attachments, 2 steps per run, usage up to the limit | 427,906 states: a session's record is a complete, append-only account through all orders of commands, recoveries and attachments |
| `session_journal` | 3 attachments, 2 callers, 2 turns, 1 call, 11 revisions | 246,295 states: the racing writers implement `RunLedger`, and a live worker never loses its row |
| `durable_turn` | 2 turns, 2 calls of which one is exclusive, 2 items, 2 steps | 1,226,432 states: effects and records agree through drops, failed writes, closes and crashes |
| `run_lifecycle` | one run with an item, 1 repeat, 1 cancel, close, disconnect, with and without a journal | 652,046 states: what the client is told is ordered, true and final; runs that have to stop and closes end |
| `daemon` | parts below | 867,153 states: safety of what a session and its runs rely on |
| `daemon_events` | parts below | 1,340,446 states: safety of the way of an event to a replica in the SDK |
| `daemon_live` | parts below, the smaller instances | 313,497 states: their liveness |
| `sdk` | the parts below | 345,011 states: safety and liveness of the components of the SDK |
| `run_ack`, `run_view`, `run_close`, `session_cleanup` | the smallest instances | each shows a disagreement between the code and what it says (below) |

The parts of `MC_Daemon`, with `L` for those of `daemon_live`, `E` for those of `daemon_events` and `S` for those of `daemon`:

| Part | Module | Instance |
|---|---|---|
| `question` S, `asked` L | `Interactions` | a question of a host tool whose id is begun twice, two responders with different answers (`asked`: one answer) |
| `approval` S | `Interactions` | an approval, answered through three doors by two responders |
| `refusal` S, `approved` L | `Interactions` | an approval whose only responder may send what does not fit |
| `retention` S L | `RunRetention` | 3 runs, 1 kept, a quota of 2, 4 points in time |
| `tool` S, `call` L, `context` S L | `HostBridge` | one call, answers through both doors, with and without a deadline |
| `views` E, `reattach` E, `repeated` E, `catch_up` L | `SessionViews` | up to 3 events of two runs against a journal of 1 or 2, rings of 1; two attachments and an event too large to keep; a repeated frame |
| `projected` E | `SessionProjection` | 2 items, 2 results, 2 approvals, windows of 3 and 1 |
| `metadata` E, `closing` E L | `SessionManagement` | two writers of a stored session that may be pruned; the close of an ephemeral one with a run, a writer and a queue of 1 |
| `streams` E, `pair` L, `stream` E L | `SessionStreams` | two streams on a hub of 1, with an event and `Closed` or with `Closed` alone; one stream with 3 events |
| `catalog` S | `SessionCatalog` | 3 sessions, one of them large, pages of 2, 3 points in time |
| `history` S | `SessionHistory` | 6 items of 4 sizes, 3 kept, pages of 2 |
| `requests` E, `request` E L | `InteractionFeed` | 2 ids or 1, a journal and rings of 1 |
| `sessions` S L | `SessionLifecycle` | two connections that create and attach one id, with a close and two clean-ups, of one connection or of both; L: one connection, two closes and two clean-ups that join |

The parts of `MC_Sdk`: `client` (`SdkClient`: two registrations of one name, a close that may be rejected, a
disconnect), `routes` (`RunRoutes`: a start, two queries that may overlap it, two events), `create` and `attach` (`SessionBuild`: three packs),
`owner` (`ConnectionOwner`: two callers, and a managed process, an embedded daemon or an external one), `handshake` (`Initialization`: two calls, one raw request).

Why the bounds are enough to be interesting. Two turns give a run that starts on what an earlier one left;
two calls give a batch with one answered and one open call, and an exclusive call beside a parallel one.
Three attachments give a stale worker beside a current one and an attach under way. `RevisionBound` lets
a run with a tool call be written, crash and be recovered twice. A usage of 2 with a limit of 3
overflows on the second step. One item of a run gives an event between the start and the terminal one; that several
keep their order does not rest on the bound, because `WireAlwaysInOrder` and `RunAlwaysEndsAsTold` are proved for all.
A history limit of 5 in `durable_turn` lets a run need a third step, which `MaxSteps` then refuses.
Every queue, ring, journal and quota of the suites has a capacity below the number of events that reach it, so
that each is full, overflows and is caught up with; two generations of an id, two attachments, and a limit
with one entry beyond it give each clean-up something it must not touch.
Runs have no deadlock check because every one of these systems may come to rest: the turn ids are used
up, the run has ended and everyone was told, or the session is closed. What must not come to rest is stated by
the liveness properties.

Symmetry is used for sets whose members appear in no constant by name, and never in a liveness run. In `MC_Daemon` it
is the pair `x1`, `x2`, which stands for two streams, two interactions or two connections.

Fairness. A task that is ready is polled by the runtime: weak fairness of each task's next step. Sends to a client
end because the client reads, or because they time out after five seconds, or because the connection is lost; so
replies and the delivery of events are fair. Timers that exist fire: the retention worker's, the deadlines of
handshake, requests and shutdown. A killed process exits. A handler of the application that was cancelled returns,
and so does one that is awaited on a normal release. Nothing makes a client cancel, close or disconnect, makes a model
answer, or makes a deadline exist, so none of these is fair; reader, writer and server tasks may hang
(`ConnectionOwner`), and a context policy may run for ever unless it is cancelled (`HostBridge`). That the runs a close
waits for settle is no fairness of the code: `CloseEnds` of `run_lifecycle` shows it for sessions with a journal, `run_close`
refutes it for the others. It is therefore the premise of `DebtsPaid` (`RunsSettle`), and TLC refutes `DebtsPaid` without it.
The conditions are listed part by part, with their reasons, in the suites.

### Disagreements found

- `run_ack`. `deliver_acceptance` (server.rs:1537) takes the publication lock with `try_lock` and expects it
  to be free. A cancel sent right behind the start holds it while it publishes; the acknowledging task
  then panics and abandons a run the client was told is accepted.
- `run_view`. `publish_stream` (server.rs:2242) records an item in the run's snapshot and publishes its
  event later. A cancel in between publishes a snapshot that has the item, and the reducer then takes the
  item of the event for a known one: the view's history never gets it.
- `run_close`. In a session without a journal a close that comes between the registration of a run and
  its first projection makes the projection fail; the handler takes the run away without settling
  `terminal_delivery`, and the close waits for ever (`EveryCloseEnds`). With a journal the same path settles it
  (`CloseEnds`, which `run_lifecycle` checks).
- `session_cleanup`. `disconnect_connection` may run twice at a time for one connection: at the end of its input and
  after an answer that could not be written. Both remember the ids of its sessions. When the first has
  dropped the tombstones another connection may publish a session under one of these ids; the second then
  removes that session from `sessions` and `persistent_sessions` (session_lifecycle.rs:484), because these maps are keyed
  by the id alone. The run refutes `OpenIsServed`. `OpenIsLive`, which `daemon` checks with two clean-ups and `OpenAlwaysLive`
  proves, exempts the sessions removed in exactly this way (`evicted`): nothing else ends the service of an open session.

One statement of docs/RUN_API.md has an exception the model makes explicit: an accepted cancel ends
in `cancelled` unless the terminal write fails, in which case the run ends `failed` (`CancelHonoured`).

### Other disagreements met

No run of the list above reports these. Where a property of a suite would fail, its formula and its comment state the
exception, and the instance contains it, so that the run shows that nothing else breaks the property. A history variable
records the exception where the state does not tell (`reverted`, `mishap`). The remaining ones are definitions that no run
checks; TLC refutes each of them for the module itself with the constants of the part that is named.

Exceptions of properties the runs check:

- `SessionProjection!PendingIsShown` (`ProjectionAgrees`). `finish_response_commit` (interactions.rs:1359) commits a clone of
  the snapshot taken before a second approval was listed, and the view says the run is running while it waits.
  docs/SESSION_VIEW_API.md:59 calls `active_run` the current snapshot. Exempt once such a clone has taken approvals back.
- `SessionProjection!ReplicaAgrees` (`ProjectionAgrees`). After a clone without an item that the view has, a client with a
  smaller window appends results that the daemon takes for known (whale-protocol/src/session_views.rs:502), and absolute indexes
  differ for good. docs/SESSION_VIEW_API.md:51 calls the reducer canonical. Exempt once a clone has taken items back.
- `SessionManagement!ClosedBeforeAnswer` (`StreamsInOrder`). `publish_confirmed` (session_management.rs:365) returns at once
  when its envelope is held back for an earlier one, so the close is answered before `Closed` is sent, against
  docs/SESSION_VIEW_API.md:276 (`mishap.held`). And while `complete_closed` waits, any request of the owner prunes its record
  (session_management.rs:1284), although the comment at 1281 says that the terminal envelope is preserved (`mishap.pruned`).
- `SessionManagement!TailUnsent` (`DebtsPaid`). Two publishers that met a full queue put their envelopes into the slot for
  the latest in the reverse order (session_management.rs:360); the newest is never sent (`mishap.replaced`). The test at 1957
  expects that the "latest V2 cursor remains observable after queue saturation".
- `SessionStreams!StreamOpen` (`DebtsPaid`). A stream that replays `Closed` removes the hub (SDK session_management.rs:741) that
  another stream still waits on, which then ends neither by the close nor by the loss of the connection, against
  docs/SESSION_VIEW_API.md:278 and 243. Such a stream is `Deaf`.
- `SdkClient!NameIsAcknowledged` (`ClientAgrees`). A registration that finds its session closing leaves its handler installed
  (SDK lib.rs:1022); a rejected close reopens the session with it, against lib.rs:934 and 939. The daemon of this
  repository rejects no valid close.
- `RunRoutes!HandleRouted` (`RunsReachHandles`, `CallsEnd`). A lookup that shares the state of a start which then fails keeps a
  handle without a route (SDK run.rs:201), and its `result()` never ends, not even on disconnect; retention_tests.rs:507
  demands the contrary of two lookups. Such a handle is `Orphaned`.
- `SessionBuild!QuietClose` (`NothingLeaked`) holds until a disconnect clears the callbacks; see `ToolsQuiet` below.

Properties that are only stated:

- `Interactions!RetiredIsCleared`, part `approved`. `retire_run` (interactions.rs:1024) drops a request that is resolved and
  not yet published; its later publication finds no entry and the request stays pending in the snapshot as
  long as the session lives. docs/INTERACTION_API.md:196 says that retention clears the pending state.
- `Interactions!ApprovalSettled`, part `approved`. `begin` publishes a request before the run loop takes its event. A
  response in between finds no approval to remove, and `publish_stream` (server.rs:2227) then lists an
  approval that nothing removes before the run ends. docs/RUN_API.md:86 sends a client to the snapshots for what
  is pending.
- `SessionCatalog!EvictionIsTold`, part `catalog` with four `Sessions`, none of them large, and `MaxClosed` 1. Only the last
  `2 * max_closed_tombstones` names of evicted sessions are remembered (session_management.rs:612), while
  docs/PROTOCOL_SPEC.md:484 promises `TombstoneExpired` for each.
- `RunRetention!LastRunIsLatest`, part `retention`. `execute_run` drops the session before it commits `Finished`
  (server.rs:2136); a start in between replaces `active_run`, and the `Finished` of the first run is refused, so that
  `last_run` of docs/SESSION_VIEW_API.md:60 is not the latest.
- `HostBridge!ProgressBeforeResult`, part `tool`. `report_progress` (whale-core/src/execution.rs:173) looks at `is_active` and
  sends later, with no lock held; a result handled in between is published first. docs/EXECUTION_CONTEXT_API.md:38 says
  that a finished invocation cannot publish progress.
- `SessionBuild!ToolsQuiet`, part `create`. `disconnect` clears the callbacks (SDK lib.rs:328) before it takes the packs; a
  release in between closes a pack while a callback still executes its tools, against docs/TOOL_PACK_API.md:119.
  The suite checks the same while the connection is up.

## Proofs

The theorems hold for every choice of the constants that satisfies the named assumptions: `StateAssumption` and
`NoneAssumption` in `SessionState`, `BoundAssumption` in `RunLedger`, `JournalAssumption` in `SessionJournal`,
`TurnAssumption` in `DurableTurn`, `LifecycleAssumption` in `RunLifecycle`, `SessionsGiven` in `SessionLifecycle`,
`SessionManagementGiven` in `SessionManagement`, `InteractionsGiven` in `Interactions`, `InitializationAssumption` in
`Initialization`. They say that limits are natural numbers,
that a run may take at least one step, that the value for *nothing* is not an outcome or a thread id, and that the
names of the tasks (`"run"`, `"engine"`, `"executor"`, ...) are not those of a call or of a request. Connections, session
ids and requests are finite sets, a queue holds at least one entry, an approval is no request of a host callback,
a call of the SDK is no raw request.

| Theorem | States, for every instance |
|---|---|
| `RunLedgerProofs!ActiveRunAlwaysResolved` | `[]ActiveRunIsResolved` |
| `RunLedgerProofs!DispatchAlwaysAccounted` | `[]DispatchAccounted` |
| `RunLedgerProofs!FactsAlwaysStand` | `RecordedFactsStand` (action property) |
| `RunLedgerProofs!LedgerAlwaysSound` | `[]LedgerSound` |
| `RunLedgerProofs!HistoryOnlyAppended` | `HistoryAppendOnly` (action property) |
| `SessionJournalProofs!TypeCorrect`, `WriterIsCurrentAlways`, `LeasesAlwaysDistinct` | `[]TypeOK`, `[]WriterIsCurrent`, `[]LeasesDistinct` |
| `SessionJournalProofs!SweepAlwaysSpares` | `SweepSparesProtected` (action property) |
| `SessionJournalProofs!JournalAlwaysSound` | `[]JournalSound` |
| `SessionJournalProofs!Refinement` | `ImplementsLedger` |
| `DurableTurnProofs!EffectsAlwaysTrue`, `EffectsOnlyInRun` | `[]EffectsTrue`, `EffectsInRun` (action property) |
| `DurableTurnProofs!EngineAlwaysFaithful` | `[]EngineFaithful` |
| `RunLifecycleProofs!RunAlwaysEndsAsTold`, `WireAlwaysInOrder` | `[]RunEndsAsTold`, `[]WireInOrder` |
| `SessionProofs!NothingEverLeft` | `[]NothingLeft`, which is `AttachmentOwned`, `CloseStands` and `GoneIsGone` |
| `SessionProofs!OpenAlwaysLive` | `[]OpenIsLive`, for clean-ups that overlap in any way |
| `SessionProofs!RecordAlwaysAgrees` | `[]RecordAgrees`, which is `StoreFollows` and `ClosedIsLast` |
| `SessionProofs!NotificationsAlwaysInOrder` | `NotifiesInOrder`: the plane implements `NotifiedFeed` |
| `ConnectionProofs!PromiseAlwaysKept` | `KeepsPromise`: the owner of a connection implements `Shutdown` |
| `ConnectionProofs!NobodyEverForgotten` | `[]NobodyForgotten`, which is `NoOrphan`, `OneOutcome` and the types |
| `ConnectionProofs!HandshakeAlwaysFirst` | `[]HandshakeFirst`, which is `AcknowledgedFirst`, `FailureAfterCleanup`, `GateLosesNothing` and the types |
| `InteractionsProofs!InteractionsAlwaysTyped`, `OneAnswerAlways` | `[]InteractionsTypeOK`, `[]OneAnswer` |

Induction. `SessionStateProofs` and `RunLifecycleProofs` begin with induction over the natural numbers, for a set instead of a predicate (`SetInduction`), from the
well-foundedness of `<`. The provers cannot instantiate an operator parameter, but they can apply this lemma to the set of
the numbers with a property. That is how the proofs reach recursive functions and positions in a
sequence. Such a function is first related to a predicate (`IsAnswers`, `IsUnshown`) whose instances are shown to
exist, because its definition by `CHOOSE` says nothing otherwise. `SelectSeq` and `SortSeq` have an operator parameter and
stay out of reach, so `ResultItems` and `ViewFinished` are written with a recursive function, and the sort of the
cursors held back (`ByCursor`) as the permutation it chooses.

`SessionStateProofs`. One lemma per command of `state.rs` about one ledger, in two layers. `Good` is about runs, intents
and unknown executions: a finalize keeps the account straight only if an id no call uses has no result, and a begin
keeps at most one run active only if there was at most one (`Shape`, `OneActive`, `Accounted`, `Resolved`). `Sound` is about
positions and sums: a call is answered behind it and at most once, only the active run has open calls (`Paired`), the runs
share out the history (`Tiled`), and the recorded usages of the active run fit (`Summed`). Every command is shown to be a
rewrite of one run (`Rewrites`), and what it adds to the history determines what becomes of `Sound`. `Follows` puts
this together with `FactsStand` and with `LedgerExtends`, which is what `validate_replace` tests.

`RunLedgerProofs`. `IndInv` is `Good` and that an active run needs an attachment; `SoundInv` adds `Sound`. All of `LedgerSound`
(pairing, tiling, and that the recovery of an interrupted run cannot fail) and the three other properties follow.

`SessionJournalProofs`. The central fact is that the holder of the lease is the only writer. It rests on
`CallerInv`: what a caller has loaded was a detached, unretired row of a revision not above the stored one, and is
the stored row if the revisions are equal. A caller can therefore write only onto a detached row, which no
worker holds, and attaching raises the epoch, which makes every older worker stale (`LeasesDistinct`). `IndInv`
is the conjunction of types, `WriterInv`, `CallerInv`, `DownInv` and `LeasesDistinct`. For `JournalSound` the stored
row is also `Sound`, and what a worker has computed `Follows` what is stored, so neither check of the store can refuse it.

The refinement, in the same module. The operators of the instantiated `RunLedger` are those of `SessionState` (the `Same...`
lemmas). A write of a worker is a command of the ledger because what it loaded is what is stored
(`WorkerStep`), a write of a caller is an attach or a retirement (`CallerStep`), a crash and a load are
stutters, opening the store is a detach. Hence `Refinement`: `Spec => ImplementsLedger`.

`DurableTurnProofs`. The invariant `TurnInv` has two halves. `Control` says who can be where together (`Phases`), that the
daemon's task has one command under way, with only acknowledgements behind it (`RunLast`), and that while the engine executes every
command in the queue is the one its sender waits for (`Handshake`). `World` ties the point a call has
reached to the ledger and to `effect` (`TaskInv`): a call that was not yet dispatched has no intent and no outcome, one whose
intent was answered has it in the store, and an output on its way is the output of a handler that ran. It is needed because a
dropped future leaves its command in the queue: without `RunLast` such a command could reach the next run.

What the engine remembers, in the same module. `FaithInv` says by how much the store is ahead of the engine at each of its points (`Agreement`): by
the command whose answer the engine has not taken. It needs that a poisoned journal has told one of the senders (`Blamed`), that a
run begins in a queue without commands of an earlier one (`BeginAlone`), and that an acknowledgement under way keeps any run
from beginning (`AckInv`). What results a run still owes is computed by `ResultItems`, whose lemmas say how each
command changes it. `EngineAlwaysFaithful` is then that no command is refused and that the memory is a beginning of the history.

`RunLifecycleProofs`. `LifeInv` relates the tasks around the two locks. `Locked`: who is between taking and giving up a
lock holds it, and a cancel that holds the snapshot lock still has the status it set. `Counted`: every item of the
history is in the snapshot, in the channel or in the executing task's hand, which bounds the sequence numbers. `Decided`: a run
that is not accepted can only end cancelled, and the status is terminal exactly behind the terminal commit. `Journalled`: the
journal is ahead of what is told. `Cursors`: every cursor of the view is notified or held back, in order, but the one that the
holder of the publication lock has committed. From this the sort in `deliver_acceptance` is the identity (`SortedByCursor`): it
only repeats the order in which the cursors were committed. `Framed` and `Quiet` put the terminal event behind every frame and before the close.

`SessionProofs`, the registry. `OwnInv` gives everything one task that is responsible for its end. `Preparations`: an entry that is
being made has one task. `Entries`: only open and closing sessions are served, and a connection that is lost makes none.
`Attachment`: as long as the storage works, whoever made an attachment still holds it, or the journal of a session that is
open or closing does. `Jobs`, `Cleanups` and `Spawning`: a close job belongs to a completion that is open, a clean-up knows
every session of its connection that is served, has a journal or is being closed, and no job is spawned twice. `Closes`: who
waits has a completion to hear of, and a close that succeeded has left its tombstone. It is needed because the
three parts of `NothingLeft` say only how things end: that no attachment stays behind, say, depends on the clean-up not
having overlooked a preparation. `NothingLeft` needs nothing of how many clean-ups run at a time.
`OpenIsLive` does: `HoldsOwn` says that what a clean-up still has to remove is of its own connection, or that this connection
has been cleaned up by another call. A session that the second kind removes is recorded as `evicted`, which is why the theorem
needs no hypothesis about clean-ups.

`SessionProofs`, the V2 plane. `PlaneInv` follows an envelope from its commit to the wire. `CloseInv`: the close commits `Closed`
once and nothing after it. `LaneInv`: while a writer waits for the store the record is the one it prepared from, so the
metadata agree. `OrderInv`, `BatchInv`, `NotifierInv`: what is held back, in the hands of a publisher, in the queue or in the
slot was committed, so it is no newer than the cursor, and what the notifier is writing is newer than what it sent. With
these every step of the plane is one of `NotifiedFeed` or a stutter. The sort of what may be sent (`Ready`, `Batch`) is shown to be the
run of cursors that follow one another, by the cardinality of intervals.

`InteractionsProofs`. `AnswerInv` ties every generation to one ticket, one confirmation and one leader. `Generations` and
`Begun`: a generation is used once, and an entry is of a generation begun for its request, so two entries never share
one. `Untouched`: nobody has staged, confirmed, published or joined anything of a request that is pending, which is why it may
be withdrawn at any time. `Found`, `OneValue`, `Delivers`, `Recorded`: whoever takes part in an answer, as leader, as follower or
as one who was told, knows its generation, and responders, continuation and entry have the same value. `OneLeader`,
`EarlyLeads`, `LateLeads`, `Confirmed`: what the leader's position says of confirmation, completion and feed.
`LeaderKept`, `ShownLed`: while the run is retained and the record registered, the leader's entry is there and whatever is shown has a leader.
None of this follows from `OneAnswer`, which speaks of the end of a response only. The steps fall into nine kinds, with one lemma each
that they keep this (`Withdrawn`, `Looked`, `Resolved`, `Staged`, `Moved`, `Published`, `Acknowledged`, `Followed`, `Aborted`), and `Started`
for a new request; every action is then shown to be a step of one kind. What the feed has said of a generation (`Said`) is opaque in
them and follows the appended events by `SaidMore` and `SaidOthers`.

`ConnectionProofs`. `OwnerInv` follows the owner from stage to stage. `EndpointInv`: a connection has the task or the child of its
endpoint and no other. `JoinedInv`: as long as no failure is recorded, what belongs to a stage that is over has ended. `ReapInv`: a
process whose stage is over is reaped or has a reaper. `ReportInv`: the report is there when the owner is done. `JoinedInv` is what makes a
report of success true: a stage is left by a join or with a recorded failure (`Advance`), whatever hangs at either deadline,
and nothing that has ended runs again. So the wake maps to `BeginCleanup`, the report to `Publish`, and of the steps
between them (`Quiet`) the one that ends the last resource maps to `Let` and the others to stutters. `HandshakeInv` puts four facts in
a chain: the worker publishes once (`WorkerInv`), a call has sent its request only behind a published success, a
request the daemon knows was sent, and a notification comes from an executed request (`SentInv`); readiness
comes behind the acknowledgement (`AckInv`). Each link is needed for the gate of the reader, which drops by the state of
the SDK what the daemon sends by its own.

Only model-checked: liveness (`StopEnds`, `CloseEnds` and the others), which needs fairness and `ENABLED`;
`ClosedBeforeAnswer`; and what the suites say
of the other parts: retention, host calls, views, projection, streams, catalogue and history, and client, routes and session building of
the SDK. The folds in
`EventFeed` and `SessionHistory` (`Bytes`) and `SessionProjection` (`AppendNew`) take an operator, which the
provers cannot instantiate; these would have to be written with recursive functions first.

## Plan

1. `SessionState`, `RunLedger`, `SessionJournal`, their refinement and proofs: done.
2. The other modules and the suites: done.
3. Proofs of `DurableTurn` and of the safety of `RunLifecycle`: done.
4. Proofs of the registry of sessions (`SessionLifecycle`), of the V2 plane (`SessionManagement`) and of the interactions (`Interactions`): done.
5. Proofs of the connection of the SDK (`ConnectionOwner` implements `Shutdown`, `Initialization`): done.
6. What remains: `EventFeed` (`Retain` keeps the journal contiguous above its floor, which views, streams and requests rest on), and
   the routes and the client of the SDK (`RunRoutes`, `SdkClient`).

## Not modelled

Transport framing, HTTP providers, serialization of records and the process entry are input and output
without state of interest. The adapters convert one provider's stream format each: sequential code over formats, which
their fixtures cover. Validation of options, metadata, manifests and tool schemas is a check of data no property
tells apart. The store's sweep tries every row here, where the code pages through them under a budget. The legacy
`turn.run` stream, sampling options, the opening of a runtime's source and the provisional entry of a session
probe in the SDK are left out: they add no state that the modelled tasks share. Wall-clock time appears as deadlines that may
pass at any moment and, in retention and catalogue, as a small counter.

Steps that are merged, or paths that are left out, inside modelled parts. None adds a state that a property tells apart:

- Merged with what follows without a decision in between: the rollback of a refused start (`RunLifecycle!Withdraw`), the
  removal of a journal from its map and its detach (`SessionLifecycle!HangupDetach`), status, token and wake-ups of a cancel
  (`Interactions!CancelRun`), the closing mark and the clearing of interactions (`RunRetention!BeginClose`), the removal
  of an answered call from two maps and its send (`HostBridge!Settle`), the clearing of a session's maps and of its
  reverse calls (`SdkClient!Drain`), the release of the registration lock and the disconnect (`SdkClient!Break`).
- `SessionState!CanAcknowledge` has no expected revision: a caller that names an old one is refused and changes nothing.
- `SessionViews!BeginRun` begins a run behind the `Finished` of the last one; the other order is `LastRunIsLatest` above.
- `Interactions!Begin` is called by the engine only while it executes. `InteractionFeed!RemoveRecord` finds no request pending.
- `SdkClient!HandleRegister` answers with success or a rejection; the other errors take the path of a timeout.
- `RunRoutes!AcceptEvent` takes a stream whose receiver was dropped for a full one, and has no legacy buffer. The failing of
  the runs of a session that is released is that of a disconnect.
- `SessionBuild!Enable` checks the session as it does with interactions enabled.
- `ConnectionOwner!Return` waits for the report of the owner, whose task is never dropped; `BackgroundReap` does not fail.
