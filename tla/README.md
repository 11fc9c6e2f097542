# Formal model of ov-computeruse

`ov-computeruse` lets a user drive Codex CLI on his own machines from a web
dashboard. An **agent** (Go, `agent/`) runs on each machine, keeps its state in
SQLite and holds one websocket to the **server** (Go, `server/`), which keeps its
state in PostgreSQL, coordinates instances through Redis, and serves **dash**
(TypeScript, `dash/`). This directory models what the three have to agree on although
each may crash, reconnect and retry by itself: commands on their way to an agent, runs
in the agent, run events on their way back and into the dashboard, the history and the
index of Codex conversations, and the connections all of it travels on.

Paths below are relative to the repository root.

## 1. Inventory

| component | state it keeps | operations | what makes it correct | module |
|---|---|---|---|---|
| run manager, `agent/internal/runs/manager.go` | `active` runs with session aliases, the ack cache, event counter | `Handle` (start, stop), `execute`, `Emit`, `SetAckStore` | one command executes once, as far as its ack can be stored and found; one owner per active run; sessions serial; a stop ends a run as stopped; nothing unfinished after a restart | RunManager |
| local store, `agent/internal/localstate/store.go` | SQLite: `run_events`, `runs`, `command_acks`, index, runtime sessions, chunks, cursors, projections | one SQL statement per step, mostly without a transaction around several | rows never contradict each other at a crash point, or the restart repairs them | RunManager, RunEventOutbox, IndexSync, HistoryUpload |
| transport, `agent/internal/transport/client.go` | one connection, envelope counter, outbox | `Run`/`serve`, `Emit`, `flushRunEventOutbox`, `heartbeat`, `readLoop`, uploads | every saved event is delivered; order is kept where it can be; reconnects lose nothing | RunEventOutbox, HistoryUpload, IndexSync |
| replay guard, `server/internal/protocol/replay.go` | per connection: last seq, message ids | `Accept` | rejects what is old or repeated and nothing else | RunEventOutbox, CommandLifecycle |
| command and run tables, `server/internal/store/events.go`, `dashboard.go` | `commands`, `runs`, `run_events` | save, claim, mark, refuse, expire, ack, event, heartbeat, stop, retry | the two status columns agree and settle; an answered command is not sent again | CommandLifecycle |
| dispatch, `server/internal/app/dispatcher.go`, `hub.go` | claims (lease in the row), send queues | request handler, replay on reconnect, background dispatcher | a command reaches the agent or is refused; a run whose stop the agent answered does not run | CommandLifecycle |
| hub, `server/internal/app/hub.go`, `ws_agent.go` | connections, Redis leases and epochs | `AddAgent`, `TouchAgent`, `RemoveAgentConn`, `DisconnectAgent`, delegation | an open connection is reachable and owns the lease; a disabled agent goes offline | AgentHub |
| workspace requests, `server/internal/app/workspace_broker.go` | pending requests | request, answer, resolution through Redis, timeout | each request goes to one connection and gets its own answer or a timeout | AgentHub |
| history upload, `server/internal/store/history_upload.go`, `history_items.go`, the agent's `uploadHistoryItems` | staged batches, upload state, cursors, chunks | stage, commit, replace, ack, save cursor | a shown history is exactly one complete upload; cursors follow what was stored | HistoryUpload |
| index and runtime sessions, `agent/internal/codexscan/scan.go`, both stores | sessions, native threads, which run wrote a row last | scan, save, merge, rename, mark deleted, publish, `thread.started` | ids lead to the right conversation; the server catches up | IndexSync |
| projections, `server/internal/store/projections.go`, the agent's own | messages, tool calls, steps, timeline, `last_event_seq` | project an event, rebuild | independent of the order of arrival, or repaired by a rebuild | RunProjections |
| dash subscription and page, `server/internal/app/ws_dash.go`, `hub.go`, `dash/src/App.tsx` | watermark per subscription, send channel, events shown | subscribe, snapshot, broadcast, relay, re-open | no event is skipped between snapshot and live events | DashFeed |
| approvals | request, decision, command | raise, decide, close | a decision reaches the run that waits for it | none: no code path raises one |
| workspace notifier, `agent/internal/workspace/notifier.go` | last announced state | throttle | the last change is announced | none |

**Interactions.** dash → server: HTTP requests, one websocket with snapshots and
live events. Server → agent: envelopes `command.*` and workspace requests pushed through a
bounded queue per connection. Agent → server: `command.ack`, `run.event`, `heartbeat`, index and history
messages, answers to workspace requests; the server answers each event with
`run.event.ack` and each batch with its ack. Server ↔ server: Redis
leases and pub/sub. Agent ↔ Codex: one child process per run.

**Hard behaviours.** Read loops of two connections may overlap, because `serve`
returns without waiting for its reader. The ack is looked up, the run admitted, its
first event saved and its ack stored in four separate steps. Envelope numbers are
taken under one lock and written under another. The outbox loop sends concurrently with
the emitter. On the server the request handler, the reconnect replay, the background
dispatcher and the agent's reader write the same two rows in their own transactions,
with a lease of 30 s instead of a lock. Scans and uploads start with every connection,
with every command that asks for them and after every run, and nothing serialises them. The lease in Redis is
read, compared and deleted in separate calls. A subscription reads its watermark, its views and
its events one after the other while live events arrive. Every queue is bounded and drops when full.
Crashes fall between any two statements. `PROJECT.json` lists these hazards one by
one, each with its source line and the properties that would notice it going wrong.

## 2. Modules

```
RunManager ──────── MCRunManager          agent: commands in, runs, acks, crash
   └─ RunManagerProofs                    types, one owner per active run
        └─ RunManagerSafety               sessions, acks, executions, stops, restarts
EventDelivery ◄──── RunEventOutbox ── MCRunEventOutbox
 (abstract)          agent and server: events out, acks back
                       └─ RunEventOutboxProofs    numbers, delivery, causal order
CommandLifecycle ── MCCommandLifecycle    server tables, dispatch, abstract agent
   └─ CommandLifecycleProofs              answered, finished and stopped stay so
SessionHistory ◄─── HistoryUpload ─── MCHistoryUpload
 (abstract)          history of a session: uploads, staging, cursors
                       └─ HistoryUploadProofs     cursors, chunks, whole versions
AgentHub ────────── MCAgentHub            connections, leases, workspace requests
   └─ AgentHubProofs                      reachability, one delivery, answers
IndexSync ───────── MCIndexSync           scans, runs and the server's copy of the index
   └─ IndexSyncProofs                     scans repair, runs stay found, the server follows
RunProjections ◄─── DashFeed ──────── MCDashFeed
 events to tables,   events to tables, broadcast, subscription, page
 rebuild               └─ DashFeedProofs          projections, the page's events
```

A module stands for one conversation between components; the parts they share are cut at
messages. What another module models in detail is in each of them a choice: Codex and the database
errors in RunManager, the agent in CommandLifecycle, the outbox in IndexSync and
DashFeed.

### RunManager
A step is a critical section of `Manager.mu` or one SQL statement. `entry` is the map `active`;
`commands` and `ackDb` are the ack cache and `command_acks`; `log` and `row` are `run_events` and
`runs`; `handler[h]` is where read loop `h` is inside `Handle`; `exec[r]` is where the goroutine of run
`r` is inside `execute`; `ctx` is the context given to the run. `Receive … Remember, SaveAck, Launch`
follow one command through `Handle`: the ack in memory, its row and the `go` statement are three steps.
`Begin … RemoveRun` follow the goroutine, which asks its context three times, and the active table in
between, before it knows how the run ended (`AskDeadline, AskCanceled, AskStopping, AskAgain`). `Crash,
ReconcileInsert, ReconcileProject, Booted` follow `SetAckStore`. `DbErrors` lets each statement fail.
History: `launches` counts the goroutines of a command, `doubts` says why the ack table could not tell a
read loop that a command was answered (`unsaved`, `unread`, `overlap`), `told` that a run was cancelled
by a stop when its goroutine first asked. Codex is external: it ends with success or an error, must end
when killed or cancelled, and may report its thread id.

Left out: approvals inside a run, output lines, workspace checks of `start` (they
reject like the deadline check does).

### RunEventOutbox, EventDelivery
`Emit` is modelled from `Manager.Emit` (number) through `SaveRunEvent` (insert) to
`Client.send` (envelope number, write) and `MarkRunEventSent`; the outbox loop is
`FlushScan … FlushCheck`; the server stores, detects conflicts or fails and answers;
`ReadAck` closes the row. `numbered` are the senders between their two locks, and
`late` are those of them the replay guard will reject, because a later number was
already written. `EventDelivery` is the promise: events are saved, stored at most once, and only a
stored event is acknowledged. `RunEventOutbox` implements it under the mapping
`saved <- rows, stored <- arrived`.

`PendingRunEvents` orders by `event_at` then `seq`; the model orders by `seq`. Usage
events are never stored and are not modelled; neither are emits whose own context is
cancelled before `SaveRunEvent`.

### CommandLifecycle
`cmd`, `run` are the two status columns; `claim` is the claim lease; `past` are the
commands whose `expires_at` has passed. `work[w]` is the local
state of a server process `w` (request handler, reconnect replay, dispatcher): claim,
check, send, mark or refuse are separate transactions. `reader` is the agent
reader on the server, which handles acks, events and heartbeats, one statement a step. The agent
appears as far as the server can tell: it answers a known command from its ack table,
starts, stops, ends, reports final events and heartbeats, crashes. `ClaimBatch` takes
any subset of what may be claimed, as `FOR UPDATE SKIP LOCKED` does. A claim is wall time and
lapses whenever it likes, also while its holder still sends (`LeaseExpires`). `Plans` bounds the
commands, drops, crashes and the window of messages of one behaviour together.

Left out: enabling an agent again; capability and credential checks (they act like the
access check); approvals; delegation through Redis (AgentHub's); idempotency
keys; the `stale` status, which only the migration writes. The lock
`pg_advisory_xact_lock(hashtextextended(..), hashtextextended(..))`
(`server/internal/store/events.go:891`) is modelled as intended although PostgreSQL has no
such two-`bigint` form; the partial unique index on active sessions enforces the same.

### HistoryUpload, SessionHistory
An upload `u` is one call of `uploadHistoryItems`: `Connect`, `RunEnds` and `Refresh` start one, `Scan,
CheckCursor, NextBatch, SaveCursor, UploadChunk` compare cursors, send a batch and wait for its ack,
save the cursor, send the chunks. `wire`, `back` and `buffered` are the two directions of the connection
and what a lost one still held. The server's tables are `staged`, `received`, `uploaded`, `stored`;
`Receive` is `SaveHistoryItems` with staging and commit in its one transaction. The file is its version,
its items are pairs of version and batch. `SessionHistory` is the promise: a reader sees one whole
version, and a cursor is remembered only when a version at least as new was shown. `HistoryUpload`
implements it with `shown` mapped to what is in `history_items`.

`Insert` is the set of outcomes of an INSERT executed while the rows of a
SELECT of the same transaction are still open. The code does that
(`server/internal/store/history_upload.go:187-214`), and pgx refuses it as busy; the
configurations have both outcomes, so nothing shown depends on which one a driver has.

### AgentHub
`conn[c]` is the handler of a websocket in `ws_agent.go`: it reads its identity, registers,
closes its predecessor, touches the lease, reads, and removes itself in steps (map, GET, DEL, close).
`table` is `Hub.agents` of each instance, `lease` the key in Redis, `disc` and `notices` a
disconnect in an instance and on its way to it. `req` is the handler of a
workspace request; `delegated`, `sub`, `responses`, `answered` are its way through Redis and back.
`StopInstance` ends a process anywhere.

Abstractions: one agent of one user; Redis answers unless the process stops; the reads
`connOwnsLease` and `agentLease` are one; an instance executes one disconnect at a time;
binds and access changes are handled at the instances `Admin`. `disabled` says whether the agent,
its device or its user is, and a bind looks at the last two only. Drops, binds and access changes
are bounded jointly by `MaxEvents`.

### IndexSync
`disk` and `mounted` change under `task[k]`, a scan that walks the directories in order, saves its result
and publishes it; `rows` is the agent's `runtime_sessions`, `run[r]` the handler of
`thread.started` with its select, delete and insert. `net` and `events` are the index
messages and the events the outbox delivers; `srvSessions`, `srvRows`, `runLink` are the server's.

Abstractions: projects are left out; `updated_at` mixes clocks and file times, so "the newest" of
several rows is any of them; the two selects of the agent's `SaveRuntimeSession` are one.

### RunProjections, DashFeed
`RunProjections` holds the tables of a run and what an event does to each:
`SaveBegin`/`SaveCommit` is the transaction of `SaveRunEvent`, `Select, Clear, Replay, Abort` a
rebuild, one statement a step. The function `Mirror` projects the same events one after the
other as the agent does, in the order of emission, and is the reference.

`DashFeed` adds the readers of two connections, their broadcast to the instance's own pages, its
publication and relay, and one page: `Subscribe, Watermark, ReadViews, ListEvents, Finish, Refuse` are the
handler of the subscription, `Receive`, `Close`, `Open` the page, `shown` what it shows, and
`lost` (history) what a full channel, a failed publish, a subscriber that fell behind or the
snapshot's limit took. A broadcast looks at the subscriptions on a copy and advances them later,
under another lock (`Check` and `Broadcast`, `RelayCheck` and `Relay`; `accepted` is what the relays
found in between); a subscription to a session takes what carries one of its ids (`Accepts`).

Abstractions: a text is the sequence of events it was made from; gaps and approvals, which the
rebuild clears too, are left out; the agent has emitted all events of `script`; what
else writes the run's status is CommandLifecycle's; one page with one socket.

## 3. Runs

Every run is `tlc -config <cfg> MC<Module>.tla`; the configuration has the run's name.

| run | instance | shows |
|---|---|---|
| RunManagerOverlap | two read loops, one start, its stop, SQL errors, symmetry on loops | `TypeOK`, `OneOwner`, `AcceptedIsStarted`, `LaunchedIsAcked`, `AtMostOnceExecution`, `StoppedNotFailed` |
| RunManagerStarts | two read loops, two starts of one session, an unknown command, symmetry on loops and on the two starts | `SessionSerial` |
| RunManagerCrash | one loop, two starts of one session (one with a deadline), a stop, one crash | `AtMostOnceExecution`, `NothingLeftRunning`, liveness `StopEndsRun` |
| RunEventOutboxLive | two runs, two of a crash, a drop and a server error, queues of 1, batch of 1 | `TypeOK`, `SeqUnique`, refinement `Delivers`, liveness `EventuallyDelivered` |
| RunEventOutboxOrder | two runs over one connection, a heartbeat, one run refused | `CausalUnlessQueued` |
| CommandLifecycleStop | request handler and replay. Two plans: two starts of one session and a stop by run id; or a start and a stop by session, a lost connection or message and an agent crash. A cancelled context, lapsing claims and one message under way in both | `AnsweredStopMeansStopped`, `FinishedRunKept` |
| CommandLifecycleAccess | a start, replay on reconnect, full queue, heartbeat, two of an expiry, a retry and the disabling | `TypeOK`, `AnsweredNotPending` |
| CommandLifecycleSettle | a start, lost connection, cancelled request, agent crash, claims that lapse while their command is sent | liveness `RunSettles` |
| HistoryUpload | two connections; a connection and `refresh_index`; a connection and the two uploads after a run. A file that grows from one batch to two, a drop, a failure, chunks | `TypeOK`, `AckedChunkStored`, `DoneIsStored`, refinement `ShowsWholeVersions` |
| AgentHub | three instances, two connections at one of them or at the two others, one event in all (a drop, a rebind or an access change), a workspace request | `TypeOK`, `OpenIsRegistered`, `DeliveredOnce`, `AnswerKept`, liveness `LeaseReturns`, `DisabledGoesOffline` |
| IndexSync | three plans of up to two conversations, two runs, two scans, two changes of the disk and one lost connection or restart | `TypeOK`, `ScanRepairs`, action property `RunKept`, `ServerFollows` |
| DashFeed | eleven plans: events in order on one connection or in any order on two at two instances, a page that watches the run or its session and opens twice, one or two rebuilds, a failing statement, publication or subscriber | `TypeOK`, `TablesComplete`, `MatchesMirror`, `NothingSkipped`, `SnapshotWhole`, liveness `FeedCatchesUp` |

What the properties say is in the comment above each. The rest of the configurations
are kept because each reproduces, within seconds to two minutes, a behaviour that
explains an exception in a property above, or a place where the code does something
else than its documents, tests or messages say (quoted where one says so). TLC stops at the first
property that fails: of a configuration with several, leave the one to be seen.

| configuration | property that fails | what happens |
|---|---|---|
| RunManagerAckKept | `AcceptedAckKept` | a redelivery on a new connection, while the old loop is still inside `start`, is answered `duplicate` and overwrites the accepted ack; `agent/internal/runs/manager_test.go:203` demands a "replay of" the first ack |
| RunManagerKilled | `KilledIsStopped` | `stop` kills, then cancels; `execute` looks in between and reports `run.error`; `agent/ARCHITECTURE.md:73` promises `run.stopped` for a stop by the user |
| RunManagerReconcile | `UnfinishedReconciled` | a crash between insertion and projection of `run.started` leaves a run the reconciliation never sees; `agent/README.md:48`: "unfinished local runs are reconciled as interrupted events" |
| RunManagerReconcileDone | `FinishedNotInterrupted` | a crash between insertion and projection of the final event: a finished run is reported interrupted |
| RunManagerThread | `ThreadSerial` | two ids of one native thread are admitted before Codex reports that they are one; `agent/ARCHITECTURE.md:71` says one session is always serial so that no two prompts continue the same history |
| RunEventOutboxReplay | `OnlyReplaysRejected` | number taken first, written second: the guard drops a fresh envelope as a replay; `server/ARCHITECTURE.md:74` names only expired, future and repeated messages |
| RunEventOutboxStatus | `FinalStatusKept` | a queued `run.started` arrives after the final event and reopens the run |
| RunEventOutboxRefresh | `RefreshedAfterFinal` | two senders of the final event both read retry count 2; nobody refreshes the index, which `agent/ARCHITECTURE.md:79` says happens after every run |
| RunEventOutboxRefused | `EventuallyDelivered` with a full batch of refused events | refused rows stay pending and starve the rest |
| CommandLifecycleRetry | `RetriedRunEnds` | the answer of the first attempt makes the retried run accepted for ever; `server/README.md:96` offers the retry |
| CommandLifecycleExpired | `ExpiredSettles` | expiry only runs for agents of which a command was just claimed |
| CommandLifecycleDisabled | `DisabledSettles` | a start whose run is `stopping` is excluded from claims, so after the agent is disabled nobody refuses it, although `server/ARCHITECTURE.md:88` says such commands are marked failed |
| CommandLifecycleFull | `StoppedBeforeDispatch` | a redelivery to a full queue takes a dispatched command back; a stop then closes, as "run stopped before agent dispatch" (`server/internal/store/events.go:1031`), a run that will start |
| CommandLifecycleTwice | `EveryStopDoneMeansStopped` | a second stop finds the run already marked stopped, because the first one had a redelivered start refused, and is done at once; the agent, which had the start queued from its first delivery, runs it |
| HistoryUploadExceptions | `CursorMeansShown` | an older upload is stored after a newer one and cut before it saves its cursor: the cursor is newer than what the server shows, and the next scan skips the upload |
| HistoryUploadExceptions | `RefreshStores` | `refresh_index` uploads inside the read loop and waits there for acks only the read loop can read; it times out and is acknowledged with "refresh completed" |
| AgentHubExceptions | `LeaseEpochGrows` | a connection that read its identity before a rebind registers after it, closes the newer connection and takes the lease |
| AgentHubExceptions | `NoPanic` | a send outside the lock on a channel the reader has closed: in the subscriber's goroutine the panic ends the process |
| AgentHubExceptions | `DisabledIsOffline` | a heartbeat handled during the change sets the lease again: the disabled agent looks online for the time to live of the key |
| IndexSyncExceptions | `DeletedOnlyWhenGone` | a file moved behind the walk, or a scan saved after a newer one, marks a session deleted that exists, until the next scan |
| IndexSyncExceptions | `DeletionReported` | the missing ids of a scan are reported by the scan that found them or never: two callers drop them (`agent/internal/transport/client.go:262`, the lookup in the main program) |
| IndexSyncExceptions | `ThreadAccepted` | the thread of a resumed run is refused when its session was reported deleted meanwhile |
| IndexSyncLostRun | `RunFound` | a scan that read a session's file before it was configured is saved after a run resumed the session: its two rows disagree on the thread, the next scan keeps the run of the other row, and the run that wrote last is no longer found by it |
| DashFeedExceptions | `EventKept` | an event stored between the SELECT and the DELETE of a rebuild loses its projection |
| DashFeedExceptions | `MessageKept` | with no disturbance at all: a run has one assistant row, and its second message overwrites the first |
| DashFeedExceptions | `RunStaysBusy` | a run being rebuilt has the status `rebuilding`, which neither the session check, the stop nor the heartbeat counts as active: a second run may start on the session |
| DashFeedExceptions | `ReopenRepairs` | the page asks for the events above the highest it shows; if a live event reached it before its snapshot, re-opening never fills the gap |
| DashFeedExceptions | `RefusedIsOff` | a refused subscription stays when a live event moved its cursor meanwhile |
| DashFeedExceptions | `SessionWhole` | a page subscribes to a session while a rebuild of one of its runs has cleared the timeline: the snapshot lacks the run's events, and nothing tells the page when they are back |

**Bounds.** Each hazard above needs at most two concurrent parties and one fault; the
mutants confirm that the instances are large enough to notice, since each property is
broken by a plausible bug in its run's own configuration. The bounds are named constants:

- *RunManager*: two runs, two commands of a session, one crash. Failing statements and overlapping
  loops (`RunManagerOverlap`) and crashes (`RunManagerCrash`) do not meet in one instance; the
  theorems cover them together.
- *RunEventOutbox*: queues of 1 or 2 make "full" reachable; `retry` saturates at 2, because only
  the values 0, 1 and more are told apart; one heartbeat is on its way at a time; `MaxFaults` lets
  two of the three faults happen in one behaviour.
- *CommandLifecycle*: `Plans` bounds commands, drops, crashes and messages under way jointly,
  so that many commands and many faults do not meet in one behaviour; `MaxChanges` does so for
  retries, expiries and the disabling. The theorems cover what the plans keep apart.
- *HistoryUpload*: two versions of one and two batches, one drop, one failure (a store error
  or an ack lost to a full queue). Staging tells one batch from several, and overwriting needs two uploads.
- *AgentHub*: two connections, because a race is one between a connection and its successor; a
  third instance handles requests and changes, so that both ends of a delegation are remote. Queues of
  1; two epochs; one event in all, a drop, a bind or an access change.
- *IndexSync*: one conversation with two scans, two runs or a lost connection, or two conversations
  with one scan. Two directories of one root are enough for a file to move behind the walk.
- *DashFeed*: four events at most, a snapshot limit of 2 (300 in the code) and a channel of 2
  (128), so that both overflow; one envelope under way per connection; two pages in turn.

**Fairness.** Goroutines and loops of a live process keep running. In RunManager and RunEventOutbox that
is `WF` on handler, execution, flush and boot steps, and the agent redials (`Connect`). In
CommandLifecycle the dispatcher ticks for ever and `SKIP LOCKED` cannot starve one command for ever, so
claiming is strongly fair per command; runs with an agent that stays away use `AwaySpec`, without
`Connect`. In AgentHub the handlers of connections and disconnects go on, the agent notices a closed
socket, it beats while connected, and a lease expires; no request, bind or drop is ever forced. In
DashFeed the readers, the relay of each instance, the handler of a subscription and the page's socket go
on. Codex is not assumed to end unless killed or cancelled. HistoryUpload and IndexSync have no
fairness: what they promise is safety. `CHECK_DEADLOCK FALSE` stands where the system may rest:
everything delivered, every command closed, every bound spent.

## 4. Observations

Met while modelling, and either excepted in a property or outside the models:

- A stop that races the redelivery of its start can mark a run stopped while it
  runs; the session is then free at the server, a second run is admitted, the first one's
  `run.started` is refused by the unique index, retried, and stored after its final event:
  the run is shown running for ever. `FinishedRunKept` excepts exactly this late `run.started`,
  and a retry of the command, which is meant to bring the run back.
- Three things make the agent run a command twice, and no other (`AtMostOnceExecution`): its ack could
  not be saved, which is only logged; its row could not be read, which counts as a miss; or two read
  loops handled it at once, after a reconnect, and the second one, which had looked for the ack in vain,
  came to admit the run when the first execution was over.
- `execute` reads its context three times (`agent/internal/runs/manager.go:448`, `:451`, `:454`). A stop
  that cancels between the second and the third ends the run in `run.error` with "canceled"
  although it is marked stopping. `StoppedNotFailed` is about a run cancelled before the first.
- A stop that the server closes itself, without asking the agent, can be done while its run runs, or
  before it starts (`EveryStopDoneMeansStopped` fails, `AnsweredStopMeansStopped` excepts it). It takes
  a start for undispatched when a full queue took it back, or when its claim lapsed between the send and
  the mark, so that it is still queued though the agent has it. It takes a run for over when the run is
  not: the server refuses a redelivered start of a run that is `stopping` and marks the run `stopped`,
  although an earlier delivery is at the agent; a second stop is then done at once
  (`CommandLifecycleTwice`).
- A stop by session may be answered for another run than the server meant, one that is just ending.
  The run meant stays `stopping` while its start is on its way; a heartbeat that does not report it
  makes it `stop_failed`, and the next stop of it is done at once, while it runs.
- The two rows of a conversation, under its file's id and its thread's id, may disagree on the
  thread after a late scan; the next scan then forgets which run wrote last. `RunKept` excepts this case
  (`IndexSyncLostRun`).
- `ExpireCommands` selects and updates in two statements (`server/internal/store/events.go:1315`,
  `:1333`): a command expiring in between leaves its run queued; the liveness run has no expiry.
- A request cancelled between the two statements of `MarkCommandFailed` leaves the run queued.
- Envelopes from server to agent carry no seq, so nothing checks regressions in that direction.
- With pgx's busy connection (section 2, HistoryUpload) every upload of more than one batch fails at its
  commit. Staging rows of an abandoned upload are never deleted.
- The first bind of an agent disconnects with epoch 0, which means every connection.
- A GET of the lease followed by a DEL deletes a lease written in between; `LeaseReturns` says that
  the next heartbeat sets it again.
- An index message that was read before an event and is sent after it overwrites a newer thread of a
  run at the server; an older scan does the same at the agent. A session on a root that is not
  mounted, whose message was lost, is not sent again. `ServerFollows` is about what a
  steady refresh sent, and about one that no scan of another disk overtook: with four scans, one that the disk
  changed under can save between the last two messages of a steady refresh, and another steady scan settle
  the index again before the last: the index then holds a row that no message has named (`Unspoiled`).
- Two rebuilds at once double the deltas of a message; a cancelled request leaves the tables half built;
  a run closed by the heartbeat, which stores no event, is running again after a rebuild; decided
  approvals would be pending again. `TablesComplete` and `MatchesMirror` are stated for rebuilds that
  had the run to themselves.
- An event stored after one with a higher seq does not reach a page that watches the run, whose cursor
  has passed it (`server/internal/app/hub.go:421-446`); a page that watches the session gets it. The
  snapshot holds at most 300 events, and the watermark suppresses those it cut. The page has no
  automatic reconnect and ignores `error` messages.
- The notifier records a state as announced before it is sent (`agent/internal/workspace/notifier.go:90`):
  after a failed send the state is not announced until it changes again.

## 5. Proofs

The theorems are checked by TLAPS and hold for every value of the constants that the modules'
assumptions allow: any number of runs, commands, connections, events, conversations, scans or
uploads, and every bound. They cover the type correctness of every module and every safety property
of the runs. Each module's theorems rest on an inductive invariant that says
more than the property; what it adds is the reason why the property holds.

**RunManager** (`RunManagerProofs`, `RunManagerSafety`). Every theorem has an invariant of its own
over one base, `Base == TypeOK /\ Launched /\ Ownership` (`BaseInvariant`).

- `TypeCorrect`: `LearnSession` records the thread of the command a goroutine works for, which is a
  session only for a start; `Launched` says that it is one.
- `OwnerUnique`, `[]OneOwner`: `Manager.active` is inserted into in one place and deleted from in
  two, by run id, without comparing the pointer; this is safe because an active run has exactly one
  party that will delete it. `Ownership` adds `HandlerKind` (a loop that is starting holds a start,
  one that is stopping a stop: otherwise the `ok` of a stop would look like an accepted start) and
  `BootEmpty` (nothing is active or in hand while the process boots).
- `SessionsSerial`, `[]SessionSerial`: aliases grow after `start` has compared them. `NamedIsAlias`:
  a run stays among them under the session its own command names.
- `AcceptedStarted`, `[]AcceptedIsStarted`: with `Accepts`, a loop that saved `run.started` or is
  about to save an accepting ack has the event in the log.
- `LaunchedAcked`, `[]LaunchedIsAcked`: with `Answered`, a loop that is about to launch has tried to
  save the ack, and nothing deletes a row.
- `ExecutedOnce`, `[]AtMostOnceExecution`, for any number of loops and whichever statements fail: with
  `FirstTime`, as long as nothing raised a doubt about a command, a loop past the ack table holds
  one without an ack, and the start that is under way was never launched. A lost connection
  matters here: a loop whose look-up failed with its context cannot insert `run.started` either (`Underway`).
- `NothingStaysRunning`, `[]NothingLeftRunning` if no statement fails (`~DbErrors`): `RowClosed` says
  when the row of a run is closed although the run is still active.
- `CancelledIsStopped`, `[]StoppedNotFailed`: `Told` says that a cancelled run, and one that a stop
  still holds, is active and marked as stopping, whoever deletes other runs meanwhile; `Heard`
  follows the goroutine that found its context cancelled through the two later questions.

**RunEventOutbox** (`RunEventOutboxProofs`).

- `TypeCorrect`.
- `NumbersUnique`, `[]SeqUnique`, by `Numbering`: an emit past `SaveRunEvent` has its row
  (`SavedInTime`), everything sent or stored was saved (`SentWasSaved`), nobody emits while the
  reconciliation numbers its events (`BootIsQuiet`), and the counter is not below a number in use
  (`CounterAhead`), which is what lets `LastRunEventSeq` restore it.
- `OutboxDelivers`, `Spec => Delivers`: RunEventOutbox implements EventDelivery. Each step maps to a
  step of EventDelivery or a stutter; `AnswersTrue` (an ack on its way is about a stored event) makes
  `ReadAck` an acknowledgement.
- `OrderIsCausal`, `[]CausalUnlessQueued`, by `Causality`: while nothing has failed, an event whose
  emit is over is stored, excepted or in the queue (`SentIsOnItsWay`), and in the queue its
  causes are before it (`OrderInFlight`).

**CommandLifecycle** (`CommandLifecycleProofs`, invariants `LifeInv` and, over it, `StopInv`).

- `TypeCorrect`, with `Handling`: a process that claims, sends, marks or refuses holds a command that
  was saved; otherwise a late statement could bring a command into being.
- `AnsweredStaysSent`, the action property `AnsweredNotPending`: from `Handling`, each statement's own
  condition on the status it sets is enough, whatever its process read before.
- `FinishedStays`, the action property `FinishedRunKept`: the agent starts only what it was sent and
  remembers it (`Working`); an event is in the outbox, on its way or stored, at one place
  (`OnePlace`), and a run has one final event, emitted by a goroutine at its end (`OneEnd`). So no
  second final event, ack or heartbeat can follow the stored one.
- `AnsweredStopHolds`, `[]AnsweredStopMeansStopped`, for any processes that dispatch and with everything
  the module has: replays, retries, expiries, heartbeats, full queues, cancelled requests, lapsed
  claims, lost connections, crashes, the disabling. `Answers` follows the agent's ack of a stop from its
  table over the link to the reader: whatever copy of it arrives is that one, and it names a run told to
  stop, which no later copy of the start revives. `ClosedStops` says how a stop gets done: by that ack,
  or by the server, and then no process holds it and it is not on its way, so the agent never answers
  it.

**HistoryUpload** (`HistoryUploadProofs`, invariant `Uploading`).

- `TypeCorrect`, `AckedIsStored` (`[]AckedChunkStored`), `DoneMeansStored` (`[]DoneIsStored`).
- `UploadsShowWholeVersions`, `Spec => ShowsWholeVersions`: HistoryUpload implements SessionHistory.
- Nothing numbers or serialises uploads; what keeps them apart is that each has its own id and at most
  one batch between agent and server (`OneUnderWay`). Hence a batch on its way is the one its upload
  sent last and the staging tables hold exactly those before it (`MessagesTrue`), the tables show one
  version up to `newest` (`TablesTrue`), and each upload is where its counters say (`InTurn`, `AfterRun`).

**AgentHub** (`AgentHubProofs`, invariant `HubInv`).

- `TypeCorrect`; `ServedIsReachable`, `[]OpenIsRegistered`, with `Registering`: a predecessor
  that a handler will close is one of its own instance, and so is what a table holds.
- `RequestsDeliveredOnce`, `[]DeliveredOnce`, with `OneTarget`: all copies of a request under way name
  the one connection that the lease named when it was dispatched, and there are none before.
- `AnswersKept`, `[]AnswerKept`, with `Holding` and `Answering`: the instance of a waiting request is up, and
  a handled answer belongs to a request that began.

**IndexSync** (`IndexSyncProofs`, invariant `IndexInv`).

- `TypeCorrect`; `SteadyScanRepairs`, `[]ScanRepairs`: a scan during which the disk has not changed has
  seen exactly what the directories behind it hold (`Walking`), and once it has saved, the index is that
  (`Settled`), while runs write what agrees with it.
- `RunStaysFound`, the action property `RunKept`: scans and runs write about one conversation under one
  of its two ids (`Reading`, `Running`), only a scan can name the file's id as the thread, and the row
  under the thread's id names the thread (`RowsTrue`). Every merge, rename and replacement then keeps
  the run that wrote last, but for the disagreement in section 4.
- `ServerCatchesUp`, `[]ServerFollows`, with `Following` beside `IndexInv`. Of the sessions, `GoesLive`:
  the last message about one that is on the disk says live, from the moment a steady refresh has
  sent its first (`Listed`); its own deletions cannot concern what it found (`Refreshing`). Of the
  conversations, `GetsKnown`: the server has a row, a message on its way has one, a run that
  created it will say so, or its session is live, from the second message on (`Told`). What a run
  writes meanwhile needs no message: under the thread's own id it writes only where the server has a row already
  or its event will make one (`UnderThread`, `RunKnown`), and a run that resumes found the
  conversation in the index (`Indexed`). The server keeps one conversation's rows apart from another's
  (`ServerRowsTrue`), or it could take the wrong one for an update.

**DashFeed** with RunProjections (`DashFeedProofs`, invariant `FeedInv`).

- `TypeCorrect`; `ProjectionsComplete`, `[]TablesComplete`; `ProjectionsMirror`, `[]MatchesMirror`. A
  rebuild clears and writes one table after the other, and the properties are about its end:
  `Projecting` says at every statement of a rebuild that has the run to itself which events each
  table stands for (`TablesSoFar`, `MirrorSoFar`), and that a rebuild which is not alone has torn the tables.
  `ReadLocked` and `ReadBefore` say that a row read before it is written is still the last one.
- `FeedSkipsNothing`, `[]NothingSkipped`; `SnapshotsAreWhole`, `[]SnapshotWhole`. `Feeding` follows an
  event from the reader over the buses to the page: events that come in order are stored and broadcast
  in order (`InTurn`); one that is on its way is above the subscription's cursor or covered by the
  snapshot (`Wanted`), also while a broadcast that found it acceptable has not handed it over; and at
  each of the four reads of a snapshot, what it will lack is on its way, or was lost for a named reason
  (`RunFed`, `SessionFed`).

**Assumed:** the named assumptions of each module about its constants, which TLC evaluates in every run,
and the conditions named above. Most only say which set a constant belongs to. Those that say more: a
start is not a stop; a session's upload after a run is followed by one `post` upload of its own
(`UploadAssumption`); two conversations share no id (`IndexAssumption`, ids are UUIDs); without Redis
there is one connection's instance (`DashFeedAssumption`); the values that stand for "none" are none of
the others. With SQL errors `NothingStaysRunning` does not hold: a failed projection leaves its row as
it was.

**Model-checked only**: liveness, which needs `ENABLED` and is out of the prover's reach: `StopEndsRun`,
`EventuallyDelivered`, `RunSettles`, `LeaseReturns`, `DisabledGoesOffline`, `FeedCatchesUp`.

Induction over data is out of the prover's reach too: the lemma `MirrorUnfolds` shows that the
recursive function `Mirror` exists by the largest prefix of the script for which it does, and the
proofs then use its equation, one event at a time.

## 6. Plan

Done: all modules of section 2, and the theorems of section 5. Left:

1. **Composition**: RunManager's acks and events as the agent of CommandLifecycle, in place of the
   abstract one.
2. The **workspace notifier** with the broker's requests, and **approvals** once a runtime raises one.
3. Access: enabling an agent again while its commands are pending, capabilities and credentials.

The number of runs is kept small: a new module brings one run that checks safety and
liveness together; behaviours that are documented by now are kept as configurations.

## 7. Not modelled

Approvals: only the tool executor would ask for one, and nothing wires it in. The notifier: a
throttle before one message. File and git operations, secure store, process trees,
configuration and packaging (pure I/O); users, keys, sign-in, audit (single transactions);
cryptography (a signed envelope arrives as sent or not at all); the parsing of output lines
and of session files beyond the ids; projects; the dashboard's views other than the page of a
run. `PROJECT.json`, `components`, gives the reason for each, and what of a partly
modelled component is missing.
