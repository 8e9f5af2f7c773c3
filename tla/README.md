# codex-link-clawbot: a TLA+ model

The service bridges a WeChat account to a local Codex App Server.  A message
becomes a durable *request*, runs as a Codex *turn* on a *thread*, and its result
is frozen, delivered and kept for a while.  A local console shows the same
requests, retries and redelivers them, selects and archives conversations.

This directory holds TLA+ modules of the parts where the order of steps decides
whether that is right, the TLC configurations that check them on small
instances, and TLAPS proofs.  `PROJECT.json` maps every definition to the lines
it models and lists runs, mutants, findings, hazards and theorems.

## 1. The system

| Part | State | Operations | Talks to |
|---|---|---|---|
| `core/request` | index in memory (requests, rejected and cleared sources), SQLite tables, one private directory per request | Start, Retry, Attach*, CompleteExecution, FreezeResult, BeginDelivery, CompleteDelivery, BeginRedelivery, RecordDelivery, Finish, Release, Reject, CleanupExpired, startup recovery | everyone calls it; one mutex |
| `core/execution` | table of admissions (session held, request, cancel requested, finalizing), draining flag | Begin, Launch, Release, Cancel, SetDraining, Run, WithIdleSession; Runner.Execute | request store, targets, threads, Codex, channel |
| `core/target`, `core/conversation` | intents (workspace, thread) and the current one per workspace, selection revision | Capture, Bind, Select, Create, ClearThread; Archive, Interrupt | execution, Codex |
| `core/thread` | short-lived directory cache with a revision | OpenTaskThread, GlobalList, Invalidate | Codex |
| `core/runtimecontrol` | draining, ingress count, monitor probes | Drain, Resume, Snapshot | coordinator, monitor |
| `core/delivery` | pending notices per owner | Enqueue, List, Complete | channel, flush |
| `adapters/wechat` | drafts, menus with receipts, message contexts | startCodexTask, Retry, Redeliver, draft commands | all of `core` |
| `adapters/wechat/ilink` | cursor, pending cursor, receipts of a partial batch | Run, processBatch | WeChat |
| `adapters/appserver` | rpc table, turn channel per thread, cached thread status | chatTurn, collectTurn, interruptAndConfirm | the Codex child process |
| `adapters/management`, `cli`, `platform`, `app` | sessions, deployment receipts, state files, leases | HTTP, deployment, wiring | |

What is hard here: handlers, executor goroutines, the console and the monitor run
concurrently and share the admission table and the request store, each behind a
lock of its own; the state read under one lock is used under the next.  The
process may die between any two transactions or file operations.  Saves fail.
Calls to Codex time out although Codex acted on them.  WeChat and the console
deliver the same instruction again.  Retention deadlines pass while the service
is down.  The list, line by line, is `hazards` in `PROJECT.json`.

What makes the parts correct:

- request store: a source is executed at most once while its history is kept;
  completed work stays completed; only unfinished work can be retried; one active
  request per session; memory does not run ahead of the disk; a startup succeeds
  whenever the process died; a delivery operation sends at most once and one that
  was cut off is shown as unconfirmed; the result quota is kept.
- execution: one executor per thread; no turn over a turn; a request shown as
  cancelled has stopped; an accepted cancel is answered; no request is left
  active with nobody working on it; a cancel and a shutdown come to an end.
- conversations: a stale choice is never applied over a later one; a request works
  on the conversation it was accepted for; Create leaves no thread behind; the
  directory does not show what was changed.
- ingress: every message is handled in the end, none is skipped, none takes effect
  twice; the unlock code never becomes work; a draft is kept and submitted once.
- drain and deployment: when a drain is reported complete nothing runs; no rollback
  destroys what was handled; the receipt is honest; the service opens again.
- turn client: what a call says of its turn is so; it returns.
- delivery: the recorded outcome is what the user sees; notices are neither lost nor
  shown twice.

## 2. Modules

| Module | Models |
|---|---|
| `RequestStore` | `core/request` with its tables and directories |
| `RequestLifecycle` | what that store promises of one request: an abstract specification |
| `RequestStoreProofs` | types, sessions and quota of `RequestStore`, memory against disk, and that it implements `RequestLifecycle`, proved |
| `RequestHistoryProofs` | what `RequestStore` remembers: one send per operation, retries, sources; that it can be opened again and settles deliveries, proved |
| `Execution` | `core/execution` with its two ways in |
| `Targets` | `core/target`, `core/conversation`, `core/thread` and the executor's use of them |
| `Ingress` | the monitor, `HandleMessage`, menus, remote lock and drafts, up to the record of a request |
| `Deployment` | the deploy, restart and stop commands, systemd, `core/runtimecontrol` and the service's start |
| `TurnClient` | `adapters/appserver` during a turn, with the progress reporter |
| `Delivery` | how a result goes out, `core/delivery` and the flush of notices |
| `TargetsProofs`, `ExecutionProofs`, `IngressProofs`, `DeploymentProofs`, `TurnClientProofs`, `DeliveryProofs` | the safety properties of these modules, proved |
| `MC*` | their instances for TLC |

The modules meet at the request store: `Execution`, `Ingress` and `Deployment` use the
operations `RequestStore` specifies (one transaction each, failing as a whole), and
`Execution` sees Codex as `TurnClient` shows it (a turn ends, or its end is
unconfirmed), delivery as one outcome of `Delivery`, and a target as an intent of
`Targets`.

### RequestStore

`mem` is `Store.state`, `db` the tables, `dirs` and `outputs` the private
directories and the registered output files that are intact.  Every operation
runs under `Store.mu`.  Operations that are one transaction are one action.
Start, CleanupExpired, Release and startup are several transactions and file
operations; `lock` says which of them holds the mutex and how far it got, and
`Crash` or `StepFails` may come between any two steps:

    Start / Retry   rows -> receipts -> files -> history -> admit -> commit
    CleanupExpired  rows -> receipts -> files -> history
    startup         recover (each request) -> rows -> ... -> history -> save
    Release         commit -> remove

`Save(m, d)` is `saveLocked`: it validates the whole index and writes it together
with the extra rows of the operation; a save that fails changes nothing and is
a stuttering step, except in `CompleteExecution`, which then keeps the completion
in memory on purpose (`CompleteExecutionUnsaved`), in Start, which removes the
files it staged, and at startup, which ends the process.  Deleting a request row
cascades to its input, completion and result rows (`Persist`).  The callers are
arbitrary: the model does not rely on the runner calling things in order, with one
exception stated at `CompleteExecution`.

`born` and `sends` are history variables: who was admitted when, and how many sends
each delivery operation started.

Data is abstracted to what the properties tell apart: a payload is `raw`, `ready`
or `none`, a result has a size and either has registered files or not, time is
counted in ticks with 0 for "never" as in the columns, display fields are left
out, and the reason of a failure is one bit (`unconfirmed`).  The bound on input
bytes is the choice `StepFails` makes at step `admit`.

### RequestLifecycle

The status of each request (unborn, executing, completed, delivering, the four
terminal states, forgotten) and the edges between them.  `ImplementsLifecycle`
maps the *durable* record (`db.task`) to it: across crashes, failed saves and
startups the record on disk only moves along an edge.

### Execution

A call is one invocation of `startCodexTask` or `Runtime.Retry`; `pc` follows it
through its handler and through the executor goroutine it launches.  A step is what
happens under one lock or one remote call, so that what the code reads before and
uses after a lock is stale here too: the intent captured before `Begin`, the thread
resolved before `Bind` and attached later, the context checked before `finalize`.
`adm` is the admission table.  Loops over Go maps (`begin`, `Cancel`) visit the
admissions in any order.  Failing saves are bounded by `MaxFaults`.  Codex is
external: it keeps threads, may end a turn at any moment in any way or never, and
may act on a `turn/start` whose answer is lost.  `Restart` is a crash or the end of
a shutdown followed by a startup; what was being handled may be delivered again.

### Targets

`sel` is the owner's row (intents, current workspace, selection per workspace) and
`rev` the revision `SelectThread` compares.  A caller (the menu or a console
handler) has one of Select, Create, Rename, Archive, SelectWorkspace,
NewConversation, Remember and the listing under way; a runner takes one request from
Capture over Begin, OpenTaskThread, Bind and Attach to the turn.  Calls of Codex fail, or take
effect and lose their answer.  `cache` and `catRev` are the directory and its
revision.  `moved`, `stray` and `unseen` are history: selections that came in between,
threads a failed call left behind, changes whose call reported an error.

### Ingress

WeChat holds the messages and answers a cursor with a batch, again until a later
cursor is presented.  `pc` follows the one handler goroutine from save to save.  A
message has a kind, one of those `HandleMessage` distinguishes, and may lack an
identifier.  The tables are `sync` (cursor, pending cursor, receipts), `receipts` (menu
messages), `draft` and `added` (draft and its receipts), `requests`.  `Execute` is
one action of the menu: whether it selects another conversation, locks the entrance,
changes something elsewhere, and which page it leads to.

### Deployment

The service is a version, its draining and hold flags, its ingress count and the
message it handles; the state root is its format version and the messages on record;
systemd knows the unit it has loaded and whether the service is to run.  The deployer
goes from the drain over snapshot, migration, unit, binary, start and verification to the commit,
or through the rollback.  Each step may fail with or without effect, and the command
may die.  Meanwhile the console drains and resumes, a retry comes from the console, and
the restart and stop commands run.

### TurnClient

Codex writes answers and notifications on one pipe; `Read` is the read loop, `Dispatch`
puts an event into the thread's channel of `Cap` events or drops it.  `pc` follows a call
through resume, registration of its channel, `turn/start`, `collectTurn`, interruption
and confirmation.  Another call or another client runs a turn on the same thread.

### Delivery

A job is one request whose execution ends, or which is redelivered; its result has
files, a body (brief, pages, reading cards, voice) and image links.  Each message is
accepted, refused, lost (then it may be visible or not), or cannot be uploaded; `seen` is
what the user has really seen.  The notice store is `mem` and `disk`; a flush lists, sends
and completes, guarded by `noticeSending`.  Notices of one second have no order: the
table is read back by creation time and random identifier.

## 3. Runs

Passing runs (states are distinct states found):

| Run | Instance | Shows |
|---|---|---|
| `pair` | 2 requests, 2 sources, 1 intent, 1 thread, quota for one running request and one kept result, clock to 2 with retentions of one tick, input downloaded before admission (`Pendings`); 1.4 M states | `TypeOK`, `OneActivePerSession`, `RetryOnlyUnfinished`, `QuotaKept`, `MemoryFollowsDisk` |
| `retention` | 2 requests on 1 source, clock to 4 with retentions 1, 2 and 3, 2 redelivery operations with a limit of 2 attempts, one request's files may be damaged; 1.8 M | `SentAtMostOnce`, `OneFatePerSource`, `RestartSafe`, `ImplementsLifecycle`, `RestartSettlesDelivery` |
| `messages` | 2 messages, 2 intents, 2 threads, 1 failed save, 1 restart; 740 k | `TypeOK`, `OneExecutorPerThread`, `ReplyIsKept`, `CancelIsAnswered`, `NoneAbandoned` |
| `retries` | 1 message, 2 deliveries of one recovery operation, 1 intent, 1 restart, weak fairness; 375 k | `OneTurnPerSource`, `NoTurnOverTurn`, `CancelEnds`, `ShutdownEnds` |
| `targets` | 2 callers with 3 operations, 2 requests, 2 workspaces, 2 threads, 3 intents, 1 fault, 1 crash; 570 k | `TypeOK`, `NoOrphan`, `CacheFollowsChanges`, `NoRevival`, `WorkKeepsItsConversation`, `NoStaleSelection` |
| `ingress` | 3 messages of 6 kinds, 2 intents, 1 failure or crash, 1 step of the console; 6.7 M | `NoMessageSkipped`, `EffectOnce`, `CodeNeverWork`, `DraftKept` |
| `intake` | 2 messages of all 11 kinds, with and without identifier, 2 failures or crashes, weak fairness; 650 k | `MessageHandled` |
| `deploy` | 2 messages, 3 faults, 2 steps of others, weak fairness; 610 k | `NothingLost`, `ReceiptIsHonest`, `DrainIsReal`, `Reopens` |
| `turnclient` | 1 call, 1 other turn, 2 messages per turn, channel of 2, 1 exit of Codex, weak fairness; 1.2 M | `TellsTheTurn`, `NoLateNotice`, `CallReturns` |
| `delivery` | 1 request, results of 1 file, 2 pages and 1 image, 2 flushes, 2 notices with a lifetime of 2 ticks and 1 per digest, 1 failed save or crash; 6.3 M | `OutcomeIsHonest`, `NoticeKept`, `NoticeSeenOnce` |

Why the bounds are enough.  Two requests are the fewest that can compete for a
session, a source or the quota, and no operation relates three.  In `retention` the clock
runs one tick past the longest retention, and the three retentions differ so that input,
result and history expire one after the other; in `pair` it runs one tick past the
retention of a result, which is what a late recovery takes.  Two operations and a limit of two
attempts make the limit reachable.  Two messages on two intents and two threads
reach the case in which two intents lead to one thread.  One restart suffices because
it forgets everything but the store, the intents and Codex's threads.  A selection and
its return (ABA) are two operations of one caller against one of the other; two requests
on one intent are the fewest in which one gives the intent its thread after the other was
admitted.  Three
messages are a draft piece, its submission and one more that changes page or target;
two make a batch that is handled in part.  Three faults in a deployment are a failure of
a step, one of the rollback and one of the service.  A channel of two overflows with
three events.  One file, two pages and one image put every kind of part before and after a
failure.  Symmetry is used for model values no definition tells apart, and
never with a liveness property.

Fairness.  `Execution`: handlers and executors go on, because every remote call
they make has a timeout (10 s for `turn/start`, 12 s for an interruption, 30 s
for a delivery, 10 s for a notice) or, like `thread/resume`, ends with the
context, which is what a cancel and a shutdown end.  The wait for a turn has no
timeout, and the model gives it none.  `Ingress`: the monitor's loop goes on after
each failure and the timer of `app.go` prunes drafts; crashes and failures are bounded.
`Deployment`: every wait of the command has a deadline, and systemd starts what is to
run; nothing is assumed of messages or of other users.  `TurnClient`: the client's goroutines go
on and a `select` takes a case that stays ready; nothing is assumed of Codex, not
even that it answers.  A system may stop (`CHECK_DEADLOCK FALSE`) where the bounds on
calls, messages or faults are used up.

What the properties except, because the code does not give it:

- `RestartSafe`: a result that expired during a downtime.  If the startup after it
  dies between the removal of the files and its last save (`lifecycle.go:420`,
  `store.go:54`), the database holds an active request without its files and no later
  startup succeeds.
- `QuotaKept`: requests that were at work for the whole retention of a result.  The
  result is frozen with an expiry counted from the completion (`result.go:136`), but when
  startup ends an active request it sets the completion to the time of the freezing and the
  expiry to a full retention after that (`lifecycle.go:293`-`296`).  So an expired result of
  a request that was still active comes back and is counted again, after other requests have
  been admitted on its room, and the total may exceed the quota until results expire.
  `docs/design/sqlite-storage.md:66` says that a result is kept for seven days from the
  completion, and a few lines below that recovery does not extend the retention.  Without
  the exception (`Overdue`) TLC refutes `QuotaKept` on the instance of `pair`: the request
  completes, the clock ticks, the result is frozen with its time over, the next request is
  admitted and completes, and after a crash both are counted.
- `NoneAbandoned`: a failed save, a shutdown, and a cancelled execution that ended with
  an error of its own (`runner.go:151`), whose request stays running until the next restart.
- `OneTurnPerSource` holds although two deliveries of one recovery operation may launch
  two executors (`recovery.go:91`): the second fails at the outbox and only reports.
- `NoTurnOverTurn` is checked for one intent.  With two intents on one thread it also
  rests on the cached thread status, which may be older than the running turn.
- `CancelIsAnswered`: an executor that a repeated recovery operation launched on the
  request of the first; a cancel it accepts finds nothing left to stop.
- `NoRevival` protects the threads requests were admitted with.  A request whose intent
  gets its thread from another request later holds an admission that names no thread, and
  `WithIdleSession` does not see it until `AttachThread` (`coordinator.go:76`).
- `EffectOnce`: a draft text that spells the unlock code and is delivered again in a new
  session, while the entrance is locked and the unlock page is open, unlocks as well.
- `NoOrphan`, `CacheFollowsChanges`: threads and changes of a call of Codex that reported an
  error.
- `MessageHandled`: WeChat answers the pending cursor with a longer batch (`Wedged`); the
  monitor then refuses every batch until the session expires (`monitor.go:191`).
- `NothingLost`, `DrainIsReal`, `Reopens`: somebody else drains, resumes or stops
  the service during the deployment; a console retry admitted before the drain, which
  ingress does not count (`controller.go:185`); an operation that took effect although it
  was reported as failed.
- `TellsTheTurn`, `CallReturns`: an event that found the channel full (`events.go:266`).
- `NoticeSeenOnce`: the completion of a flush was lost.

Runs that TLC refutes, each against a sentence of the docs (`findings`):

| Run | Property | What the code does |
|---|---|---|
| `wrongcancel` | `CancelHitsItsRequest` | a cancel is taken by the admission of another request |
| `rerun` | `UnknownNotRerun` | a request whose turn runs or completed unseen can be retried |

## 4. Proofs

Each theorem holds for every value of the constants that satisfies the assumptions of
its module: bounds are natural numbers, the retentions are positive and ordered, `None`
is not a name, a retry and a message have different sources, identifiers of requests are
finitely many (they have a fixed length), and turns have identifiers of their own.  The
runs check the same properties on their instances.

| Module | Theorem | Property |
|---|---|---|
| `RequestStoreProofs` | `TypeCorrect` | `TypeOK` |
| | `SessionsExclusive` | `OneActivePerSession` |
| | `MemoryCorrect` | `MemoryFollowsDisk` |
| | `LifecycleRefined` | `ImplementsLifecycle`, a refinement |
| | `WithinQuota` | `QuotaKept` |
| `RequestHistoryProofs` | `SendsOnce` | `SentAtMostOnce` |
| | `RetriesUnfinished` | `RetryOnlyUnfinished` |
| | `SourcesOnce` | `OneFatePerSource` |
| | `RestartsSafely` | `RestartSafe` |
| | `DeliveriesSettled` | `RestartSettlesDelivery`, an action property |
| `TargetsProofs` | `TargetsTypes` | `TypeOK` |
| | `ConversationKept` | `WorkKeepsItsConversation` |
| | `NotArchivedUnderWork` | `NoRevival` |
| | `ThreadsOwned` | `NoOrphan` |
| | `CacheIsCurrent` | `CacheFollowsChanges` |
| | `SelectionsFresh` | `NoStaleSelection`, an action property |
| `ExecutionProofs` | `ExecutionTypes` | `TypeOK` |
| | `TurnsOnce` | `OneTurnPerSource` |
| | `ExecutorsApart` | `OneExecutorPerThread` |
| | `RepliesKept` | `ReplyIsKept` |
| | `CancelsAnswered` | `CancelIsAnswered` |
| | `NothingAbandoned` | `NoneAbandoned` |
| | `TurnsApart` | `NoTurnOverTurn`, for one intent |
| `IngressProofs` | `MessagesNotSkipped` | `NoMessageSkipped` |
| | `MessagesActOnce` | `EffectOnce` |
| | `CodesKeptBack` | `CodeNeverWork` |
| | `DraftsKept` | `DraftKept` |
| `DeploymentProofs` | `MessagesSurvive` | `NothingLost` |
| | `ReceiptsHonest` | `ReceiptIsHonest` |
| | `DrainsReal` | `DrainIsReal`, an action property |
| `TurnClientProofs` | `RepliesTellTheTurn` | `TellsTheTurn` |
| | `NoticesComeInTime` | `NoLateNotice` |
| `DeliveryProofs` | `OutcomesHonest` | `OutcomeIsHonest` |
| | `NoticesKept` | `NoticeKept` |
| | `NoticesSeenOnce` | `NoticeSeenOnce` |

The shape is the same in all of them.  None of the properties is inductive; the
invariant of the module is, and TLC checked its parts on the instances of the runs
before they were proved.  Where many actions can disturb a property, an operator
(`Effect`, `FileEffect`) says once what a step may do to the state the property speaks
of; each action is shown to have that effect, and the property is derived from the
effect alone.

*Sessions.*  A step either saves, and then `ValidIndex` was checked of what memory and
disk both hold afterwards (`SavedIsOneActive`), or it saves nothing, and then it can
only end requests in memory or mark them completed (`UnsavedIsOneActive`).

*Life cycle.*  A save writes every task row as memory has it, also those the operation
did not touch: after a completion that could not be stored, any later save brings it
to disk.  So what the disk may become depends on how memory may differ from it.
`MemoryFollowsDisk` says how, and it is inductive only as part of

    IInv == TypeOK /\ now # 0 /\ MemoryFollowsDisk /\ RowsAgree /\ LockAgrees

- `RowsAgree`: an identifier that was not drawn has no row; no result row without a
  request; a running request with a frozen result, and one being delivered, is *on
  disk* known to have completed.  Without it `BeginDelivery` could take a request
  whose completion only memory knows from executing straight to delivering, and
  startup could interrupt a delivery.
- `LockAgrees`: recovery steps belong to a startup and removals to a Release; the
  request `Start` is about to record is new.
- `now # 0`: a completion is never stored with the time that means "not completed".
  `HistoryRetention >= 1` is used once: a request startup has just ended is not
  outdated when the cleanup of the same startup runs.

`Good(i, t, r)` says that the row `t` is a lawful successor of the stored row of `i`.
`KeptIsGood` shows it of memory's row as it is, `TransitionIsOK` and `ForgottenIsGood`
of the rows transitions and forgetting write; `SaveIsOK` turns lawful rows into a
lawful step, `StillIsOK` handles the steps that leave the requests alone, and
`StepNext` goes through the actions.

*History* (`HInv == IInv /\ Origins /\ Archived /\ SendsRecorded /\ History`).  `Effect`
says how a step may move a request (it stays, continues, goes, or is admitted), its
result and the receipts of its source, and when the disk follows.  `SendsRecorded`: a
send that was started is on record, the first in the state of the request and a
later one among the attempts, until both are gone for good; hence a second one is
refused.  `Archived`: a frozen result belongs to no request that is missing one,
without which a request shown as over could be frozen and sent again.  `Origins`: the
origin of a retry is and remains retryable, also between the check in `Start` and its
commit.  `History`: while the history of a request is kept, its row or a receipt of its
source is there, in memory and on disk; a receipt replaces a row at the row's own time.

*Restart* (`RInv == HInv /\ Payloads /\ Outputs /\ Decided /\ LockHolds /\ Settling`).
`FileEffect` says when directories, inputs, registered files and results may go.
`Payloads`: a request has its directory and input while they are kept, and its frozen
result from the archiving on; `Outputs`: the files of an active request go only if the result
has expired, which is the exception `RestartSafe` states; `Decided` and `Settling` say
what startup has settled between its steps.

*Quota* (`IInv /\ QInv`).  The sum over the requests is a recursive function over the
subsets of the finite set of identifiers; induction over cardinalities, stated with a set
instead of an operator (`SetInduction`), gives `SumOver`, and from it that the sum does not
grow when no request counts more (`SumShrinks`) and grows by no more than what one request
adds (`SumGrows`).  So every action but two only has to move each request on its own
(`Moves`); the two are the commit of `Start`, which uses the room found before
(`ResultBytes(mem) + Room <= MaxResultBytes` while it is under way), and
`FreezeResult`, which checks.  `QInv` asks the same of the disk, because a startup counts
what is stored, and says what a request recovered from a row counts (`Dated`): an attempt
to prove that recovery never counts more is how the exception of section 3 was found.

*Targets* (`TInv`).  The parts speak of one process: where it is in its operation, that
its thread exists, what its admission holds (`HoldOK`), that the revision it read is no
newer than the store's, and older if the selection moved (`StaleOK`), which threads it
has made and not handed over.  `Exclusive` keeps admissions of one session apart.  What
other processes do meanwhile is `Effect(p)`.  The attempt to prove `NoRevival` as it
stood failed for a good reason and led to the second request of the run and the
exception of section 3.

*Execution* (`EInv == TypeOK /\ Apart /\ Counted /\ \A c : CallOK(c)`).  An active
request is worked on by the call that created it (`RequestOK`); a call launched on
somebody else's request finds it over (`ForeignOK`), which is why two deliveries of one
recovery operation start one turn.  `StageOK` and `OverOK` say what is recorded at each
point of an execution and once it is left.  For one intent, `SInv` adds that
the turns of the session are on the bound thread and that one that may still run
is what `sessionActivity` asks for.

*Ingress* (`IInv`).  `Cursors`: a cursor that is stored, held or presented has only handled
messages before it.  `Place`: so has the message being handled in its batch.
`Marks`: what acted has a receipt of the menus, one of the drafts or a request.  `Step`:
what the handler has established of its message when it gets to a save.  `Pieces`: the
draft shares pieces with a request only while it is the one submitted there.

*Deployment* (`DInv`).  `Files` and `Receipts` tie binary, unit, loaded unit, state root,
snapshot and receipt to the step of the deployer.  `Guard`: from the stop of the old
service until its restoration only a process that holds its messages runs, and systemd
starts only such a one.  `Kept`: until the restoration what was handled is in the state
root and, unless excepted, in the snapshot.  `Read`: what
`waitForDrain` has read of the controller still holds, until somebody opens the service.

*Turn client* (`TInv` of `TurnClientProofs`).  The events of a call's turn that it has not
collected lie in its channel and in the pipe, its *feed*.  The feed is in order and each
event in it is true of the turn (`InOrder`): messages come one after the other, each
started before it is completed, the terminal event last.  `Heard(s, c, t, m, r, k)` says
that of turn `t` the first `k` messages are collected, that they make the parts the
call has, and that the feed has what is known of the others; a call from which no event was
dropped always has such a `k` (`Followed`).  When the terminal event is at the head of the feed
nothing follows it, so `k` is the number of messages and the parts are what `ReadTurn`
says of the turn (`Replies`).  `Called` keeps the channels apart: whoever listens is
registered for the thread, whoever does not has an empty channel.  What an interruption
reports was read from the turn itself.  `NoLateNotice` needs only that a reporter that
was closed sends nothing (`Quiet`).

*Delivery*.  Results and notices share only the step that defers a notice, so there are
two invariants.  `JInv` says of each result what its report stands for: whatever
may have been seen is in the report, or belongs to a batch that is still going out
(`AccountOK`); the body has been seen in at most the form it is being sent in, and in none
when a batch gives way to a text (`OneFormOK`); and while nothing has failed, all that
went before was seen (`CompleteOK`).  `NInv`: memory is what the table holds, each notice with
an identifier of its own (`Accepted`); one flush at a time has notices in hand, and what it
completes it has tried (`OneFlush`); a notice the user has seen is gone or about to be
removed, and one being sent was not seen, but for lost completions (`Told`).

Only model-checked is liveness (`CancelEnds`, `ShutdownEnds`, `MessageHandled`, `Reopens`,
`CallReturns`), which needs fairness and `ENABLED`.

## 5. Not modelled

Rendering, speech, upload and download of media, HTTP, configuration and migration: no
shared state whose order matters.  SQLite is taken to commit or to fail as a whole, and
the replacement of a state file to happen or not.  One owner is modelled, as an
instance serves one binding.  A clock that steps back is not.  Preferences,
workspaces and presentation are key-value stores, path checks and formatting.
Read-only listings are left out, except the cached directory of threads.
`RestoreResult` reads a completed turn again and changes state only by `FreezeResult` of a
request whose archive failed, which is an action of `RequestStore`.

## 6. Plan

1. Done: the modules of section 2 and their runs; the proofs of section 4.
2. Open: the liveness properties, which the prover cannot reason about.
3. State files with their lease, if a property of theirs proves worth checking.
