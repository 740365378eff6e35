# AgenticChatbot: a verification project in TLA+

AgenticChatbot is a FastAPI server that streams answers of LLM agents to chat
clients. Several server processes share one PostgreSQL database, one Redis and a
set of Celery workers; a turn can be stopped from another process, paused at its
budget and continued, paused for a tool approval and resumed, and it must leave
the database in order whatever is cancelled, lost, retried or crashed on the
way. This project models the parts of the server that carry that burden, checks
them with TLC on small instances and proves, with TLAPS, every safety property of
the passing runs for instances of every size.

Paths are relative to the repository (`src/`), lines refer to its commit. The
definition-by-definition correspondence is in `PROJECT.json` under `map`.

## Inventory

| Component | State | Operations | What is hard | What makes it correct |
|---|---|---|---|---|
| **Generation rows** (`app/models/generation.py`, `repositories/generation.py`) | one row per turn: status, version, epoch, producer, continuation on offer, block reason; a command ledger | inserts and UPDATEs fenced by version and status; claim and record of commands | writers on several processes; a partial unique index is the only mutual exclusion that survives a crash | one busy turn per conversation; no status ever goes back |
| **Lifecycle service** (`services/generation_control_service.py`) | none of its own | mark running, continuable, stopped, failed, completed, resumed; request stop; lease a continuation | read, claim, decide, record are separate transactions | one answer per idempotency key; one epoch per continuation; a refused write changes nothing |
| **Registry, bus, subscriber** (`generation_registry.py`, `generation_control_bus.py`, `generation_stop_subscriber.py`) | in-flight entries per process (TTL cache); signals in transit | register, remove, cancel; publish, handle | signals are lost or late and name only a generation | a cancel only reaches a turn that was stopped; a Stop works without any signal (through the watch of the streamed turn) |
| **Reaper, lifespan** (`generation_reaper.py`, `core/producer_identity.py`, `main.py`) | which processes live | boot and reclaim, shut down | liveness is three-valued; processes boot beside live ones | no row is taken from a live worker |
| **Streamed turn** (`services/message_service.py`, `utils/cancellation.py`) | the generator, the work it shields, the reserved message id, the held snapshot | open, stream, pause, finish, stop, fail, clean up | CancelledError at any await, repeatedly; every write may fail | it ends; it settles its row; it stores before it settles; it keeps what the user saw |
| **Conversation compaction** (`repositories/conversation_compaction.py`, `workers/conversation_compaction.py`, `ai/conversation_compactor.py`, `ai/request_compaction.py`) | one job, one memory row, leases, notifications | persist, edit, delete, backfill, claim, load, summarise, compare-and-set, complete, fail, reconcile | lease expiry under a slow provider call, edits during a run, lost notifications, crashed workers | memory equals the transcript it covers; no reply is forgotten; attempts are bounded; a job settles |
| **Turn lock** (`conversation_turn_coordinator.py`) | advisory locks held in open transactions | acquire, release | a dropped connection loses the lock unnoticed; release closes whatever session is stored under the conversation | what it protects stays safe when it is lost |
| **Approval interrupts** (`repositories/hitl_interrupt.py`, the resume half of `message_service.py`, `checkpoint_retention_service.py`) | pending, resolving, resolved, failed, expired; the row; the checkpoint thread | ask, validate, reclaim the row, claim, run, resolve, fail, expire, sweep | two decisions, a Stop or expiry between validation and claim, a client that leaves at any await | one decision wins and runs once, under its own claim and row, with its checkpoint |
| **Client runtime** (`client_runtime_store.py`, `api/device_runtime.py`, `client_device_service.py`, `ai/client_runtime_tools.py`, `client_backend/services/runtime_bridge.py`) | session record, request queue, pending set, withdrawal markers, results; sockets; the sidecar's catalog mirror and running tasks | register, connect, heartbeat, publish catalogs, dispatch, withdraw, cancel, answer, end | reconnects beside a dead gateway, read-modify-write of the record, late pushes, late results | "never ran" is only said of calls that never run; a withdrawn call stays off the device |
| **Documents** (`document_processing_service.py`, `document_index_service.py`, `workers/document_processor.py`) | parse artifacts, index generations | parse, index, activate, delete | two workers on one document, deletion during indexing | only a complete generation is active |
| **Tool execution** (`ai/tool_execution.py`, `tool_execution_receipt_service.py`, `ai/workflow/middleware.py`) | receipts of mutating calls | reserve, replay, attempt, retry, record | a crash, a timeout or a second execution between the effect and the receipt | a mutation is not repeated blindly |
| **Model usage** (`services/model_usage_service.py`, `workers/model_usage.py`) | operations and attempts | record, retry, reconcile | late and duplicate writes | every attempt counted once |

Interaction: a request handler of `MessageService` opens a row through the
lifecycle service, registers an entry, drives the agent graph and settles the
row; a Stop or Continue on any process goes through the same rows, and through
the bus to the process that runs the turn. Replies it stores go through the
message repository, whose transaction also requests compaction; Celery workers
lease that request and write the memory the next prompt reads. A tool call of
the graph that mutates goes through a receipt; one that belongs to the user's
device goes through Redis to the process that holds the device's socket; one
that needs approval pauses the row and leaves an interrupt, which a later
request claims to resume the graph from its checkpoint.

## Modules

| Module | Models | Composes |
|---|---|---|
| `GenerationRows` | the row type, its fence and every write to it, as operators | |
| `GenerationControl` | processes, requests, registry, bus, reaper and command ledger over any number of rows | `GenerationRows`, refines `GenerationLifecycle` |
| `GenerationLifecycle` | abstract: what the rows of a turn may do, whoever writes them | |
| `GenerationRowsProofs` | lemmas about the writes of a row, for the three modules that make them | |
| `GenerationControlProofs` | typing and refinement of `GenerationControl` | `GenerationRowsProofs` |
| `GenerationOwnershipProofs` | who may write a row, and what commands may answer: the safety invariants of `GenerationControl` | `GenerationControlProofs` |
| `TurnStream` | one streamed user turn at the grain of its awaits and failing writes | `GenerationRows` |
| `TurnStreamProofs` | theorems about `TurnStream` | `GenerationRowsProofs` |
| `ConversationCompaction` | one conversation's transcript, summary job, memory and the runs that build it | |
| `ConversationCompactionProofs` | theorems about `ConversationCompaction` | |
| `ApprovalResume` | one turn that asks for approvals, the resumes that answer them, Stop, expiry, retention and the turn lock | `GenerationRows` |
| `ApprovalResumeProofs` | theorems about `ApprovalResume` | `GenerationRowsProofs` |
| `MutationReceipts` | one mutating tool call: its receipt, overlapping executions, attempts and the tool | |
| `MutationReceiptsProofs` | theorems about `MutationReceipts` | |
| `DeviceRuntime` | one device: Redis, the callers, the gateways, the sockets and the sidecar | |
| `DeviceRuntimeProofs` | theorems about `DeviceRuntime` | |
| `MCGenerationControl`, `MCConversationCompaction`, `MCMutationReceipts` | constants and symmetry for TLC | |

### GenerationRows and GenerationControl

A row keeps its status, version, epoch, producer and block reason.
`continuation_available` and `continuation_id` change together, so one number
stands for both: 0, or the version at which the id was minted. Timestamps,
budgets, message ids and reasons are left out. Every write is an operator on a
row, used under `Matches`, the WHERE clause of `atransition`; the one write with
no version in its WHERE is `FailActive`, the reaper's.

A *task* of `GenerationControl` is one HTTP request: a user turn, a Stop, a
Continue or an approval resume. Its `pc` names the next await that touches
shared state:

| Task | Steps |
|---|---|
| turn | `StartTurn` (insert) → `EnterRunning` → streaming → `EndStream` → `Settle` [→ `Reread` → `Retry`] |
| Stop | `SendStop` (read) → `ClaimCommand` → `DecideStop` → `PublishStop` → `RecordResult` → `CancelLocally` |
| Continue | `SendContinue` (read) → `ClaimCommand` → `Lease` → `RecordResult` → streaming → … |
| resume | `SendResume` (read) → `Reclaim` → streaming → … |

`Settle`, `Reread` and `Retry` are `_aworker_transition`: a first attempt fenced
on the snapshot held, one re-read, one retry. While streaming, the graph may end
in any way it can, at any time. A client's fence is the current version or the
one before. A signal or local cancel finds its task through the registry by
generation id alone. `Boot`, `ReclaimOrphans`, `Shutdown` and `Exit` are the
lifespan; `Exit` is also a crash and may happen anywhere. The registry's entries
expire at any time (`ExpireEntry`). An entry parked at a pause stays in the code
as a lock token whose task is over; cancelling it has no effect, so the model
drops it. The conversation turn lock is left out on purpose: it lives in one
database session and goes with it, and the properties have to hold without it.

### GenerationLifecycle

Seven phases: none, live, stopping, offered, asking, blocked, ended, and an
epoch. A live turn may be asked to stop, pause or end; an offer is left only by
Continue, one epoch on, an approval only by its resume, a blocked pause and a
stopping turn only by ending; nothing leaves the end; and a turn becomes live
only when no other turn of its conversation is busy. `PhaseOf` maps a row to
its phase and `ImplementsLifecycle` is the refinement.

### TurnStream

The async generator and the work it shields with `await_to_completion` never
run at once, so one `pc` serves both, and `caller` says whether the generator is
running inline, waiting for shielded work, or gone. `Interrupt` is a
CancelledError or GeneratorExit at whatever await the turn is at; it may repeat.
Each of the nine database writes in `FaultPoints` may fail each time it is made,
and so may the graph: it raises (`GraphRaises`), or it ends with an error of its
own (`GraphReportsError`), which is stored as the answer. The assistant message
is inserted under an id reserved beforehand, so a second insert collides.
`RequestStop` is a Stop from any process; it reaches the turn as a signal
(`StopHere`), or through the durable stop watch, which reads the row
(`SeeStop`). A read of the watch that fails, comes too early or finds nothing
changes nothing and is no step.

### ConversationCompaction

One conversation. A message is its role, the revision of its text (0 is the
empty placeholder of a paused turn, which compaction hides) and whether it is
live; its sequence is its position, because allocation holds the conversation
row's lock to the commit. A summary stands for the set of `<<sequence, text>>`
pairs it was made from. Times are reduced to what the code asks of them: is the
lease expired, is the job due. Each action is one committed transaction, and
`load_compaction_input` is two (`LoadMemory`, `LoadMessages`), since its
statements do not share a snapshot. Which prefix is summarised, whether the
window triggers, and how a provider call ends are nondeterministic within what
the compactor allows (`Cuts`). The first insert of a memory row and its
compare-and-set are one action: the primary key and the row lock make them so.

### ApprovalResume

The turn and its resumes are actors; each step is one commit. A resume holds the
turn lock (`Acquire`), validates the approval, takes the row back from
`continuable` (`Reclaim`, under the unique index: `busy` is another active turn),
claims the approval (`Claim`), runs the graph and ends in one of the ways of
`_astream_resume`; `Concluded` is `_aworker_transition` with its re-read, here in
one step because what can come between is checked in `GenerationControl`. A
client may leave at any await: `Abandon` while the row is being reclaimed,
`Disconnect` while the graph runs, `Detach` while shielded writes finish without
the lock. `LoseLock` drops the database session that holds the lock while its
holder goes on, and `Release` may then close the session another turn of the
process has stored under the same key. Time is one flag per approval (`due`). The
sweep lists, marks and deletes in three steps. Stored messages, the registry's
token, Redis timers and failing database writes are left out.

### MutationReceipts

All executions of one tool call share one row. `status` is the row, with
"absent" before the insert; the unique index makes `Reserve` atomic and
`Transition` is the compare-and-set from `reserved`. An attempt is sent
(`Send`), and the tool, which is external, applies it or turns it down at any
time after, waited for or not. What the pipeline knows of an attempt decides what
is recorded: a result, an error, or a timeout or device code that leaves the
outcome unknown. `Abandon` is a crash, a cancellation, a bubbling interrupt or a
failed write of the outcome. Provider idempotency and retry policy are constant
per call and chosen in `Init`.

### DeviceRuntime

Redis commands are the steps, and MULTI blocks and single commands are atomic,
with three exceptions: the GET that decides `publish_result` and
`_clear_pending_request` is one step with the block it guards, and the SMEMBERS
of `delete_session` with its DELETE. A step between the two would at most leave a
tracking key, or a result nobody reads, behind.
Sessions are numbered; each has a gateway and a socket of its own, so an old
gateway may live on beside the new one. `TakeRequest` and `CheckRequest` are
BLPOP and the test of the withdrawal marker; a caller that gives up while its
push travels leaves it on the `wire`, and `Withdraw` removes one queued copy, as
`LREM` with count 1 does. Ending a session (`CloseGateway` or
`Expire`, then `FailRequest`, `DropPending`, `DeleteSession`) names the device
only, as in the code. Heartbeats and catalog updates read the record and write
it back whole. The sidecar mirrors a catalog version by counting its own
publications and runs a request only if session and version match. A result is
abstracted to whether the tool ran, did not run, or may have. `running` are the
sidecar's request tasks: one that is cancelled does not wait for the tool it has
called. `RedisFails` is a Redis error under any command of `dispatch_request`,
whether or not Redis applied the command. Redis errors on the gateway's side are
left out: its dispatch loop logs them and goes on, and a message whose BLPOP
reply is lost is gone. For a request that is as if the gateway had crashed; for a
cancel it would be one more exception of `CancelFollows`. The marker of a withdrawn request
lives for 300 s in the code and for ever in the model, which assumes that no push
travels, and no gateway leaves a queue unread, for longer.

## Runs

| Run | Checks | States | Bounds and why they are enough |
|---|---|---|---|
| `control` | `TypeOK`, `ActiveRowsAreOwned`, `OwnersKeepTheirRows`, `RetrySucceeds`, `ReplayAnswersTheSame` | 846 000 | two processes on one host, so that one boots, reaps and dies beside the other; three requests on one generation under one key: a worker, a command against it, and its retry or a second worker (with two keys, 2 418 000 states, the result is the same) |
| `control_two` | `OneStreamPerConversation`, `ImplementsLifecycle`, `CancelMeansStopped`, `EpochLeasedOnce` | 201 000 | two generations of one conversation compete for the index; two keys and an epoch rolled by a pause: a late Stop meets a later epoch, two Continues meet one offer |
| `liveness` | `ActiveRowsSettle` | 260 000 | one process, three requests, no symmetry |
| `turn` | `TurnIsSettled`, `StoredBeforeSettled`, `TextIsKept`, `FailureIsTold`, `TurnEnds`, `StopNeedsNoSignal`, `TypeOK` | 3 900 | complete: the model has no bound beyond what may fail, and all nine writes and the graph may; the graph need not end |
| `compaction` | `MemoryMatchesUnraced`, `MemoryMovesForward`, `TypeOK` | 1 778 000 | two runs, three messages (a complete turn and one more, or placeholders; an answer, a question and an answer let memory be written and then extended), one edit or deletion at any moment, one attempt |
| `compaction_queue` | `NoReplyIsForgotten`, `AttemptsAreBounded`, `JobSettles` | 322 000 | two attempts by the setting and three by the sweep, one queued notification, three messages |
| `approval` | `DecisionRunsOnce`, `RunsUnderItsClaim`, `CheckpointOutlivesTheRun`, `PendingIsAnswerable`, `ClaimSettles`, `RowSettles`, `TypeOK` | 311 000 | three resumes: one runs while two rivals race it, or one per approval and a rival; two approvals, the second asked by a resume; one fault (the safety part also holds with two, 839 000 states) |
| `receipts` | `OneExecutionActs`, `AtMostOnceUnlessFailed`, `CompletedIsFinal`, `TypeOK` | 3 383 000 | three executions (one that is lost, one that doubts it, one that comes later), two attempts and the reconnect |
| `device` | `AnswerIsHonest`, `NothingRunsAcrossSessions`, `CancelFollows`, `WithdrawnStaysOff`, `TypeOK` | 947 000 | one request: requests of one device meet only in the queue's order; two sessions, so that a dead gateway meets the new one; two catalog versions; one fault (a broken socket, a crashed gateway, a lost reply, a silent interval or a Redis error) |
| `legacy_stop`, `compaction_raced`, `receipts_twice` | one property each, violated | | see Findings |

Deadlock is not checked: a server that no client calls, a turn that is over and
a conversation nobody writes to may stop.

**Fairness.** `GenerationControl`: weak fairness of each request's own steps
while its process runs. Every await of a worker is bounded (provider timeouts,
the turn's execution budget, the cancel flag tested before each event). Nothing
is assumed of clients, signals or processes, and the liveness properties except
rows whose process goes away. `TurnStream`: weak fairness of the turn's own
steps, for the same reason. The graph's ending is not among them: it may run for
ever, and `TurnEnds` excepts that. The durable stop watch is: it reads the row at every checkpoint event
(`_DURABLE_STOP_CHECKPOINTS`) that comes two seconds after the last read, and a
read that fails is made again at the next. This assumes that a graph that runs on
goes on producing such events (tool, message, reasoning and subagent boundaries,
snapshots): the watch would not look at the row during an endless run of text
deltas alone. `ConversationCompaction`: weak fairness of each
run's steps (the provider call has a timeout), of workers taking tasks from the
queue, and of time (leases expire, backoffs end); strong fairness of a sweep
whose notification the broker accepts, since Celery Beat repeats it every
interval and a broker that refuses for ever processes nothing at all.
`ApprovalResume`: weak fairness of each resume's and the turn's own steps (the
graph has a budget, every await a deadline), and of the reaper, which runs at the
next start on the host; nothing of clients, the lock, expiry or the sweep.

## What the properties say

- `ActiveRowsAreOwned`, `RetrySucceeds`: the comment in `_aworker_transition`,
  "Re-reading once is safe", is right: a Stop is the only thing that moves a row
  past the worker's snapshot.
- `OwnersKeepTheirRows`: reaper, Stop, Continue and resume never settle a row
  under a running worker of a process that is up.
- `OneStreamPerConversation`: the index alone keeps a conversation to one worker.
- `CancelMeansStopped`: signals carry no epoch, and still no late signal cancels
  a later epoch of its generation.
- `EpochLeasedOnce`, `ReplayAnswersTheSame`: idempotency of Continue and Stop.
- `ActiveRowsSettle`: an active row is settled by its worker, through a refused
  write and the re-read, or its process has gone.
- `StopNeedsNoSignal`: with every signal lost, and a graph that would run for
  ever, the durable row still stops a turn. The run has no fairness of signals or
  of the graph's ending, so nothing but the watch can end it.
- `TextIsKept`, `FailureIsTold`: what is stored at the end. Streamed text is kept
  through every completion, pause, Stop and disconnect; after a failed graph an
  error message is stored and the text is not kept (an observation below), and
  the error is stored whoever disconnects.
- `TurnIsSettled`, `StoredBeforeSettled`, `TurnEnds`: a turn, under
  any cancellations and any failing writes. `Unrecoverable` names the failures
  after which a row cannot be settled: of the settling write itself, of the
  error message, of `mark_running` before a pause, and of marking the images of
  an answer that is stored (an observation below).
- `MemoryMatchesUnraced`: lease, version and cursor checks together lose, double
  or keep stale no message, outside the race that is a finding.
- `NoReplyIsForgotten`, `AttemptsAreBounded`, `MemoryMovesForward`, `JobSettles`:
  the durability protocol of the job.
- `DecisionRunsOnce`, `RunsUnderItsClaim`: the status in the WHERE of the claim
  and the version fence of the row carry the resume protocol; losing the turn
  lock does not break it. The order matters: the row is taken back before the
  approval is claimed, so a rival is refused at one or the other.
- `CheckpointOutlivesTheRun`: the sweep never asks whether its `mark_expired`
  changed anything; it is safe only because the claim tests the same expiry.
- `PendingIsAnswerable`: an approval that can be answered belongs to a row that
  waits for it; the exceptions in the property are the ways this can fail.
- `ClaimSettles`, `RowSettles`: however a resume ends, unless its process dies,
  the approval is settled, and the row in any case.
- `OneExecutionActs`, `AtMostOnceUnlessFailed`, `CompletedIsFinal`: what the
  receipt gives under overlapping replays, exactly: everything but a `failed` row.
- `AnswerIsHonest`: a model told "the call was not executed" may repeat it, so
  this must be true at that moment and stay true. `WithdrawnStaysOff`: marker,
  LREM and the gateway's check close every interleaving of a withdrawal with its
  push. `CancelFollows`: if the device still runs a call that its caller takes
  for closed, the caller has given it up, and a cancel is on its way. Exceptions:
  the cancel was lost with an ended session's queue or taken by a gateway whose
  device has moved on; the socket is broken, and the sidecar will end what it
  runs; and callers who know the outcome to be open, because an `end_session`
  answered "maybe" or because Redis failed. Their calls run on uncancelled.
  `NothingRunsAcrossSessions`: stale records and late deliveries never make the
  device run a request of another session.

## Findings

1. `legacy_stop`: the legacy Stop endpoint derives one idempotency key per
   generation, so a Stop refused once as stale stays refused.
2. `compaction_raced`: editing or deleting a message that a run has read and
   memory does not cover yet leaves the old text in valid memory.
3. `receipts_twice`: an error after the request was sent that is no timeout (a
   broken MCP transport, a failure to render or offload the result) is recorded
   as failed, and a replay runs the mutation again. A Redis error under
   `dispatch_request` is another such error.

Each is quoted against the line that says otherwise in `PROJECT.json`.

Observations made on the way, visible in the models as exceptions of a property
or in a step's comment:

- Marking web images fails after the answer is stored: the error message collides
  with the answer under the reserved id, twice, and the row stays active until a
  restart (`Unrecoverable`). After a stored partial, the same failure marks the
  row failed although its text is readable.
- When the graph raises after text was streamed, `_afail_user_turn` stores the
  error message alone and the text is dropped (`LosesText`). When it ends with an
  error of its own, that error is stored as the answer and the row says completed
  (`StoredBeforeSettled`).
- A crash of the process that claimed an approval leaves it `resolving` for ever;
  nothing sweeps that status (`ClaimSettles`). A client that leaves while its
  resume takes the row back gets the row stopped with the approval still pending
  (`deserted` in `PendingIsAnswerable`).
- A failed receipt that a replay runs successfully stays failed, because the
  write is a compare-and-set from `reserved`. No idempotency key reaches a
  provider: the middleware's `invoke` accepts any keyword and drops it.
- A guard of a client tool that refuses answers with a plain string, which counts
  as a result and is recorded as completed (`AnswerUnavailable`).
- A Redis error under `dispatch_request` withdraws nothing: the request stays
  queued or with its gateway, and the device runs a call whose caller was told of
  a clean failure (`RedisFails`; finding 3 is what the receipt makes of it).
- The sweep counts expired leases against its default of 5 attempts, whatever
  `CONVERSATION_SUMMARY_MAX_ATTEMPTS` says: with a smaller setting, a job whose
  runs crash is claimed more often than the setting allows. `AttemptsAreBounded`
  therefore states the larger of the two limits (`AttemptLimit`), and
  `compaction_queue` runs with the sweep's limit above the setting.
- A cancel can be lost with the queue of a session that an old gateway ends
  (`dropped`). The same `end_session` answers "maybe" for requests of the new
  session, which then run on with nobody waiting and no cancel. And the sidecar's counted catalog version can differ from the
  server's after a reply is lost or a heartbeat overwrote a publication; every
  request of that session is then refused until the device reconnects.

## Proofs

Every invariant, action property and refinement of the passing runs is a theorem;
`PROJECT.json` lists them with the property each states. The theorems hold for
every value of the constants that satisfies the named assumptions of the module
that declares them, and those only say that bounds are natural numbers and that
names which the code keeps apart are different. Each inductive invariant was
checked with TLC as an invariant of the module's run before it was proved.

`GenerationRowsProofs` holds what the other proofs need of the row: each write
yields a row, keeps its owner, advances its version, and lands where its intent
says, under the statuses `LegalFrom` allows.

`GenerationControlProofs` proves, for every finite or infinite set of
generations, conversations, processes, hosts, tasks and keys, with the
assumptions `GenerationControl` states (`ConversationOf` and `HostOf` are
functions, `MaxRoll` is a natural number, `None` is not a task, key or process):

- **`TypeCorrect`**: `Spec => []TypeOK`. One lemma per action under
  `TypeNext`; lemmas on the operators of `GenerationRows` (each write of a row
  is a row) and on the task updates carry most of it.
- **`Refinement`**: `Spec => ImplementsLifecycle`. The refinement does not follow
  from the types: a Continue maps to the abstract `Continue`, which needs the
  *offered* phase, but `Lease` writes from `continuable` or `stopped` and
  decides on the *snapshot* it read. The invariant `RowInv` closes that gap:
  - `OffersAreOpen`: a row with a continuation on offer is `continuable` and not
    blocked, so a lease never revives a stopped or blocked turn;
  - `FreshRows`: a row that is absent has version 0 and epoch 0;
  - `SnapshotsCurrent`: for a command or resume about to write, a snapshot whose
    version is the row's agrees with the row, since every write advances the
    version; the fence on the version thus also fixes what was decided from the
    snapshot;
  together with typing. `RowInvInit` and `RowInvNext` show it inductive. Then
  `RowStepRefines` shows that a single-row write is one abstract step or a
  stutter, `ReapRefines` the same of the bulk write of the reaper, and
  `FreeWhenAdmitted` that the unique index gives the abstract `Free`.

`GenerationOwnershipProofs` proves the safety invariants of `GenerationControl`
from the same assumptions. *View* lemmas say once, field by field, what an action
does to the task that takes it; the four arguments use those.

- **`RowsOwned`**, **`RowsKept`**, **`RetryIsEnough`**, **`OneStream`**
  (`ActiveRowsAreOwned`, `OwnersKeepTheirRows`, `RetrySucceeds`,
  `OneStreamPerConversation`). None is inductive alone: that a worker's fence
  holds depends on nobody else owning the row, which depends on how it was
  admitted. `OwnInv` puts them together. A task that has entered a row and not
  settled it *owns* it; `OwnersHold` says that an owner whose process is up
  finds the row active, naming its process, at its snapshot's version or one Stop
  past it; `OneOwner` that a row has one such owner, `HasOwner` that an active
  row of a live process has one, `ReapsTheDead` that a reaper's list names only
  processes that have died, `ProducersRan` that a row names only a process that
  ran, and `IndexHolds` that busy rows of a conversation are one. The retry
  succeeds because the one write that can come between is a Stop, and every
  worker's ending is legal from `stop_requested` or is turned into one that is.
- **`EpochsLeasedOnce`**: `LeaseInv` adds that no task has leased an epoch past
  its row's; a new lease takes the next one.
- **`CancelIsStop`**: a signal names a generation only, so the invariant follows
  "was stopped" wherever it travels: `TellsTruly` (answers, snapshots and cancel
  flags of tasks), `SignalsMeanStop`, `RecordsMeanStop` (replayed answers), and
  `EntriesMatch` (an entry names a task of that generation). `StoppedStays` is
  the reason it works: no write takes a stopped generation back to life.
- **`ReplaysAgree`**: `ReplayInv` says where a definite answer comes from
  (`Accounted`): the key belongs to another command, the ledger has recorded the
  answer, or the task is the key's one claimant (`OneClaimant`), alive or dead.

`TurnStreamProofs` proves, for every set of writes and steps of the graph that may
fail (`FaultsAssumption`), **`TypeCorrect`**,
**`EndedIsSettled`** (`TurnIsSettled`), **`StoresFirst`** (`StoredBeforeSettled`),
**`KeepsText`** (`TextIsKept`) and **`TellsFailure`** (`FailureIsTold`). The properties speak of the end of a turn, so
`IInv` says what is true at each step on the way: the snapshot lags the row by at
most one write, a Stop's or an ending (`RowIsTied`); where the row stands
(`RowByStep`); who waits for the step and which exits are open (`CallerByStep`);
what is stored (`SavedByStep`); that the ending about to be written rests on a
stored message and, after a re-read, is legal (`IntentIsBacked`); that every way
from streamed text leads through a store of that text (`TextByStep`); and that
after a failed graph nothing but the failure can be stored (`FailureByStep`).

`ApprovalResumeProofs` proves, for any number of resumes, approvals and faults,
from `BoundsAssumption` and `ActorsAssumption` (the turn, the resumes and the
other worker are different), **`TypeCorrect`**, **`RunIsOwned`**
(`RunsUnderItsClaim`), **`OneRunPerDecision`** (`DecisionRunsOnce`),
**`CheckpointKept`** (`CheckpointOutlivesTheRun`) and
**`OpenApprovalIsAnswerable`** (`PendingIsAnswerable`). The row, not the lock,
makes a run exclusive: `Ownership` says that whoever works on the row is its
producer and that once the row is closed nobody takes it back; with it
`ClaimsHold` and `UsedOnce` say that an approval in use is claimed and one used
is never offered again. `OnePending` and `SweptIsIdle` carry the checkpoint: an
approval is used up before its run and the next is asked at its end, so once the
sweep has listed an overdue one nothing is left to claim. Only
`PendingIsAnswerable` needs the lock (`LockIsHeld`, `OpenIsTarget`), and only
where no fault has happened, which is where it claims anything.

`DeviceRuntimeProofs` proves every property of the run `device`, for any number
of calls, sessions, catalog versions and faults (`BoundsAssumption`):

- **`TypeCorrect`**, with `SessionInv`: how the sidecar's session, its gateway
  and its socket go together; a session not connected yet is untouched.
- **`AnswersAreHonest`** (`AnswerIsHonest`) and **`NothingCrosses`**
  (`NothingRunsAcrossSessions`). `CopyInv` follows the one copy of a request: on
  the wire, in the queue, in one gateway's hand, on one socket, or spent; never
  two of these (`OneCopy`), not before the push (`NotSent`), and once it is
  started or somebody says "rejected" nowhere at all, and never both (`Spent`).
  A step that neither moves nor speaks of a request keeps this (`QuietKeeps`),
  so only the steps that do are argued one by one. The lemmas on sequences
  (`Appended`, `Taken`, `Removed`) say what `RPUSH`, `BLPOP` and `LREM` leave.
- **`CancelIsBehind`** (`CancelFollows`). `Chased`: once the caller has left, the
  gateway of the current session does not hold the request decided, and if the
  request is on the socket or running, its cancel is queued, in the gateway's
  hand, or on the socket behind it (`Follows`): one queue, one hand and one
  socket keep the order of the two. That only a caller who gave up can have left
  a call running is `CopyInv` again: what was rejected or refused never started,
  what has answered runs no more, and nobody leaves without an answer
  (`AnsweredInv`).
- **`WithdrawnIsFinal`** (`WithdrawnStaysOff`), an action property: who has left
  has left the marker (`MarkedInv`), and the gateway looks for it after it has
  taken the request and before it decides.

`ConversationCompactionProofs` proves every safety property of the compaction
protocol for any number of runs, messages, attempts, edits and notifications,
from the assumptions of `ConversationCompaction` (the bounds are naturals, the
attempt limits positive, `None` is not a run, contents are 0 or 1):

- **`TypeCorrect`**: `Spec => []TypeOK`. That the newest reply is a number rests
  on `MaximumExists`, from the well-foundedness of the naturals.
- **`AttemptsBounded`**: `Spec => []AttemptsAreBounded`, for any two limits of the
  setting and the sweep. `JobStep` sorts all steps into six kinds by what they do
  to status, attempts and claims; `AttemptsCount` is inductive: claims exceed
  attempts by at most the run at work, and only a dead job has used them up.
- **`NoneForgotten`**: `Spec => []NoReplyIsForgotten`, inductive with the types.
- **`MemoryIsFaithful`**: `Spec => []MemoryMatchesUnraced`. `MemoryInv` adds to
  the types that no target lies past the transcript (`TargetsExist`), that
  invalid memory is empty and no summary reaches past its cursor
  (`MemorySound`), and what a run in flight holds (`RunsSound`): if its version
  is still the row's, its base is the row, its window is what the transcript
  shows after the base, and what it is about to write is faithful up to its cut,
  excused messages aside. A step that changes the row outdates every run
  (`OutdatedRun`); any other leaves them undisturbed (`UndisturbedRun`). The
  proof never uses the lease: version and invalidation alone make memory
  faithful, and for memory the lease only saves work.
- **`MemoryAdvances`**: `Spec => MemoryMovesForward`, from `MemoryInv`, which
  puts a run's cut after its cursor.

`MutationReceiptsProofs` proves every property of the run `receipts` for any
number of executions and attempts, from `MaxAttempts` being positive:

- **`TypeCorrect`**: `Spec => []TypeOK`.
- **`OneActs`**: `Spec => []OneExecutionActs`. The inductive invariant relates the
  row to the executions: `fresh`, the executions whose insert created the row,
  holds at most one; without provider deduplication and while the row does not
  say failed, only that one is past the decision to call, so every attempt sent
  is its own.
- **`EffectAtMostOnce`**: `Spec => []AtMostOnceUnlessFailed`. Without retries a
  second attempt exists only after a reconnect, which comes before anything is
  sent.
- **`CompletedEnds`**: `Spec => CompletedIsFinal`, since the row is completed only
  by the execution that created it, as its last step.

Only model-checked: liveness (`ActiveRowsSettle`, `TurnEnds`, `StopNeedsNoSignal`,
`JobSettles`, `ClaimSettles`, `RowSettles`), because fairness and `ENABLED` are
out of the prover's reach; and the violations of the runs under Findings, which
are counterexamples.

## Not modelled, and why

The agent graph, prompts, retrieval and ranking are driven by language models or
numerical; their outcomes are nondeterministic choices. Migrations, metrics,
evaluation, UI, accounts and configuration have no protocol state. Clock time
appears only as expiry and due flags. Rows of processes on other hosts are never
reclaimed by design; the model keeps them active too (`ProvablyDead`).

Of the modelled components: the in-memory twins of the Redis store and of the
turn lock (single-process deployments), the wait for the turn lock and its pool
of connections, the execution slots of the sidecar, failing database writes
during a resume, the settings that decide which tools ask for approval, and the
UI snapshot of the registry. The document pipeline, the usage ledger, forks, task
plans and widgets keep state of their own and are left for later work.

## Plan

Done: the generation lifecycle, the streamed turn, compaction, tool receipts, the
device runtime, approvals with the turn lock, and a proof of every safety property
their runs check. Next, in this order:

1. An abstract specification of a device call (sent, started, answered, given up)
   and the proof that `DeviceRuntime` implements it, on `CopyInv`; the same for a
   tool call over `MutationReceipts`.
2. `DocumentPipeline`: index generations and their activation under retries.
3. `ModelUsage` and `ConversationFork`.
4. The Continue stream at the grain of `TurnStream`.
