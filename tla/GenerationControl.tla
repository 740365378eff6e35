-------------------------- MODULE GenerationControl ---------------------------
(***************************************************************************)
(* The durable generation lifecycle under concurrency: server processes     *)
(* that boot, crash and shut down; the tasks (HTTP handlers) they run, each *)
(* a streamed turn, a Continue, an approval resume or a Stop; the           *)
(* `generations` rows and the `generation_commands` ledger they share       *)
(* through Postgres; the per-process in-flight registry and the stop bus    *)
(* that carry a Stop to the worker early.                                   *)
(*                                                                          *)
(* One action is what a task does between two awaits that touch shared      *)
(* state.  The conversation turn lock is deliberately absent: it is freed   *)
(* before the worker settles when the client disconnects                    *)
(* (await_to_completion) and dropped with its connection, so the properties *)
(* below must not rest on it.  Database faults are modelled in TurnStream.  *)
(***************************************************************************)
EXTENDS GenerationRows, FiniteSets

CONSTANTS Generations,    \* ids of the rows turns may create
          Conversations,
          ConversationOf, \* the conversation each generation belongs to
          Processes,      \* server process incarnations (producer tokens)
          Hosts,
          HostOf,
          Tasks,          \* request handlers; each runs at most once
          Keys,           \* idempotency keys clients send
          MaxRoll,        \* how many epochs auto-continue may roll in one run
          None

ASSUME ConstantsAssumption ==
    /\ ConversationOf \in [Generations -> Conversations]
    /\ HostOf \in [Processes -> Hosts]
    /\ None \notin Generations \union Processes \union Tasks \union Keys
    /\ MaxRoll \in Nat

VARIABLES rows,      \* the generations table
          ledger,    \* the generation_commands table
          tasks,     \* each task's local state
          registry,  \* each process's in-flight entries, by generation
          signals,   \* stop broadcasts published but not handled yet
          procs,     \* each process's lifespan phase
          reap       \* producers a booting process found to be dead

vars == <<rows, ledger, tasks, registry, signals, procs, reap>>

-----------------------------------------------------------------------------
(* Task-local state. `seen` is the last row snapshot the task holds,        *)
(* `intent` the ending it wants to write, `leased` the epoch a Continue     *)
(* won, `cancelled` the entry's cancel_event.                               *)

Kinds == {"none", "turn", "continue", "resume", "stop"}

Answers == {"none", "stale", "illegal", "unavailable", "in_progress",
            "stop_requested", "completed_partial", "leased", "error"}

Errors == {"stale", "illegal", "unavailable"}

Snapshot == RowType(Processes \union {None})

Pcs == {"idle", "opened", "claim", "decide", "publish", "record", "cancel", "reclaim",
        "streaming", "settle", "reread", "retry", "done", "dead"}

TaskType ==
    [pc : Pcs, kind : Kinds, proc : Processes \union {None},
     gen : Generations \union {None}, key : Keys \union {None}, fence : Nat, cont : Nat,
     seen : Snapshot, intent : Intents, leased : Nat, answer : Answers, cancelled : BOOLEAN]

Idle == [pc |-> "idle", kind |-> "none", proc |-> None, gen |-> None, key |-> None,
         fence |-> 0, cont |-> 0, seen |-> NoRow(None), intent |-> "none", leased |-> 0,
         answer |-> "none", cancelled |-> FALSE]

Unclaimed == [state |-> "free", action |-> "none", answer |-> "none"]

LedgerType == [state : {"free", "claimed", "recorded"}, action : Kinds, answer : Answers]

Init ==
    /\ rows = [g \in Generations |-> NoRow(None)]
    /\ ledger = [g \in Generations |-> [k \in Keys |-> Unclaimed]]
    /\ tasks = [t \in Tasks |-> Idle]
    /\ registry = [p \in Processes |-> [g \in Generations |-> None]]
    /\ signals = {}
    /\ procs = [p \in Processes |-> "off"]
    /\ reap = [p \in Processes |-> {}]

-----------------------------------------------------------------------------
(* Mutant: the partial unique index is missing. *)
NoIndex(g) == TRUE

(* uq_generations_active_per_conversation: may g's row become active? *)
IndexAdmits(g) ==
    \A h \in Generations \ {g} :
        ConversationOf[h] = ConversationOf[g] => ~IsActive(rows[h])

Serving(t) == procs[tasks[t].proc] \in {"up", "closing"}

Row(t) == rows[tasks[t].gen]

Write(t, row) == rows' = [rows EXCEPT ![tasks[t].gen] = row]

Goto(t, pc) == tasks' = [tasks EXCEPT ![t].pc = pc]

(* A task that ends keeps only what it was and what it answered. *)
Over(task, pc) ==
    [task EXCEPT !.pc = pc, !.fence = 0, !.cont = 0, !.seen = NoRow(None),
                 !.intent = "none", !.cancelled = FALSE]

Finish(t) == tasks' = [tasks EXCEPT ![t] = Over(tasks[t], "done")]

FinishWith(t, answer) ==
    tasks' = [tasks EXCEPT ![t] = [Over(tasks[t], "done") EXCEPT !.answer = answer]]

(* The task now runs the graph: its entry replaces any earlier one. *)
Attach(t, snapshot) ==
    /\ tasks' = [tasks EXCEPT ![t].pc = "streaming", ![t].seen = snapshot]
    /\ registry' = [registry EXCEPT ![tasks[t].proc][tasks[t].gen] = t]

(* The row was opened for a caller that has gone (on_abandoned), or the     *)
(* opener refuses to go on: it is settled without ever streaming.           *)
Abandon(t, snapshot, intent) ==
    /\ tasks' = [tasks EXCEPT ![t].pc = "settle", ![t].seen = snapshot, ![t].intent = intent]
    /\ UNCHANGED registry

-----------------------------------------------------------------------------
(* A user turn opens its row. *)

StartTurn(t, p, g) ==
    /\ tasks[t].pc = "idle"
    /\ procs[p] = "up"
    /\ rows[g].status = "absent"
    /\ IndexAdmits(g)
    /\ rows' = [rows EXCEPT ![g] = Create(p)]
    /\ tasks' = [tasks EXCEPT ![t] = [Idle EXCEPT !.pc = "opened", !.kind = "turn",
                                        !.proc = p, !.gen = g, !.seen = Create(p)]]
    /\ UNCHANGED <<ledger, registry, signals, procs, reap>>

(* A refused mark_running is swallowed and the stale snapshot kept. *)
EnterRunning(t) ==
    /\ tasks[t].pc = "opened"
    /\ Serving(t)
    /\ LET won == Matches(Row(t), tasks[t].seen.version, {"starting"})
           snapshot == IF won THEN MarkRunning(Row(t)) ELSE tasks[t].seen
       IN /\ Write(t, IF won THEN snapshot ELSE Row(t))
          /\ Attach(t, snapshot) \/ Abandon(t, snapshot, "stopped")
    /\ UNCHANGED <<ledger, signals, procs, reap>>

-----------------------------------------------------------------------------
(* Client commands: read the row, claim the key, decide, record.            *)

(* The fence a client sends: the version it last saw, current or not. *)
KnownVersions(g) == {v \in 1..rows[g].version : v + 1 >= rows[g].version}

SendCommand(t, p, g, kind, k, fence, cont) ==
    /\ tasks[t].pc = "idle"
    /\ procs[p] = "up"
    /\ rows[g].status # "absent"
    /\ tasks' = [tasks EXCEPT ![t] = [Idle EXCEPT !.pc = "claim", !.kind = kind, !.proc = p,
                                        !.gen = g, !.key = k, !.fence = fence, !.cont = cont,
                                        !.seen = rows[g]]]
    /\ UNCHANGED <<rows, ledger, registry, signals, procs, reap>>

SendStop(t, p, g, k) ==
    \E fence \in KnownVersions(g) : SendCommand(t, p, g, "stop", k, fence, 0)

(* The continuation id sent is the one on offer, or 0 for an id that is not. *)
SendContinue(t, p, g, k) ==
    \E fence \in KnownVersions(g), cont \in {rows[g].continuation, 0} :
        SendCommand(t, p, g, "continue", k, fence, cont)

Answered(t, answer, pc) ==
    tasks' = [tasks EXCEPT ![t].answer = answer, ![t].pc = pc]

Entry(t) == ledger[tasks[t].gen][tasks[t].key]

(* _replay: a different action, or a claim with no result, is refused. *)
Replayed(t) ==
    IF Entry(t).action # tasks[t].kind THEN "illegal"
    ELSE IF Entry(t).state = "claimed" THEN "in_progress"
    ELSE Entry(t).answer

(* Mutant: the key is claimed again by whoever sends it (an upsert). *)
ReclaimCommand(t) ==
    /\ tasks[t].pc = "claim"
    /\ Serving(t)
    /\ ledger' = [ledger EXCEPT ![tasks[t].gen][tasks[t].key] =
                      [state |-> "claimed", action |-> tasks[t].kind, answer |-> "none"]]
    /\ Goto(t, "decide")
    /\ UNCHANGED <<rows, registry, signals, procs, reap>>

(* The claim is an insert; the loser answers from the winner's row. *)
ClaimCommand(t) ==
    /\ tasks[t].pc = "claim"
    /\ Serving(t)
    /\ \/ /\ Entry(t).state = "free"
          /\ ledger' = [ledger EXCEPT ![tasks[t].gen][tasks[t].key] =
                            [state |-> "claimed", action |-> tasks[t].kind, answer |-> "none"]]
          /\ Goto(t, "decide")
       \/ /\ Entry(t).state # "free"
          /\ IF Replayed(t) \in {"stop_requested", "completed_partial"}
             THEN Answered(t, Replayed(t), "cancel")
             ELSE FinishWith(t, Replayed(t))
          /\ UNCHANGED ledger
    /\ UNCHANGED <<rows, registry, signals, procs, reap>>

Refuse(t, answer) == Answered(t, answer, "record") /\ UNCHANGED rows

(* request_stop after its claim; _require_fresh comes first. *)
DecideStop(t) ==
    /\ tasks[t].pc = "decide"
    /\ tasks[t].kind = "stop"
    /\ Serving(t)
    /\ LET seen == tasks[t].seen IN
       \/ /\ tasks[t].fence # seen.version
          /\ Refuse(t, "stale")
       \/ /\ tasks[t].fence = seen.version
          /\ seen.status \in TerminalStatuses
          /\ Refuse(t, "illegal")
       \/ /\ tasks[t].fence = seen.version
          /\ seen.status = "stop_requested"
          /\ Answered(t, "stop_requested", "record")
          /\ UNCHANGED rows
       \/ /\ tasks[t].fence = seen.version
          /\ seen.status = "continuable"
          /\ IF Matches(Row(t), seen.version, {"continuable"})
             THEN Write(t, AcceptPartial(Row(t))) /\ Answered(t, "completed_partial", "record")
             ELSE Refuse(t, "stale")
       \/ /\ tasks[t].fence = seen.version
          /\ seen.status \in ActiveStatuses \ {"stop_requested"}
          /\ IF Matches(Row(t), seen.version, Stoppable)
             THEN Write(t, RequestWorkerStop(Row(t))) /\ Answered(t, "stop_requested", "publish")
             ELSE Refuse(t, "stale")
    /\ UNCHANGED <<ledger, registry, signals, procs, reap>>

(* publish_stop is best effort: any subset of the live processes is told. *)
PublishStop(t) ==
    /\ tasks[t].pc = "publish"
    /\ Serving(t)
    /\ \E reached \in SUBSET {p \in Processes : procs[p] \in {"up", "closing"}} :
         signals' = signals \union (reached \X {tasks[t].gen})
    /\ Goto(t, "record")
    /\ UNCHANGED <<rows, ledger, registry, procs, reap>>

(* lease_continuation after its claim. An index conflict raises             *)
(* IntegrityError, which records nothing on the claimed key.                *)
Lease(t) ==
    /\ tasks[t].pc = "decide"
    /\ tasks[t].kind = "continue"
    /\ Serving(t)
    /\ LET seen == tasks[t].seen
           won == Matches(Row(t), seen.version, {"continuable", "stopped"})
           leased == LeaseEpoch(Row(t), tasks[t].proc)
       IN
       \/ /\ tasks[t].fence # seen.version
          /\ Refuse(t, "stale")
       \/ /\ tasks[t].fence = seen.version
          /\ seen.continuation = 0 \/ seen.continuation # tasks[t].cont
          /\ Refuse(t, "unavailable")
       \/ /\ tasks[t].fence = seen.version
          /\ seen.continuation # 0 /\ seen.continuation = tasks[t].cont
          /\ \/ ~won /\ Refuse(t, "stale")
             \/ won /\ ~IndexAdmits(tasks[t].gen) /\ FinishWith(t, "error")
                    /\ UNCHANGED rows
             \/ /\ won /\ IndexAdmits(tasks[t].gen)
                /\ Write(t, leased)
                /\ tasks' = [tasks EXCEPT ![t].answer = "leased", ![t].pc = "record",
                                          ![t].seen = leased, ![t].leased = leased.epoch]
    /\ UNCHANGED <<ledger, registry, signals, procs, reap>>

(* arecord_command_result writes once; then the command's caller goes on:   *)
(* a refusal ends it, a Stop turns to its local worker, a lease is run.     *)
RecordResult(t) ==
    /\ tasks[t].pc = "record"
    /\ Serving(t)
    /\ ledger' = [ledger EXCEPT ![tasks[t].gen][tasks[t].key] =
                    IF @.state = "claimed"
                    THEN [@ EXCEPT !.state = "recorded", !.answer = tasks[t].answer] ELSE @]
    /\ \/ /\ tasks[t].answer \in Errors
          /\ Finish(t)
          /\ UNCHANGED registry
       \/ /\ tasks[t].answer \notin Errors
          /\ tasks[t].kind = "stop"
          /\ Goto(t, "cancel")
          /\ UNCHANGED registry
       \/ /\ tasks[t].answer = "leased"
          /\ Attach(t, tasks[t].seen) \/ Abandon(t, tasks[t].seen, "stopped")
    /\ UNCHANGED <<rows, signals, procs, reap>>

(* registry.request_cancel, from a local Stop or from the bus: by id alone. *)
Cancelled(p, g, ts) ==
    IF registry[p][g] = None THEN ts ELSE [ts EXCEPT ![registry[p][g]].cancelled = TRUE]

CancelLocally(t) ==
    /\ tasks[t].pc = "cancel"
    /\ Serving(t)
    /\ LET finished == [tasks EXCEPT ![t] = Over(tasks[t], "done")] IN
       tasks' = IF tasks[t].answer = "completed_partial" THEN finished
                ELSE Cancelled(tasks[t].proc, tasks[t].gen, finished)
    /\ UNCHANGED <<rows, ledger, registry, signals, procs, reap>>

HandleStopSignal(p, g) ==
    /\ <<p, g>> \in signals
    /\ procs[p] \in {"up", "closing"}
    /\ signals' = signals \ {<<p, g>>}
    /\ tasks' = Cancelled(p, g, tasks)
    /\ UNCHANGED <<rows, ledger, registry, procs, reap>>

(* The registry is a TTL cache: an entry may expire under a running task. *)
ExpireEntry(p, g) ==
    /\ registry[p][g] # None
    /\ registry' = [registry EXCEPT ![p][g] = None]
    /\ UNCHANGED <<rows, ledger, tasks, signals, procs, reap>>

-----------------------------------------------------------------------------
(* An approval resume reads the pause, then takes the row back to running.  *)

SendResume(t, p, g) ==
    /\ tasks[t].pc = "idle"
    /\ procs[p] = "up"
    /\ rows[g].status = "continuable"
    /\ rows[g].block = "tool_approval_required"
    /\ tasks' = [tasks EXCEPT ![t] = [Idle EXCEPT !.pc = "reclaim", !.kind = "resume",
                                        !.proc = p, !.gen = g, !.seen = rows[g]]]
    /\ UNCHANGED <<rows, ledger, registry, signals, procs, reap>>

Reclaim(t) ==
    /\ tasks[t].pc = "reclaim"
    /\ Serving(t)
    /\ LET won == Matches(Row(t), tasks[t].seen.version, {"continuable"})
           resumed == MarkResumedAfterApproval(Row(t), tasks[t].proc)
       IN \/ /\ won /\ IndexAdmits(tasks[t].gen)
             /\ Write(t, resumed)
             /\ Attach(t, resumed) \/ \E i \in {"stopped", "failed"} : Abandon(t, resumed, i)
          \/ /\ ~won \/ ~IndexAdmits(tasks[t].gen)
             /\ FinishWith(t, "illegal")
             /\ UNCHANGED <<rows, registry>>
    /\ UNCHANGED <<ledger, signals, procs, reap>>

-----------------------------------------------------------------------------
(* The worker ends its turn and settles the row. *)

(* A Continue completes as completed_partial, every other run as completed. *)
Endings(kind) ==
    {"failed", "stopped", "continuable", "blocked", "approval"} \union
    {IF kind = "continue" THEN "completed_partial" ELSE "completed"}

(* The graph completes, fails or pauses; a cancelled or disconnected task   *)
(* stops. A set cancel flag is checked before every event.                  *)
EndStream(t, intent) ==
    /\ tasks[t].pc = "streaming"
    /\ Serving(t)
    /\ intent \in Endings(tasks[t].kind)
    /\ tasks[t].cancelled => intent \in {"stopped", "failed"}
    /\ tasks' = [tasks EXCEPT ![t].pc = "settle", ![t].intent = intent]
    /\ UNCHANGED <<rows, ledger, registry, signals, procs, reap>>

(* registry.remove: by id, whoever registered. (An entry parked by a pause  *)
(* stays in the code, as a lock token whose task has ended: see TurnStream.) *)
Release(t) == registry' = [registry EXCEPT ![tasks[t].proc][tasks[t].gen] = None]

(* _aworker_transition, first attempt: fenced on the last snapshot held. *)
Settle(t) ==
    /\ tasks[t].pc = "settle"
    /\ Serving(t)
    /\ IF Matches(Row(t), tasks[t].seen.version, LegalFrom(tasks[t].intent))
       THEN /\ \E roll \in 0..MaxRoll : Write(t, Settled(Row(t), tasks[t].intent, roll))
            /\ Finish(t)
            /\ Release(t)
       ELSE Goto(t, "reread") /\ UNCHANGED <<rows, registry>>
    /\ UNCHANGED <<ledger, signals, procs, reap>>

(* Mutant: a refused transition is not tried again. *)
GiveUp(t) ==
    /\ tasks[t].pc = "reread"
    /\ Serving(t)
    /\ Finish(t)
    /\ Release(t)
    /\ UNCHANGED <<rows, ledger, signals, procs, reap>>

(* Mutant: a Stop found by the second read does not change what is written. *)
RereadBlindly(t) ==
    /\ tasks[t].pc = "reread"
    /\ Serving(t)
    /\ tasks' = [tasks EXCEPT ![t].pc = "retry", ![t].seen = Row(t)]
    /\ UNCHANGED <<rows, ledger, registry, signals, procs, reap>>

(* Refused: read again. An unmoved version gives up; a Stop found there     *)
(* turns a completion or a pause into `stopped`.                            *)
Reread(t) ==
    /\ tasks[t].pc = "reread"
    /\ Serving(t)
    /\ \/ /\ Row(t).version = tasks[t].seen.version
          /\ Finish(t)
          /\ Release(t)
       \/ /\ Row(t).version # tasks[t].seen.version
          /\ tasks' = [tasks EXCEPT
                ![t].pc = "retry", ![t].seen = Row(t),
                ![t].intent = IF Row(t).status = "stop_requested" /\ @ # "failed"
                              THEN "stopped" ELSE @]
          /\ UNCHANGED registry
    /\ UNCHANGED <<rows, ledger, signals, procs, reap>>

(* Second and last attempt: a refusal here is only logged. *)
Retry(t) ==
    /\ tasks[t].pc = "retry"
    /\ Serving(t)
    /\ IF Matches(Row(t), tasks[t].seen.version, LegalFrom(tasks[t].intent))
       THEN \E roll \in 0..MaxRoll : Write(t, Settled(Row(t), tasks[t].intent, roll))
       ELSE UNCHANGED rows
    /\ Finish(t)
    /\ Release(t)
    /\ UNCHANGED <<ledger, signals, procs, reap>>

-----------------------------------------------------------------------------
(* Processes: boot and reap, shut down, exit. *)

FailActiveOf(producers) ==
    rows' = [g \in Generations |->
                IF IsActive(rows[g]) /\ rows[g].producer \in producers
                THEN FailActive(rows[g]) ELSE rows[g]]

(* Mutant: every other process of this host is taken for dead. *)
AnyOther(p, q) == HostOf[q] = HostOf[p] /\ q # p

(* is_producer_alive is FALSE only for a departed process of this host; any *)
(* other host's is unknown.                                                 *)
ProvablyDead(p, q) == HostOf[q] = HostOf[p] /\ procs[q] = "gone"

Boot(p) ==
    /\ procs[p] = "off"
    /\ procs' = [procs EXCEPT ![p] = "booting"]
    /\ reap' = [reap EXCEPT ![p] =
            {q \in Processes : ProvablyDead(p, q) /\
                               \E g \in Generations : IsActive(rows[g]) /\ rows[g].producer = q}]
    /\ UNCHANGED <<rows, ledger, tasks, registry, signals>>

ReclaimOrphans(p) ==
    /\ procs[p] = "booting"
    /\ FailActiveOf(reap[p])
    /\ procs' = [procs EXCEPT ![p] = "up"]
    /\ reap' = [reap EXCEPT ![p] = {}]
    /\ UNCHANGED <<ledger, tasks, registry, signals>>

(* The lifespan's shutdown half; tasks not finished yet keep running. *)
Shutdown(p) ==
    /\ procs[p] = "up"
    /\ FailActiveOf({p})
    /\ procs' = [procs EXCEPT ![p] = "closing"]
    /\ UNCHANGED <<ledger, tasks, registry, signals, reap>>

(* A crash, or the end of a shutdown: whatever the process held is lost. *)
Exit(p) ==
    /\ procs[p] \in {"booting", "up", "closing"}
    /\ procs' = [procs EXCEPT ![p] = "gone"]
    /\ tasks' = [t \in Tasks |-> IF tasks[t].proc = p /\ tasks[t].pc # "done"
                                 THEN Over(tasks[t], "dead") ELSE tasks[t]]
    /\ registry' = [registry EXCEPT ![p] = [g \in Generations |-> None]]
    /\ signals' = {s \in signals : s[1] # p}
    /\ reap' = [reap EXCEPT ![p] = {}]
    /\ UNCHANGED <<rows, ledger>>

-----------------------------------------------------------------------------
TaskStep(t) ==
    \/ EnterRunning(t) \/ ClaimCommand(t) \/ DecideStop(t) \/ PublishStop(t)
    \/ Lease(t) \/ RecordResult(t) \/ CancelLocally(t) \/ Reclaim(t)
    \/ \E intent \in Intents : EndStream(t, intent)
    \/ Settle(t) \/ Reread(t) \/ Retry(t)

Arrival ==
    \E t \in Tasks, p \in Processes, g \in Generations :
        \/ StartTurn(t, p, g)
        \/ SendResume(t, p, g)
        \/ \E k \in Keys : SendStop(t, p, g, k) \/ SendContinue(t, p, g, k)

ProcessStep == \E p \in Processes : Boot(p) \/ ReclaimOrphans(p) \/ Shutdown(p) \/ Exit(p)

Delivery == \E p \in Processes, g \in Generations : HandleStopSignal(p, g) \/ ExpireEntry(p, g)

Next == Arrival \/ (\E t \in Tasks : TaskStep(t)) \/ Delivery \/ ProcessStep

Spec == Init /\ [][Next]_vars

(* Requests run to their end while their process does: every await of a     *)
(* worker is bounded (provider timeouts, the turn's execution budget, the   *)
(* cancel flag checked before each event). Nothing else is assumed: clients *)
(* need not send anything, signals may be lost, processes need not return.  *)
FairSpec == Spec /\ \A t \in Tasks : WF_vars(TaskStep(t))

-----------------------------------------------------------------------------
(* Properties. *)

(* Every variable has the type its table, registry or process state has. *)
TypeOK ==
    /\ rows \in [Generations -> Snapshot]
    /\ ledger \in [Generations -> [Keys -> LedgerType]]
    /\ tasks \in [Tasks -> TaskType]
    /\ registry \in [Processes -> [Generations -> Tasks \union {None}]]
    /\ signals \subseteq Processes \X Generations
    /\ procs \in [Processes -> {"off", "booting", "up", "closing", "gone"}]
    /\ reap \in [Processes -> SUBSET Processes]

(* Task t holds generation g's row open: it must still settle it. *)
Owns(t, g) ==
    /\ tasks[t].gen = g
    /\ \/ tasks[t].pc \in {"opened", "streaming", "settle", "reread", "retry"}
       \/ tasks[t].pc = "record" /\ tasks[t].answer = "leased"

(* The process is not going away: its tasks run to their end. *)
Steady(p) == procs[p] = "up"

Leaving(p) == p \in Processes /\ ~Steady(p)

(* The only versions an owner's last snapshot may be behind by are none, or *)
(* the one a Stop added.                                                    *)
Fenced(t) ==
    \/ Row(t).version = tasks[t].seen.version
    \/ Row(t).status = "stop_requested" /\ Row(t).version = tasks[t].seen.version + 1

(* No active row is left without a worker: while the process named on an    *)
(* active row is up, one of its tasks still holds that row open, and a Stop *)
(* is all that can have moved the version past the snapshot that task       *)
(* fences on, so re-reading once is enough (_aworker_transition).           *)
ActiveRowsAreOwned ==
    \A g \in Generations :
        IsActive(rows[g]) /\ Steady(rows[g].producer) =>
            \E t \in Tasks : Owns(t, g) /\ tasks[t].proc = rows[g].producer /\ Fenced(t)

(* No row is settled under a running worker: a task of a process that is up *)
(* finds its row active and stamped with its own process until it settles   *)
(* the row itself. The reaper of another process, a Stop, a Continue or an  *)
(* approval resume never takes it away.                                     *)
OwnersKeepTheirRows ==
    \A t \in Tasks, g \in Generations :
        Owns(t, g) /\ Steady(tasks[t].proc) =>
            IsActive(rows[g]) /\ rows[g].producer = tasks[t].proc

(* The second attempt of _aworker_transition cannot be refused. *)
RetrySucceeds ==
    \A t \in Tasks :
        tasks[t].pc = "retry" /\ Steady(tasks[t].proc) =>
            Matches(Row(t), tasks[t].seen.version, LegalFrom(tasks[t].intent))

(* Two tasks never run the same conversation at once, unless the process of *)
(* one of them is shutting down and gave its row up.                        *)
OneStreamPerConversation ==
    \A t, u \in Tasks : \A g, h \in Generations :
        /\ Owns(t, g) /\ Owns(u, h)
        /\ Steady(tasks[t].proc) /\ Steady(tasks[u].proc)
        /\ ConversationOf[g] = ConversationOf[h]
        => t = u

(* A cancel reaches no turn that was not stopped. Signals and local cancels *)
(* carry only a generation id, so a Stop delayed past the turn it was meant *)
(* for must find that turn over, never a later epoch of it.                 *)
CancelMeansStopped ==
    \A t \in Tasks :
        tasks[t].cancelled => Row(t).status \in TerminalStatuses \union {"stop_requested"}

(* One continuation opens one epoch: however Continues are retried, raced   *)
(* or replayed, no two of them lease the same epoch of a generation.        *)
EpochLeasedOnce ==
    \A t, u \in Tasks :
        /\ tasks[t].leased # 0
        /\ tasks[u].leased = tasks[t].leased
        /\ tasks[u].gen = tasks[t].gen
        => t = u

(* Two attempts of one command under one key get one answer, except an      *)
(* attempt that meets the other still in progress, or an unrecorded error.  *)
ReplayAnswersTheSame ==
    \A t, u \in Tasks :
        LET a == tasks[t].answer  b == tasks[u].answer IN
        /\ tasks[t].key # None /\ tasks[u].key = tasks[t].key
        /\ tasks[u].gen = tasks[t].gen /\ tasks[u].kind = tasks[t].kind
        /\ {a, b} \intersect {"none", "in_progress", "error"} = {}
        => a = b

(* A Stop that is sent again is issued again: one whose fence is the row's  *)
(* current version, against an active row, is not turned away as stale      *)
(* (stop_message_generation on the key it derives for a retry).             *)
StopIsReissued ==
    [][\A t \in Tasks :
          /\ tasks[t].pc = "claim" /\ tasks[t].kind = "stop"
          /\ tasks[t].fence = Row(t).version /\ IsActive(Row(t))
          => tasks'[t].answer # "stale"]_vars

(* An active row does not stay active: its turn is settled or paused,       *)
(* unless its process goes away first.                                      *)
ActiveRowsSettle ==
    \A g \in Generations :
        IsActive(rows[g]) ~> ~IsActive(rows[g]) \/ Leaving(rows[g].producer)

(* The refinement mapping: a row seen as a phase of its turn. *)
PhaseOf(row) ==
    IF row.status = "absent" THEN "none"
    ELSE IF row.status = "stop_requested" THEN "stopping"
    ELSE IF IsActive(row) THEN "live"
    ELSE IF row.status \in TerminalStatuses THEN "ended"
    ELSE IF row.block = "none" THEN "offered"
    ELSE IF row.block = "tool_approval_required" THEN "asking"
    ELSE "blocked"

Lifecycle == INSTANCE GenerationLifecycle
                WITH phase <- [g \in Generations |-> PhaseOf(rows[g])],
                     epoch <- [g \in Generations |-> rows[g].epoch]

(* Every write any task or process makes to a row is a step its lifecycle   *)
(* allows: a stop is never undone, an ended turn never revived, a pause     *)
(* left only by its own way out, and a conversation never has two busy      *)
(* turns, whatever races, crashes and retries happen.                       *)
ImplementsLifecycle == Lifecycle!Spec

=============================================================================
