----------------------- MODULE GenerationOwnershipProofs ----------------------
(***************************************************************************)
(* Who may write a generation's row, and what its commands may answer: the  *)
(* safety invariants of GenerationControl, for every set of generations,    *)
(* processes, tasks and keys.                                               *)
(*                                                                          *)
(* The first part says what each action does to the task that takes it, to  *)
(* the rows and to the ledger, field by field; the three inductive          *)
(* invariants below are then shown from that.                               *)
(***************************************************************************)
EXTENDS GenerationControlProofs

-----------------------------------------------------------------------------
(* The task that takes a step, afterwards; the others are as they were. *)
Moves(t, pc, seen, intent, answer, leased, cancelled) ==
    /\ \A u \in Tasks \ {t} : tasks'[u] = tasks[u]
    /\ tasks'[t].pc = pc
    /\ tasks'[t].kind = tasks[t].kind
    /\ tasks'[t].proc = tasks[t].proc
    /\ tasks'[t].gen = tasks[t].gen
    /\ tasks'[t].key = tasks[t].key
    /\ tasks'[t].seen = seen
    /\ tasks'[t].intent = intent
    /\ tasks'[t].answer = answer
    /\ tasks'[t].leased = leased
    /\ tasks'[t].cancelled = cancelled

(* It ends, keeping what it was and what it leased. *)
Leaves(t, answer) ==
    Moves(t, "done", NoRow(None), "none", answer, tasks[t].leased, FALSE)

(* It answers, or just goes on. *)
Replies(t, pc, answer) ==
    Moves(t, pc, tasks[t].seen, tasks[t].intent, answer, tasks[t].leased, tasks[t].cancelled)

(* It runs the graph, or settles the row without having run it. *)
Opened(t, snapshot, intents) ==
    \/ /\ Moves(t, "streaming", snapshot, tasks[t].intent, tasks[t].answer, tasks[t].leased,
                tasks[t].cancelled)
       /\ registry' = [registry EXCEPT ![tasks[t].proc][tasks[t].gen] = t]
    \/ /\ \E i \in intents :
             Moves(t, "settle", snapshot, i, tasks[t].answer, tasks[t].leased, tasks[t].cancelled)
       /\ UNCHANGED registry

(* A request arrives at process p, about generation g. *)
Arrives(t, pc, kind, p, g, key, seen) ==
    /\ tasks[t].pc = "idle"
    /\ procs[p] = "up"
    /\ \A u \in Tasks \ {t} : tasks'[u] = tasks[u]
    /\ tasks'[t].pc = pc
    /\ tasks'[t].kind = kind
    /\ tasks'[t].proc = p
    /\ tasks'[t].gen = g
    /\ tasks'[t].key = key
    /\ tasks'[t].seen = seen
    /\ tasks'[t].answer = "none"
    /\ tasks'[t].leased = 0
    /\ tasks'[t].cancelled = FALSE

(* One row is written. *)
Rewrites(g, row) == rows'[g] = row /\ \A h \in Generations \ {g} : rows'[h] = rows[h]

(* What a task under way has. *)
LEMMA UnderWay ==
    ASSUME TypeInv, NEW t \in Tasks, tasks[t].pc # "idle"
    PROVE  /\ tasks[t] \in TaskType
           /\ tasks[t].proc \in Processes
           /\ tasks[t].gen \in Generations
           /\ Row(t) = rows[tasks[t].gen]
           /\ Row(t) \in Snapshot
  BY DEF TypeInv, TypeOK, Placed, Row

(* A write of a task is a write of its row. *)
LEMMA WriteView ==
    ASSUME TypeInv, NEW t \in Tasks, tasks[t].pc # "idle", NEW row, Write(t, row)
    PROVE  Rewrites(tasks[t].gen, row)
  <1>1. tasks[t].gen \in Generations
    BY UnderWay
  <1> QED
    BY <1>1 DEF Write, Rewrites, TypeInv, TypeOK

(* What Goto does, field by field. *)
LEMMA GotoView ==
    ASSUME TypeInv, NEW t \in Tasks, NEW pc, Goto(t, pc)
    PROVE  Replies(t, pc, tasks[t].answer)
  <1> DEFINE task == [tasks[t] EXCEPT !.pc = pc]
  <1>1. tasks[t] \in TaskType /\ tasks \in [Tasks -> TaskType]
    BY DEF TypeInv, TypeOK
  <1>2. /\ task.pc = pc /\ task.proc = tasks[t].proc /\ task.kind = tasks[t].kind
        /\ task.gen = tasks[t].gen /\ task.key = tasks[t].key /\ task.seen = tasks[t].seen
        /\ task.intent = tasks[t].intent /\ task.answer = tasks[t].answer
        /\ task.leased = tasks[t].leased /\ task.cancelled = tasks[t].cancelled
    BY <1>1 DEF TaskType
  <1>3. tasks' = [tasks EXCEPT ![t] = task]
    BY DEF Goto
  <1>4. tasks'[t] = task /\ \A u \in Tasks \ {t} : tasks'[u] = tasks[u]
    BY <1>1, <1>3
  <1> HIDE DEF task
  <1> QED
    BY <1>2, <1>4 DEF Replies, Moves

(* What Answered does, field by field. *)
LEMMA AnsweredView ==
    ASSUME TypeInv, NEW t \in Tasks, NEW pc, NEW answer, Answered(t, answer, pc)
    PROVE  Replies(t, pc, answer)
  <1> DEFINE task == [tasks[t] EXCEPT !.answer = answer, !.pc = pc]
  <1>1. tasks[t] \in TaskType /\ tasks \in [Tasks -> TaskType]
    BY DEF TypeInv, TypeOK
  <1>2. /\ task.pc = pc /\ task.proc = tasks[t].proc /\ task.kind = tasks[t].kind
        /\ task.gen = tasks[t].gen /\ task.key = tasks[t].key /\ task.seen = tasks[t].seen
        /\ task.intent = tasks[t].intent /\ task.answer = answer
        /\ task.leased = tasks[t].leased /\ task.cancelled = tasks[t].cancelled
    BY <1>1 DEF TaskType
  <1>3. tasks' = [tasks EXCEPT ![t] = task]
    BY <1>1 DEF Answered
  <1>4. tasks'[t] = task /\ \A u \in Tasks \ {t} : tasks'[u] = tasks[u]
    BY <1>1, <1>3
  <1> HIDE DEF task
  <1> QED
    BY <1>2, <1>4 DEF Replies, Moves

(* What Over leaves of a task. *)
LEMMA OverView ==
    ASSUME NEW task \in TaskType, NEW pc
    PROVE  LET over == Over(task, pc) IN
           /\ over.pc = pc /\ over.kind = task.kind /\ over.proc = task.proc
           /\ over.gen = task.gen /\ over.key = task.key /\ over.seen = NoRow(None)
           /\ over.intent = "none" /\ over.answer = task.answer /\ over.leased = task.leased
           /\ over.cancelled = FALSE
  BY DEF Over, TaskType

(* What Finish does, field by field. *)
LEMMA FinishView ==
    ASSUME TypeInv, NEW t \in Tasks, Finish(t)
    PROVE  Leaves(t, tasks[t].answer)
  <1> DEFINE task == Over(tasks[t], "done")
  <1>1. tasks[t] \in TaskType /\ tasks \in [Tasks -> TaskType]
    BY DEF TypeInv, TypeOK
  <1>2. tasks'[t] = task /\ \A u \in Tasks \ {t} : tasks'[u] = tasks[u]
    BY <1>1 DEF Finish
  <1>3. /\ task.pc = "done" /\ task.kind = tasks[t].kind /\ task.proc = tasks[t].proc
        /\ task.gen = tasks[t].gen /\ task.key = tasks[t].key /\ task.seen = NoRow(None)
        /\ task.intent = "none" /\ task.answer = tasks[t].answer
        /\ task.leased = tasks[t].leased /\ task.cancelled = FALSE
    BY <1>1 DEF Over, TaskType
  <1> HIDE DEF task
  <1> QED
    BY <1>2, <1>3 DEF Leaves, Moves

(* What FinishWith does, field by field. *)
LEMMA FinishWithView ==
    ASSUME TypeInv, NEW t \in Tasks, NEW answer, FinishWith(t, answer)
    PROVE  Leaves(t, answer)
  <1> DEFINE over == Over(tasks[t], "done")
             task == [over EXCEPT !.answer = answer]
  <1>1. tasks[t] \in TaskType /\ tasks \in [Tasks -> TaskType]
    BY DEF TypeInv, TypeOK
  <1>2. tasks'[t] = task /\ \A u \in Tasks \ {t} : tasks'[u] = tasks[u]
    BY <1>1 DEF FinishWith
  <1>3. /\ over.pc = "done" /\ over.kind = tasks[t].kind /\ over.proc = tasks[t].proc
        /\ over.gen = tasks[t].gen /\ over.key = tasks[t].key /\ over.seen = NoRow(None)
        /\ over.intent = "none" /\ over.answer = tasks[t].answer
        /\ over.leased = tasks[t].leased /\ over.cancelled = FALSE
    BY <1>1 DEF Over, TaskType
  <1>4. over \in TaskType
    BY <1>1, OverTask DEF Pcs
  <1> HIDE DEF over
  <1>5. /\ task.pc = "done" /\ task.kind = tasks[t].kind /\ task.proc = tasks[t].proc
        /\ task.gen = tasks[t].gen /\ task.key = tasks[t].key /\ task.seen = NoRow(None)
        /\ task.intent = "none" /\ task.answer = answer
        /\ task.leased = tasks[t].leased /\ task.cancelled = FALSE
    BY <1>3, <1>4 DEF TaskType
  <1> HIDE DEF task
  <1> QED
    BY <1>2, <1>5 DEF Leaves, Moves

(* What Opened does, field by field. *)
LEMMA OpenedView ==
    ASSUME TypeInv, NEW t \in Tasks, NEW snapshot, NEW intents,
           Attach(t, snapshot) \/ \E i \in intents : Abandon(t, snapshot, i)
    PROVE  Opened(t, snapshot, intents)
  <1>1. tasks[t] \in TaskType /\ tasks \in [Tasks -> TaskType]
    BY DEF TypeInv, TypeOK
  <1>2. CASE Attach(t, snapshot)
    <2> DEFINE task == [tasks[t] EXCEPT !.pc = "streaming", !.seen = snapshot]
    <2>1. /\ task.pc = "streaming" /\ task.proc = tasks[t].proc /\ task.kind = tasks[t].kind
          /\ task.gen = tasks[t].gen /\ task.key = tasks[t].key /\ task.seen = snapshot
          /\ task.intent = tasks[t].intent /\ task.answer = tasks[t].answer
          /\ task.leased = tasks[t].leased /\ task.cancelled = tasks[t].cancelled
      BY <1>1 DEF TaskType
    <2>2. tasks' = [tasks EXCEPT ![t] = task]
      BY <1>1, <1>2 DEF Attach
    <2>3. tasks'[t] = task /\ \A u \in Tasks \ {t} : tasks'[u] = tasks[u]
      BY <1>1, <2>2
    <2> HIDE DEF task
    <2>4. Moves(t, "streaming", snapshot, tasks[t].intent, tasks[t].answer, tasks[t].leased,
                tasks[t].cancelled)
      BY <2>1, <2>3 DEF Moves
    <2> QED
      BY <1>2, <2>4 DEF Opened, Attach
  <1>3. ASSUME NEW i \in intents, Abandon(t, snapshot, i)
        PROVE  Opened(t, snapshot, intents)
    <2> DEFINE task == [tasks[t] EXCEPT !.pc = "settle", !.seen = snapshot, !.intent = i]
    <2>1. /\ task.pc = "settle" /\ task.proc = tasks[t].proc /\ task.kind = tasks[t].kind
          /\ task.gen = tasks[t].gen /\ task.key = tasks[t].key /\ task.seen = snapshot
          /\ task.intent = i /\ task.answer = tasks[t].answer
          /\ task.leased = tasks[t].leased /\ task.cancelled = tasks[t].cancelled
      BY <1>1 DEF TaskType
    <2>2. tasks' = [tasks EXCEPT ![t] = task]
      BY <1>1, <1>3 DEF Abandon
    <2>3. tasks'[t] = task /\ \A u \in Tasks \ {t} : tasks'[u] = tasks[u]
      BY <1>1, <2>2
    <2> HIDE DEF task
    <2>4. Moves(t, "settle", snapshot, i, tasks[t].answer, tasks[t].leased, tasks[t].cancelled)
      BY <2>1, <2>3 DEF Moves
    <2> QED
      BY <1>3, <2>4 DEF Opened, Abandon
  <1> QED
    BY <1>2, <1>3

-----------------------------------------------------------------------------
(* The actions, one by one. *)

(* What Arrives does, field by field. *)
LEMMA ArrivesView ==
    ASSUME TypeInv, NEW t \in Tasks, NEW p \in Processes, NEW g, NEW key, NEW kind, NEW pc,
           NEW seen, NEW fence, NEW cont, tasks[t].pc = "idle", procs[p] = "up",
           tasks' = [tasks EXCEPT ![t] = [Idle EXCEPT !.pc = pc, !.kind = kind, !.proc = p,
                        !.gen = g, !.key = key, !.fence = fence, !.cont = cont, !.seen = seen]]
    PROVE  Arrives(t, pc, kind, p, g, key, seen)
  <1> DEFINE task == [Idle EXCEPT !.pc = pc, !.kind = kind, !.proc = p,
                        !.gen = g, !.key = key, !.fence = fence, !.cont = cont, !.seen = seen]
  <1>1. tasks'[t] = task /\ \A u \in Tasks \ {t} : tasks'[u] = tasks[u]
    BY DEF TypeInv, TypeOK
  <1>2. /\ task.pc = pc /\ task.kind = kind /\ task.proc = p /\ task.gen = g /\ task.key = key
        /\ task.seen = seen /\ task.answer = "none" /\ task.leased = 0
        /\ task.cancelled = FALSE
    BY DEF Idle
  <1> HIDE DEF task
  <1> QED
    BY <1>1, <1>2 DEF Arrives

(* What StartTurn does, field by field. *)
LEMMA StartTurnView ==
    ASSUME TypeInv, NEW t \in Tasks, NEW p \in Processes, NEW g \in Generations,
           StartTurn(t, p, g)
    PROVE  /\ Arrives(t, "opened", "turn", p, g, None, Create(p))
           /\ rows[g].status = "absent"
           /\ IndexAdmits(g)
           /\ Rewrites(g, Create(p))
           /\ UNCHANGED <<ledger, registry, signals, procs, reap>>
  <1> DEFINE task == [Idle EXCEPT !.pc = "opened", !.kind = "turn",
                                  !.proc = p, !.gen = g, !.seen = Create(p)]
  <1>1. tasks'[t] = task /\ \A u \in Tasks \ {t} : tasks'[u] = tasks[u]
    BY DEF TypeInv, TypeOK, StartTurn
  <1>2. /\ task.pc = "opened" /\ task.kind = "turn" /\ task.proc = p /\ task.gen = g
        /\ task.key = None /\ task.seen = Create(p) /\ task.answer = "none" /\ task.leased = 0
        /\ task.cancelled = FALSE
    BY DEF Idle
  <1> HIDE DEF task
  <1>3. Arrives(t, "opened", "turn", p, g, None, Create(p))
    BY <1>1, <1>2 DEF Arrives, StartTurn
  <1>4. Rewrites(g, Create(p))
    BY DEF StartTurn, Rewrites, TypeInv, TypeOK
  <1> QED
    BY <1>3, <1>4 DEF StartTurn

(* What SendResume does, field by field. *)
LEMMA SendResumeView ==
    ASSUME TypeInv, NEW t \in Tasks, NEW p \in Processes, NEW g \in Generations,
           SendResume(t, p, g)
    PROVE  /\ Arrives(t, "reclaim", "resume", p, g, None, rows[g])
           /\ UNCHANGED <<rows, ledger, registry, signals, procs, reap>>
  <1> DEFINE task == [Idle EXCEPT !.pc = "reclaim", !.kind = "resume",
                                  !.proc = p, !.gen = g, !.seen = rows[g]]
  <1>1. tasks'[t] = task /\ \A u \in Tasks \ {t} : tasks'[u] = tasks[u]
    BY DEF TypeInv, TypeOK, SendResume
  <1>2. /\ task.pc = "reclaim" /\ task.kind = "resume" /\ task.proc = p /\ task.gen = g
        /\ task.key = None /\ task.seen = rows[g] /\ task.answer = "none" /\ task.leased = 0
        /\ task.cancelled = FALSE
    BY DEF Idle
  <1> HIDE DEF task
  <1> QED
    BY <1>1, <1>2 DEF Arrives, SendResume

(* What SendCommand does, field by field. *)
LEMMA SendCommandView ==
    ASSUME TypeInv, NEW t \in Tasks, NEW p \in Processes, NEW g \in Generations,
           NEW k \in Keys, SendStop(t, p, g, k) \/ SendContinue(t, p, g, k)
    PROVE  /\ \E kind \in {"stop", "continue"} : Arrives(t, "claim", kind, p, g, k, rows[g])
           /\ UNCHANGED <<rows, ledger, registry, signals, procs, reap>>
  <1>1. PICK kind \in {"stop", "continue"} :
           \E fence, cont : SendCommand(t, p, g, kind, k, fence, cont)
    BY Zenon DEF SendStop, SendContinue
  <1>2. PICK fence, cont : SendCommand(t, p, g, kind, k, fence, cont)
    BY <1>1
  <1>3. Arrives(t, "claim", kind, p, g, k, rows[g])
    BY <1>2, ArrivesView DEF SendCommand
  <1> QED
    BY <1>2, <1>3 DEF SendCommand

(* What EnterRunning does, field by field. *)
LEMMA EnterRunningView ==
    ASSUME TypeInv, NEW t \in Tasks, EnterRunning(t)
    PROVE  /\ tasks[t].pc = "opened" /\ Serving(t)
           /\ \/ /\ Matches(Row(t), tasks[t].seen.version, {"starting"})
                 /\ Rewrites(tasks[t].gen, MarkRunning(Row(t)))
                 /\ Opened(t, MarkRunning(Row(t)), {"stopped"})
              \/ /\ ~Matches(Row(t), tasks[t].seen.version, {"starting"})
                 /\ Rewrites(tasks[t].gen, Row(t))
                 /\ Opened(t, tasks[t].seen, {"stopped"})
           /\ UNCHANGED <<ledger, signals, procs, reap>>
  <1>1. tasks[t].pc = "opened" /\ Serving(t) /\ UNCHANGED <<ledger, signals, procs, reap>>
    BY DEF EnterRunning
  <1>2. CASE Matches(Row(t), tasks[t].seen.version, {"starting"})
    <2>1. /\ Write(t, MarkRunning(Row(t)))
          /\ Attach(t, MarkRunning(Row(t))) \/ Abandon(t, MarkRunning(Row(t)), "stopped")
      BY <1>2 DEF EnterRunning
    <2> QED
      BY <1>1, <1>2, <2>1, WriteView, OpenedView
  <1>3. CASE ~Matches(Row(t), tasks[t].seen.version, {"starting"})
    <2>1. /\ Write(t, Row(t))
          /\ Attach(t, tasks[t].seen) \/ Abandon(t, tasks[t].seen, "stopped")
      BY <1>3 DEF EnterRunning
    <2> QED
      BY <1>1, <1>3, <2>1, WriteView, OpenedView
  <1> QED
    BY <1>2, <1>3

(* What ClaimCommand does, field by field. *)
LEMMA ClaimCommandView ==
    ASSUME TypeInv, NEW t \in Tasks, ClaimCommand(t)
    PROVE  /\ tasks[t].pc = "claim" /\ Serving(t)
           /\ \/ /\ Entry(t).state = "free"
                 /\ ledger' = [ledger EXCEPT ![tasks[t].gen][tasks[t].key] =
                       [state |-> "claimed", action |-> tasks[t].kind, answer |-> "none"]]
                 /\ Replies(t, "decide", tasks[t].answer)
              \/ /\ Entry(t).state # "free"
                 /\ Replayed(t) \in {"stop_requested", "completed_partial"}
                 /\ Replies(t, "cancel", Replayed(t))
                 /\ UNCHANGED ledger
              \/ /\ Entry(t).state # "free"
                 /\ Leaves(t, Replayed(t))
                 /\ UNCHANGED ledger
           /\ UNCHANGED <<rows, registry, signals, procs, reap>>
  BY GotoView, AnsweredView, FinishWithView DEF ClaimCommand

(* What DecideStop does, field by field. *)
LEMMA DecideStopView ==
    ASSUME RowInv, NEW t \in Tasks, DecideStop(t)
    PROVE  /\ tasks[t].pc = "decide" /\ tasks[t].kind = "stop" /\ Serving(t)
           /\ \/ /\ \E answer \in {"stale", "illegal"} : Replies(t, "record", answer)
                 /\ UNCHANGED rows
              \/ /\ tasks[t].seen.status = "stop_requested"
                 /\ Replies(t, "record", "stop_requested")
                 /\ UNCHANGED rows
              \/ /\ Row(t).status = "continuable"
                 /\ Rewrites(tasks[t].gen, AcceptPartial(Row(t)))
                 /\ Replies(t, "record", "completed_partial")
              \/ /\ IsActive(Row(t)) /\ Row(t).status # "stop_requested"
                 /\ Rewrites(tasks[t].gen, RequestWorkerStop(Row(t)))
                 /\ Replies(t, "publish", "stop_requested")
           /\ UNCHANGED <<ledger, registry, signals, procs, reap>>
  <1>1. TypeInv /\ tasks[t].pc = "decide"
    BY DEF DecideStop, RowInv
  <1>2. tasks[t].seen.version = Row(t).version => tasks[t].seen = Row(t)
    BY <1>1 DEF RowInv, SnapshotsCurrent
  <1>3. \/ \E answer \in {"stale", "illegal"} : Refuse(t, answer)
        \/ /\ tasks[t].seen.status = "stop_requested"
           /\ Answered(t, "stop_requested", "record") /\ UNCHANGED rows
        \/ /\ Row(t).status = "continuable"
           /\ Write(t, AcceptPartial(Row(t))) /\ Answered(t, "completed_partial", "record")
        \/ /\ tasks[t].seen.status \in ActiveStatuses \ {"stop_requested"}
           /\ tasks[t].seen.version = Row(t).version
           /\ Write(t, RequestWorkerStop(Row(t))) /\ Answered(t, "stop_requested", "publish")
    BY DEF DecideStop, Matches
  <1> QED
    BY <1>1, <1>2, <1>3, WriteView, AnsweredView DEF Refuse, DecideStop, IsActive

(* What PublishStop does, field by field. *)
LEMMA PublishStopView ==
    ASSUME TypeInv, NEW t \in Tasks, PublishStop(t)
    PROVE  /\ tasks[t].pc = "publish" /\ Serving(t)
           /\ \A s \in signals' : s \in signals \/ s[2] = tasks[t].gen
           /\ Replies(t, "record", tasks[t].answer)
           /\ UNCHANGED <<rows, ledger, registry, procs, reap>>
  <1>1. PICK reached \in SUBSET Processes : signals' = signals \union (reached \X {tasks[t].gen})
    BY DEF PublishStop
  <1>2. \A s \in signals' : s \in signals \/ s[2] = tasks[t].gen
    BY <1>1
  <1> QED
    BY <1>2, GotoView DEF PublishStop

(* What Lease does, field by field. *)
LEMMA LeaseView ==
    ASSUME RowInv, NEW t \in Tasks, Lease(t)
    PROVE  LET leased == LeaseEpoch(Row(t), tasks[t].proc) IN
           /\ tasks[t].pc = "decide" /\ tasks[t].kind = "continue" /\ Serving(t)
           /\ \/ /\ \E answer \in {"stale", "unavailable"} : Replies(t, "record", answer)
                 /\ UNCHANGED rows
              \/ Leaves(t, "error") /\ UNCHANGED rows
              \/ /\ Row(t).status = "continuable"
                 /\ IndexAdmits(tasks[t].gen)
                 /\ Rewrites(tasks[t].gen, leased)
                 /\ Moves(t, "record", leased, tasks[t].intent, "leased", leased.epoch,
                          tasks[t].cancelled)
           /\ UNCHANGED <<ledger, registry, signals, procs, reap>>
  <1> DEFINE leased == LeaseEpoch(Row(t), tasks[t].proc)
             task == [tasks[t] EXCEPT !.answer = "leased", !.pc = "record", !.seen = leased,
                                      !.leased = leased.epoch]
  <1>1. TypeInv /\ tasks[t].pc = "decide"
    BY DEF Lease, RowInv
  <1>2. tasks[t].seen.version = Row(t).version => tasks[t].seen = Row(t)
    BY <1>1 DEF RowInv, SnapshotsCurrent
  <1>3. Row(t).continuation # 0 => Row(t).status = "continuable"
    BY <1>1, UnderWay DEF RowInv, OffersAreOpen
  <1>4. \/ \E answer \in {"stale", "unavailable"} : Refuse(t, answer)
        \/ FinishWith(t, "error") /\ UNCHANGED rows
        \/ /\ tasks[t].seen.version = Row(t).version
           /\ tasks[t].seen.continuation # 0
           /\ IndexAdmits(tasks[t].gen)
           /\ Write(t, leased)
           /\ tasks' = [tasks EXCEPT ![t].answer = "leased", ![t].pc = "record",
                                     ![t].seen = leased, ![t].leased = leased.epoch]
    BY DEF Lease, Matches
  <1>5. ASSUME tasks' = [tasks EXCEPT ![t].answer = "leased", ![t].pc = "record",
                                      ![t].seen = leased, ![t].leased = leased.epoch]
        PROVE  Moves(t, "record", leased, tasks[t].intent, "leased", leased.epoch,
                     tasks[t].cancelled)
    <2> HIDE DEF leased
    <2>1. tasks[t] \in TaskType /\ tasks \in [Tasks -> TaskType]
      BY <1>1 DEF TypeInv, TypeOK
    <2>2. /\ task.pc = "record" /\ task.proc = tasks[t].proc /\ task.kind = tasks[t].kind
          /\ task.gen = tasks[t].gen /\ task.key = tasks[t].key /\ task.seen = leased
          /\ task.intent = tasks[t].intent /\ task.answer = "leased"
          /\ task.leased = leased.epoch /\ task.cancelled = tasks[t].cancelled
      BY <2>1 DEF TaskType
    <2>3. tasks' = [tasks EXCEPT ![t] = task]
      BY <1>5, <2>1
    <2>4. tasks'[t] = task /\ \A u \in Tasks \ {t} : tasks'[u] = tasks[u]
      BY <2>1, <2>3
    <2> HIDE DEF task
    <2> QED
      BY <2>2, <2>4 DEF Moves
  <1> HIDE DEF leased
  <1>6. \/ /\ \E answer \in {"stale", "unavailable"} : Replies(t, "record", answer)
           /\ UNCHANGED rows
        \/ Leaves(t, "error") /\ UNCHANGED rows
        \/ /\ Row(t).status = "continuable"
           /\ IndexAdmits(tasks[t].gen)
           /\ Rewrites(tasks[t].gen, leased)
           /\ Moves(t, "record", leased, tasks[t].intent, "leased", leased.epoch,
                    tasks[t].cancelled)
    BY <1>1, <1>2, <1>3, <1>4, <1>5, WriteView, AnsweredView, FinishWithView DEF Refuse
  <1> QED
    BY <1>6 DEF leased, Lease

(* What RecordResult does, field by field. *)
LEMMA RecordResultView ==
    ASSUME TypeInv, NEW t \in Tasks, RecordResult(t)
    PROVE  /\ tasks[t].pc = "record" /\ Serving(t)
           /\ ledger' = [ledger EXCEPT ![tasks[t].gen][tasks[t].key] =
                 IF @.state = "claimed"
                 THEN [@ EXCEPT !.state = "recorded", !.answer = tasks[t].answer] ELSE @]
           /\ \/ tasks[t].answer \in Errors /\ Leaves(t, tasks[t].answer) /\ UNCHANGED registry
              \/ /\ tasks[t].answer \notin Errors /\ tasks[t].kind = "stop"
                 /\ Replies(t, "cancel", tasks[t].answer) /\ UNCHANGED registry
              \/ /\ tasks[t].answer = "leased"
                 /\ Opened(t, tasks[t].seen, {"stopped"})
           /\ UNCHANGED <<rows, signals, procs, reap>>
  BY FinishView, GotoView, OpenedView DEF RecordResult

(* What Reclaim does, field by field. *)
LEMMA ReclaimView ==
    ASSUME TypeInv, NEW t \in Tasks, Reclaim(t)
    PROVE  LET resumed == MarkResumedAfterApproval(Row(t), tasks[t].proc) IN
           /\ tasks[t].pc = "reclaim" /\ Serving(t)
           /\ \/ /\ Row(t).status = "continuable"
                 /\ IndexAdmits(tasks[t].gen)
                 /\ Rewrites(tasks[t].gen, resumed)
                 /\ Opened(t, resumed, {"stopped", "failed"})
              \/ Leaves(t, "illegal") /\ UNCHANGED <<rows, registry>>
           /\ UNCHANGED <<ledger, signals, procs, reap>>
  <1> DEFINE resumed == MarkResumedAfterApproval(Row(t), tasks[t].proc)
  <1>1. tasks[t].pc = "reclaim"
    BY DEF Reclaim
  <1>2. \/ /\ Row(t).status = "continuable" /\ IndexAdmits(tasks[t].gen) /\ Write(t, resumed)
           /\ Attach(t, resumed) \/ \E i \in {"stopped", "failed"} : Abandon(t, resumed, i)
        \/ FinishWith(t, "illegal") /\ UNCHANGED <<rows, registry>>
    BY DEF Reclaim, Matches
  <1> HIDE DEF resumed
  <1>3. \/ /\ Row(t).status = "continuable"
           /\ IndexAdmits(tasks[t].gen)
           /\ Rewrites(tasks[t].gen, resumed)
           /\ Opened(t, resumed, {"stopped", "failed"})
        \/ Leaves(t, "illegal") /\ UNCHANGED <<rows, registry>>
    BY <1>1, <1>2, WriteView, OpenedView, FinishWithView
  <1> QED
    BY <1>3 DEF resumed, Reclaim

(* What EndStream does, field by field. *)
LEMMA EndStreamView ==
    ASSUME TypeInv, NEW t \in Tasks, NEW intent \in Intents, EndStream(t, intent)
    PROVE  /\ tasks[t].pc = "streaming" /\ Serving(t)
           /\ intent # "none"
           /\ Moves(t, "settle", tasks[t].seen, intent, tasks[t].answer, tasks[t].leased,
                    tasks[t].cancelled)
           /\ UNCHANGED <<rows, ledger, registry, signals, procs, reap>>
  <1> DEFINE task == [tasks[t] EXCEPT !.pc = "settle", !.intent = intent]
  <1>1. tasks[t] \in TaskType /\ tasks \in [Tasks -> TaskType]
    BY DEF TypeInv, TypeOK
  <1>2. /\ task.pc = "settle" /\ task.proc = tasks[t].proc /\ task.kind = tasks[t].kind
        /\ task.gen = tasks[t].gen /\ task.key = tasks[t].key /\ task.seen = tasks[t].seen
        /\ task.intent = intent /\ task.answer = tasks[t].answer
        /\ task.leased = tasks[t].leased /\ task.cancelled = tasks[t].cancelled
    BY <1>1 DEF TaskType
  <1>3. tasks' = [tasks EXCEPT ![t] = task]
    BY <1>1 DEF EndStream
  <1>4. tasks'[t] = task /\ \A u \in Tasks \ {t} : tasks'[u] = tasks[u]
    BY <1>1, <1>3
  <1>5. intent # "none"
    BY DEF EndStream, Endings
  <1> HIDE DEF task
  <1> QED
    BY <1>2, <1>4, <1>5 DEF Moves, EndStream

(* What Settle does, field by field. *)
LEMMA SettleView ==
    ASSUME TypeInv, NEW t \in Tasks, Settle(t)
    PROVE  /\ tasks[t].pc = "settle" /\ Serving(t)
           /\ \/ /\ Matches(Row(t), tasks[t].seen.version, LegalFrom(tasks[t].intent))
                 /\ \E roll \in 0..MaxRoll :
                      Rewrites(tasks[t].gen, Settled(Row(t), tasks[t].intent, roll))
                 /\ Leaves(t, tasks[t].answer)
                 /\ Release(t)
              \/ /\ ~Matches(Row(t), tasks[t].seen.version, LegalFrom(tasks[t].intent))
                 /\ Replies(t, "reread", tasks[t].answer)
                 /\ UNCHANGED <<rows, registry>>
           /\ UNCHANGED <<ledger, signals, procs, reap>>
  BY WriteView, FinishView, GotoView DEF Settle

(* What Reread does, field by field. *)
LEMMA RereadView ==
    ASSUME TypeInv, NEW t \in Tasks, Reread(t)
    PROVE  /\ tasks[t].pc = "reread" /\ Serving(t)
           /\ \/ /\ Row(t).version = tasks[t].seen.version
                 /\ Leaves(t, tasks[t].answer)
                 /\ Release(t)
              \/ /\ Row(t).version # tasks[t].seen.version
                 /\ Moves(t, "retry", Row(t),
                          IF Row(t).status = "stop_requested" /\ tasks[t].intent # "failed"
                          THEN "stopped" ELSE tasks[t].intent,
                          tasks[t].answer, tasks[t].leased, tasks[t].cancelled)
                 /\ UNCHANGED registry
           /\ UNCHANGED <<rows, ledger, signals, procs, reap>>
  <1> DEFINE i == IF Row(t).status = "stop_requested" /\ tasks[t].intent # "failed"
                  THEN "stopped" ELSE tasks[t].intent
             task == [tasks[t] EXCEPT !.pc = "retry", !.seen = Row(t), !.intent = i]
  <1>1. tasks[t] \in TaskType /\ tasks \in [Tasks -> TaskType]
    BY DEF TypeInv, TypeOK
  <1>2. \/ Row(t).version = tasks[t].seen.version /\ Finish(t) /\ Release(t)
        \/ /\ Row(t).version # tasks[t].seen.version
           /\ tasks' = [tasks EXCEPT ![t] = task]
           /\ UNCHANGED registry
    BY <1>1 DEF Reread
  <1> HIDE DEF i
  <1>3. /\ task.pc = "retry" /\ task.proc = tasks[t].proc /\ task.kind = tasks[t].kind
        /\ task.gen = tasks[t].gen /\ task.key = tasks[t].key /\ task.seen = Row(t)
        /\ task.intent = i /\ task.answer = tasks[t].answer
        /\ task.leased = tasks[t].leased /\ task.cancelled = tasks[t].cancelled
    BY <1>1 DEF TaskType
  <1> HIDE DEF task
  <1>4. ASSUME tasks' = [tasks EXCEPT ![t] = task]
        PROVE  Moves(t, "retry", Row(t), i, tasks[t].answer, tasks[t].leased, tasks[t].cancelled)
    <2>1. tasks'[t] = task /\ \A u \in Tasks \ {t} : tasks'[u] = tasks[u]
      BY <1>1, <1>4
    <2> QED
      BY <1>3, <2>1 DEF Moves
  <1>5. \/ /\ Row(t).version = tasks[t].seen.version /\ Leaves(t, tasks[t].answer) /\ Release(t)
        \/ /\ Row(t).version # tasks[t].seen.version
           /\ Moves(t, "retry", Row(t), i, tasks[t].answer, tasks[t].leased, tasks[t].cancelled)
           /\ UNCHANGED registry
    BY <1>2, <1>4, FinishView
  <1> QED
    BY <1>5 DEF Reread, i

(* What Retry does, field by field. *)
LEMMA RetryView ==
    ASSUME TypeInv, NEW t \in Tasks, Retry(t)
    PROVE  /\ tasks[t].pc = "retry" /\ Serving(t)
           /\ \/ /\ Matches(Row(t), tasks[t].seen.version, LegalFrom(tasks[t].intent))
                 /\ \E roll \in 0..MaxRoll :
                      Rewrites(tasks[t].gen, Settled(Row(t), tasks[t].intent, roll))
              \/ /\ ~Matches(Row(t), tasks[t].seen.version, LegalFrom(tasks[t].intent))
                 /\ UNCHANGED rows
           /\ Leaves(t, tasks[t].answer)
           /\ Release(t)
           /\ UNCHANGED <<ledger, signals, procs, reap>>
  BY WriteView, FinishView DEF Retry

(* A cancel sets flags and nothing else. *)
LEMMA CancelledView ==
    ASSUME TypeInv, NEW p \in Processes, NEW g \in Generations, NEW ts \in [Tasks -> TaskType],
           NEW u \in Tasks
    PROVE  LET new == Cancelled(p, g, ts) IN
           /\ new[u].pc = ts[u].pc /\ new[u].kind = ts[u].kind /\ new[u].proc = ts[u].proc
           /\ new[u].gen = ts[u].gen /\ new[u].key = ts[u].key /\ new[u].seen = ts[u].seen
           /\ new[u].intent = ts[u].intent /\ new[u].answer = ts[u].answer
           /\ new[u].leased = ts[u].leased
           /\ u # registry[p][g] => new[u] = ts[u]
  <1> DEFINE v == registry[p][g]
             task == [ts[v] EXCEPT !.cancelled = TRUE]
  <1>1. CASE registry[p][g] = None
    BY <1>1 DEF Cancelled
  <1>2. CASE registry[p][g] # None
    <2>1. v \in Tasks
      BY <1>2 DEF TypeInv, TypeOK
    <2>2. Cancelled(p, g, ts) = [ts EXCEPT ![v] = task]
      BY <1>2 DEF Cancelled
    <2> HIDE DEF v
    <2>3. /\ task.pc = ts[v].pc /\ task.kind = ts[v].kind /\ task.proc = ts[v].proc
          /\ task.gen = ts[v].gen /\ task.key = ts[v].key /\ task.seen = ts[v].seen
          /\ task.intent = ts[v].intent /\ task.answer = ts[v].answer
          /\ task.leased = ts[v].leased
      BY <2>1 DEF TaskType
    <2> HIDE DEF task
    <2>4. CASE u = v
      <3>1. Cancelled(p, g, ts)[u] = task
        BY <2>1, <2>2, <2>4
      <3> QED
        BY <2>3, <2>4, <3>1 DEF v
    <2>5. CASE u # v
      <3>1. Cancelled(p, g, ts)[u] = ts[u]
        BY <2>1, <2>2, <2>5
      <3> QED
        BY <3>1
    <2> QED
      BY <2>4, <2>5
  <1> QED
    BY <1>1, <1>2

(* What a step that ends no other task keeps of task u. *)
KeepsTask(u) ==
    /\ tasks'[u].pc = tasks[u].pc /\ tasks'[u].kind = tasks[u].kind
    /\ tasks'[u].proc = tasks[u].proc /\ tasks'[u].gen = tasks[u].gen
    /\ tasks'[u].key = tasks[u].key /\ tasks'[u].seen = tasks[u].seen
    /\ tasks'[u].intent = tasks[u].intent /\ tasks'[u].answer = tasks[u].answer
    /\ tasks'[u].leased = tasks[u].leased

(* It is over: it keeps what it was and what it answered. *)
IsOver(u, pc) ==
    /\ tasks'[u].pc = pc /\ tasks'[u].kind = tasks[u].kind
    /\ tasks'[u].proc = tasks[u].proc /\ tasks'[u].gen = tasks[u].gen
    /\ tasks'[u].key = tasks[u].key /\ tasks'[u].seen = NoRow(None)
    /\ tasks'[u].intent = "none" /\ tasks'[u].answer = tasks[u].answer
    /\ tasks'[u].leased = tasks[u].leased

(* What CancelLocally does, field by field. *)
LEMMA CancelLocallyView ==
    ASSUME TypeInv, NEW t \in Tasks, CancelLocally(t)
    PROVE  /\ tasks[t].pc = "cancel" /\ Serving(t)
           /\ \A u \in Tasks \ {t} : KeepsTask(u)
           /\ IsOver(t, "done")
           /\ \A u \in Tasks :
                tasks'[u].cancelled =>
                  \/ u # t /\ tasks[u].cancelled
                  \/ /\ tasks[t].answer # "completed_partial"
                     /\ u = registry[tasks[t].proc][tasks[t].gen]
           /\ UNCHANGED <<rows, ledger, registry, signals, procs, reap>>
  <1> DEFINE over == Over(tasks[t], "done")
             finished == [tasks EXCEPT ![t] = over]
             p == tasks[t].proc
             g == tasks[t].gen
  <1>1. /\ tasks[t].pc = "cancel" /\ Serving(t)
        /\ UNCHANGED <<rows, ledger, registry, signals, procs, reap>>
    BY DEF CancelLocally
  <1>2. /\ tasks[t] \in TaskType /\ tasks \in [Tasks -> TaskType]
        /\ p \in Processes /\ g \in Generations
    BY <1>1, UnderWay DEF TypeInv, TypeOK
  <1>3. over \in TaskType
    BY <1>2, OverTask DEF Pcs
  <1>4. /\ over.pc = "done" /\ over.kind = tasks[t].kind /\ over.proc = tasks[t].proc
        /\ over.gen = tasks[t].gen /\ over.key = tasks[t].key /\ over.seen = NoRow(None)
        /\ over.intent = "none" /\ over.answer = tasks[t].answer
        /\ over.leased = tasks[t].leased /\ over.cancelled = FALSE
    BY <1>2 DEF Over, TaskType
  <1>5. \/ tasks[t].answer = "completed_partial" /\ tasks' = finished
        \/ tasks[t].answer # "completed_partial" /\ tasks' = Cancelled(p, g, finished)
    BY DEF CancelLocally
  <1> HIDE DEF over, p, g
  <1>6. /\ finished \in [Tasks -> TaskType] /\ finished[t] = over
        /\ \A u \in Tasks \ {t} : finished[u] = tasks[u]
    BY <1>2, <1>3
  <1> HIDE DEF finished
  <1>7. \A u \in Tasks :
           /\ tasks'[u].pc = finished[u].pc /\ tasks'[u].kind = finished[u].kind
           /\ tasks'[u].proc = finished[u].proc /\ tasks'[u].gen = finished[u].gen
           /\ tasks'[u].key = finished[u].key /\ tasks'[u].seen = finished[u].seen
           /\ tasks'[u].intent = finished[u].intent /\ tasks'[u].answer = finished[u].answer
           /\ tasks'[u].leased = finished[u].leased
           /\ tasks'[u] = finished[u]
              \/ (tasks[t].answer # "completed_partial" /\ u = registry[p][g])
    BY <1>2, <1>5, <1>6, CancelledView
  <1>8. /\ \A u \in Tasks \ {t} : KeepsTask(u)
        /\ IsOver(t, "done")
    BY <1>4, <1>6, <1>7 DEF KeepsTask, IsOver
  <1>9. ASSUME NEW u \in Tasks, tasks'[u].cancelled,
               ~(tasks[t].answer # "completed_partial" /\ u = registry[p][g])
        PROVE  u # t /\ tasks[u].cancelled
    <2>1. tasks'[u] = finished[u]
      BY <1>7, <1>9
    <2>2. finished[u].cancelled
      BY <1>9, <2>1
    <2>3. u # t
      BY <1>4, <1>6, <2>2
    <2> QED
      BY <1>6, <2>2, <2>3
  <1> QED
    BY <1>1, <1>8, <1>9 DEF p, g

(* What HandleStopSignal does, field by field. *)
LEMMA HandleStopSignalView ==
    ASSUME TypeInv, NEW p \in Processes, NEW g \in Generations, HandleStopSignal(p, g)
    PROVE  /\ <<p, g>> \in signals
           /\ signals' \subseteq signals
           /\ \A u \in Tasks : KeepsTask(u)
           /\ \A u \in Tasks : tasks'[u].cancelled => tasks[u].cancelled \/ u = registry[p][g]
           /\ UNCHANGED <<rows, ledger, registry, procs, reap>>
  <1>1. tasks' = Cancelled(p, g, tasks) /\ tasks \in [Tasks -> TaskType]
    BY DEF HandleStopSignal, TypeInv, TypeOK
  <1>2. \A u \in Tasks :
           /\ tasks'[u].pc = tasks[u].pc /\ tasks'[u].kind = tasks[u].kind
           /\ tasks'[u].proc = tasks[u].proc /\ tasks'[u].gen = tasks[u].gen
           /\ tasks'[u].key = tasks[u].key /\ tasks'[u].seen = tasks[u].seen
           /\ tasks'[u].intent = tasks[u].intent /\ tasks'[u].answer = tasks[u].answer
           /\ tasks'[u].leased = tasks[u].leased
           /\ u # registry[p][g] => tasks'[u] = tasks[u]
    BY <1>1, CancelledView
  <1> QED
    BY <1>2 DEF HandleStopSignal, KeepsTask

(* What Exit does, field by field. *)
LEMMA ExitView ==
    ASSUME TypeInv, NEW p \in Processes, Exit(p)
    PROVE  /\ procs' = [procs EXCEPT ![p] = "gone"]
           /\ \A u \in Tasks :
                IF tasks[u].proc = p /\ tasks[u].pc # "done"
                THEN IsOver(u, "dead") /\ tasks'[u].cancelled = FALSE
                ELSE tasks'[u] = tasks[u]
           /\ registry' = [registry EXCEPT ![p] = [g \in Generations |-> None]]
           /\ signals' \subseteq signals
           /\ reap' = [reap EXCEPT ![p] = {}]
           /\ UNCHANGED <<rows, ledger>>
  <1>1. ASSUME NEW u \in Tasks
        PROVE  IF tasks[u].proc = p /\ tasks[u].pc # "done"
               THEN IsOver(u, "dead") /\ tasks'[u].cancelled = FALSE
               ELSE tasks'[u] = tasks[u]
    <2>1. tasks[u] \in TaskType
      BY DEF TypeInv, TypeOK
    <2>2. CASE tasks[u].proc = p /\ tasks[u].pc # "done"
      <3> DEFINE over == Over(tasks[u], "dead")
      <3>1. tasks'[u] = over
        BY <2>2 DEF Exit
      <3>2. /\ over.pc = "dead" /\ over.kind = tasks[u].kind /\ over.proc = tasks[u].proc
            /\ over.gen = tasks[u].gen /\ over.key = tasks[u].key /\ over.seen = NoRow(None)
            /\ over.intent = "none" /\ over.answer = tasks[u].answer
            /\ over.leased = tasks[u].leased /\ over.cancelled = FALSE
        BY <2>1 DEF Over, TaskType
      <3> HIDE DEF over
      <3> QED
        BY <2>2, <3>1, <3>2 DEF IsOver
    <2>3. CASE ~(tasks[u].proc = p /\ tasks[u].pc # "done")
      BY <2>3 DEF Exit
    <2> QED
      BY <2>2, <2>3
  <1> QED
    BY <1>1 DEF Exit

-----------------------------------------------------------------------------
(* What the writes do to any row, from RowSteps. *)

(* A Stop that was accepted is final. *)
Stopped(g) == rows[g].status \in TerminalStatuses \union {"stop_requested"}

(* A generation that was stopped stays stopped. *)
LEMMA StoppedStays ==
    ASSUME RowInv, [Next]_vars, NEW g \in Generations, Stopped(g)
    PROVE  Stopped(g)'
  <1>0. rows[g] \in Snapshot
    BY DEF RowInv, TypeInv, TypeOK
  <1>1. CASE UNCHANGED rows
    BY <1>1 DEF Stopped
  <1>2. CASE Reaps
    <2>1. rows'[g] = FailActive(rows[g]) \/ rows'[g] = rows[g]
      BY <1>2 DEF Reaps, FailActiveOf
    <2> QED
      BY <1>0, <2>1, ReapedRow DEF Stopped, TerminalStatuses, Snapshot
  <1>3. ASSUME NEW h \in Generations, RowStep(h)
        PROVE  Stopped(g)'
    <2>1. CASE h # g
      <3>1. rows'[g] = rows[g]
        BY <1>3, <2>1, RowStepAdvances DEF Changes, RowInv, TypeInv, TypeOK
      <3> QED
        BY <3>1 DEF Stopped
    <2>2. CASE h = g
      <3>1. rows[g].status \notin {"absent", "starting", "continuable"}
        BY DEF Stopped, TerminalStatuses
      <3>2. AsksToStop(g) \/ Settles(g)
        BY <1>3, <2>2, <3>1 DEF RowStep, Opens, Runs, Accepts, Leases, Resumes
      <3>3. CASE AsksToStop(g)
        <4>1. rows'[g] = RequestWorkerStop(rows[g])
          BY <3>3 DEF AsksToStop, Changes, RowInv, TypeInv, TypeOK
        <4> QED
          BY <1>0, <4>1, StoppingRow DEF Stopped, Snapshot
      <3>4. CASE Settles(g)
        <4>1. PICK i \in Intents, roll \in 0..MaxRoll :
                rows[g].status \in LegalFrom(i) /\ Changes(g, Settled(rows[g], i, roll))
          BY <3>4 DEF Settles
        <4>2. rows[g].status \in ActiveStatuses
          BY <4>1, LegalIntents
        <4>3. rows[g].status = "stop_requested"
          BY <4>2, StatusNames DEF Stopped
        <4>4. i \in {"failed", "stopped"}
          BY <4>1, <4>3, LegalIntents
        <4>5. rows'[g] = Settled(rows[g], i, roll)
          BY <4>1 DEF Changes, RowInv, TypeInv, TypeOK
        <4>6. roll \in Nat
          BY ConstantsAssumption
        <4>7. rows'[g].status \in TerminalStatuses
          BY <1>0, <4>1, <4>4, <4>5, <4>6, SettledRow DEF Snapshot
        <4> QED
          BY <4>7 DEF Stopped
      <3> QED
        BY <3>2, <3>3, <3>4
    <2> QED
      BY <2>1, <2>2
  <1> QED
    BY <1>1, <1>2, <1>3, RowSteps

(* The epoch of a generation never goes back. *)
LEMMA EpochsGrow ==
    ASSUME RowInv, [Next]_vars, NEW g \in Generations
    PROVE  rows'[g].epoch >= rows[g].epoch
  <1>0. rows[g] \in Snapshot /\ rows[g].epoch \in Nat
    BY DEF RowInv, TypeInv, TypeOK, Snapshot, RowType
  <1>1. CASE UNCHANGED rows
    BY <1>0, <1>1
  <1>2. CASE Reaps
    <2>1. rows'[g] = FailActive(rows[g]) \/ rows'[g] = rows[g]
      BY <1>2 DEF Reaps, FailActiveOf
    <2> QED
      BY <1>0, <2>1, ReapedRow DEF Snapshot
  <1>3. ASSUME NEW h \in Generations, RowStep(h)
        PROVE  rows'[g].epoch >= rows[g].epoch
    <2>1. CASE h # g
      <3>1. rows'[g] = rows[g]
        BY <1>3, <2>1, RowStepAdvances DEF Changes, RowInv, TypeInv, TypeOK
      <3> QED
        BY <1>0, <3>1
    <2>2. CASE h = g
      <3> USE DEF Changes, RowInv, TypeInv, TypeOK
      <3>1. CASE Opens(g)
        BY <1>0, <3>1 DEF Opens, FreshRows, Create, Moved, NoRow
      <3>2. CASE Runs(g)
        BY <1>0, <3>2, RunningRow DEF Runs, Snapshot
      <3>3. CASE AsksToStop(g)
        BY <1>0, <3>3, StoppingRow DEF AsksToStop, Snapshot
      <3>4. CASE Accepts(g)
        BY <1>0, <3>4, AcceptedRow DEF Accepts, Snapshot
      <3>5. CASE Leases(g)
        BY <1>0, <3>5, LeasedRow DEF Leases, Snapshot
      <3>6. CASE Resumes(g)
        BY <1>0, <3>6, ResumedRow DEF Resumes, Snapshot
      <3>7. CASE Settles(g)
        <4>1. PICK i \in Intents, roll \in 0..MaxRoll :
                rows[g].status \in LegalFrom(i) /\ rows'[g] = Settled(rows[g], i, roll)
          BY <3>7 DEF Settles
        <4>2. roll \in Nat
          BY ConstantsAssumption
        <4>3. rows'[g].epoch = rows[g].epoch \/ rows'[g].epoch = rows[g].epoch + roll
          BY <1>0, <4>1, <4>2, SettledRow DEF Snapshot, Intents
        <4> QED
          BY <1>0, <4>2, <4>3
      <3> QED
        BY <1>3, <2>2, <3>1, <3>2, <3>3, <3>4, <3>5, <3>6, <3>7 DEF RowStep
    <2> QED
      BY <2>1, <2>2
  <1> QED
    BY <1>1, <1>2, <1>3, RowSteps

(* uq_generations_active_per_conversation, as the writes keep it. *)
IndexHolds ==
    \A g, h \in Generations :
        IsActive(rows[g]) /\ IsActive(rows[h]) /\ ConversationOf[g] = ConversationOf[h] => g = h

(* Every step respects the unique index on active generations. *)
LEMMA IndexStep ==
    ASSUME RowInv, IndexHolds, [Next]_vars
    PROVE  IndexHolds'
  <1>0. \A g \in Generations : rows[g] \in Snapshot
    BY DEF RowInv, TypeInv, TypeOK
  <1>1. CASE UNCHANGED rows
    BY <1>1 DEF IndexHolds
  <1>2. CASE Reaps
    <2>1. \A g \in Generations : rows'[g] = FailActive(rows[g]) \/ rows'[g] = rows[g]
      BY <1>2 DEF Reaps, FailActiveOf
    <2>2. \A g \in Generations : IsActive(rows'[g]) => IsActive(rows[g])
      BY <1>0, <2>1, ReapedRow DEF IsActive, ActiveStatuses, Snapshot
    <2> QED
      BY <2>2 DEF IndexHolds
  <1>3. ASSUME NEW g \in Generations, RowStep(g)
        PROVE  IndexHolds'
    <2>1. \A h \in Generations \ {g} : rows'[h] = rows[h]
      BY <1>3, RowStepAdvances DEF Changes, RowInv, TypeInv, TypeOK
    <2>2. IsActive(rows'[g]) => IsActive(rows[g]) \/ IndexAdmits(g)
      <3>1. CASE Opens(g) \/ Leases(g) \/ Resumes(g)
        BY <3>1 DEF Opens, Leases, Resumes
      <3>2. CASE Runs(g) \/ AsksToStop(g)
        BY <3>2 DEF Runs, AsksToStop, IsActive, ActiveStatuses, Stoppable
      <3>3. CASE Accepts(g)
        <4>1. rows'[g] = AcceptPartial(rows[g])
          BY <3>3 DEF Accepts, Changes, RowInv, TypeInv, TypeOK
        <4> QED
          BY <1>0, <4>1, AcceptedRow DEF Snapshot, IsActive, ActiveStatuses
      <3>4. CASE Settles(g)
        BY <3>4, LegalIntents DEF Settles, IsActive
      <3> QED
        BY <1>3, <3>1, <3>2, <3>3, <3>4 DEF RowStep
    <2> QED
      BY <2>1, <2>2 DEF IndexHolds, IndexAdmits
  <1> QED
    BY <1>1, <1>2, <1>3, RowSteps

-----------------------------------------------------------------------------
(* What a command has answered by the time it publishes, records or         *)
(* cancels; a resume, and a task without a request, has no key.             *)
WellAnswered(t) ==
    /\ tasks[t].pc = "publish" => tasks[t].answer = "stop_requested"
    /\ tasks[t].pc = "cancel" => tasks[t].answer \in {"stop_requested", "completed_partial"}
    /\ tasks[t].pc = "record" =>
         tasks[t].answer \in Errors \union {"stop_requested", "completed_partial", "leased"}
    /\ tasks[t].pc = "record" /\ tasks[t].kind = "stop" => tasks[t].answer # "leased"
    /\ tasks[t].pc \in {"idle", "reclaim"} => tasks[t].key = None

CommandsAnswer == \A t \in Tasks : WellAnswered(t)

(* A step of one task leaves every other where it was. *)
LEMMA OthersKept ==
    ASSUME NEW u, tasks'[u] = tasks[u]
    PROVE  KeepsTask(u)
  BY DEF KeepsTask

(* Commands go on answering so. *)
LEMMA CommandsStep ==
    ASSUME RowInv, CommandsAnswer, [Next]_vars
    PROVE  CommandsAnswer'
  <1> SUFFICES ASSUME NEW u \in Tasks PROVE WellAnswered(u)'
    BY DEF CommandsAnswer
  <1>0. TypeInv /\ WellAnswered(u)
    BY DEF RowInv, CommandsAnswer
  <1>1. CASE KeepsTask(u)
    BY <1>0, <1>1 DEF WellAnswered, KeepsTask
  <1>2. CASE tasks'[u].pc \notin {"publish", "cancel", "record", "idle", "reclaim"}
    BY <1>2 DEF WellAnswered
  <1>3. ASSUME NEW t \in Tasks, TaskStep(t)
        PROVE  WellAnswered(u)'
    <2>1. CASE EnterRunning(t)
      BY <1>0, <1>1, <1>2, <2>1, EnterRunningView, OthersKept DEF Opened, Moves
    <2>2. CASE ClaimCommand(t)
      BY <1>0, <1>1, <1>2, <2>2, ClaimCommandView, OthersKept
      DEF Replies, Leaves, Moves, WellAnswered
    <2>3. CASE DecideStop(t)
      BY <1>0, <1>1, <1>2, <2>3, DecideStopView, OthersKept
      DEF Replies, Moves, WellAnswered, Errors
    <2>4. CASE PublishStop(t)
      BY <1>0, <1>1, <1>2, <2>4, PublishStopView, OthersKept
      DEF Replies, Moves, WellAnswered
    <2>5. CASE Lease(t)
      BY <1>0, <1>1, <1>2, <2>5, LeaseView, OthersKept
      DEF Replies, Leaves, Moves, WellAnswered, Errors
    <2>6. CASE RecordResult(t)
      BY <1>0, <1>1, <1>2, <2>6, RecordResultView, OthersKept
      DEF Opened, Replies, Leaves, Moves, WellAnswered, Errors
    <2>7. CASE CancelLocally(t)
      BY <1>0, <1>1, <1>2, <2>7, CancelLocallyView DEF IsOver
    <2>8. CASE Reclaim(t)
      BY <1>0, <1>1, <1>2, <2>8, ReclaimView, OthersKept DEF Opened, Leaves, Moves
    <2>9. ASSUME NEW intent \in Intents, EndStream(t, intent) PROVE WellAnswered(u)'
      BY <1>0, <1>1, <1>2, <2>9, EndStreamView, OthersKept DEF Moves
    <2>10. CASE Settle(t)
      BY <1>0, <1>1, <1>2, <2>10, SettleView, OthersKept DEF Replies, Leaves, Moves
    <2>11. CASE Reread(t)
      BY <1>0, <1>1, <1>2, <2>11, RereadView, OthersKept DEF Leaves, Moves
    <2>12. CASE Retry(t)
      BY <1>0, <1>1, <1>2, <2>12, RetryView, OthersKept DEF Leaves, Moves
    <2> QED
      BY <1>3, <2>1, <2>2, <2>3, <2>4, <2>5, <2>6, <2>7, <2>8, <2>9, <2>10, <2>11, <2>12
      DEF TaskStep
  <1>4. CASE Arrival
    <2>1. PICK t \in Tasks, p \in Processes, g \in Generations :
            \/ StartTurn(t, p, g) \/ SendResume(t, p, g)
            \/ \E k \in Keys : SendStop(t, p, g, k) \/ SendContinue(t, p, g, k)
      BY <1>4 DEF Arrival
    <2>2. PICK pc, kind, key, seen :
            /\ pc \in {"opened", "reclaim", "claim"}
            /\ Arrives(t, pc, kind, p, g, key, seen) /\ (pc = "reclaim" => key = None)
      BY <1>0, <2>1, StartTurnView, SendResumeView, SendCommandView
    <2> QED
      BY <1>1, <1>2, <2>2, OthersKept DEF Arrives, WellAnswered
  <1>5. CASE Delivery
    BY <1>0, <1>1, <1>5, HandleStopSignalView, OthersKept DEF Delivery, ExpireEntry
  <1>6. CASE ProcessStep
    <2>1. PICK p \in Processes : Boot(p) \/ ReclaimOrphans(p) \/ Shutdown(p) \/ Exit(p)
      BY <1>6 DEF ProcessStep
    <2>2. CASE Exit(p)
      BY <1>0, <1>1, <1>2, <2>2, ExitView, OthersKept DEF IsOver
    <2>3. CASE ~Exit(p)
      BY <1>1, <2>1, <2>3, OthersKept DEF Boot, ReclaimOrphans, Shutdown
    <2> QED
      BY <2>2, <2>3
  <1>7. CASE UNCHANGED vars
    BY <1>1, <1>7, OthersKept DEF vars
  <1> QED
    BY <1>3, <1>4, <1>5, <1>6, <1>7 DEF Next

-----------------------------------------------------------------------------
(* Ownership: who holds a row open, and what its owner may rely on. *)

(* A Stop has moved the row one version past the owner's snapshot. *)
StopAhead(t) == Row(t).status = "stop_requested" /\ Row(t).version = tasks[t].seen.version + 1

(* The row is where the owner left it. *)
Level(t, statuses) == Row(t).version = tasks[t].seen.version /\ Row(t).status \in statuses

(* What an owner finds at each point of its turn, until it settles the row. *)
Held(t) ==
    /\ IsActive(Row(t))
    /\ Row(t).producer = tasks[t].proc
    /\ tasks[t].pc = "opened" => StopAhead(t) \/ Level(t, {"starting"})
    /\ tasks[t].pc \in {"record", "streaming", "settle"} =>
         StopAhead(t) \/ Level(t, {"running", "continuing"})
    /\ tasks[t].pc = "reread" => StopAhead(t)
    /\ tasks[t].pc = "retry" =>
         Level(t, {"stop_requested"}) /\ tasks[t].intent \in {"stopped", "failed"}

(* An owner's process serves, and the row is its own, or its process is     *)
(* shutting down and has failed the row.                                    *)
HoldsOn(t) ==
    Owns(t, tasks[t].gen) =>
        /\ Serving(t)
        /\ Held(t) \/ (procs[tasks[t].proc] = "closing" /\ Row(t).status = "failed")
        /\ tasks[t].pc \in {"settle", "reread", "retry"} => tasks[t].intent # "none"

OwnersHold == \A t \in Tasks : HoldsOn(t)

OneOwner ==
    \A t, u \in Tasks, g \in Generations : Owns(t, g) /\ Owns(u, g) => t = u

HasOwner ==
    \A g \in Generations :
        IsActive(rows[g]) /\ Steady(rows[g].producer) => \E t \in Tasks : Owns(t, g)

(* The producer named on a row is a process that has been up. *)
ProducersRan ==
    \A g \in Generations :
        rows[g].status # "absent" =>
            /\ rows[g].producer \in Processes
            /\ procs[rows[g].producer] \in {"up", "closing", "gone"}

ReapsTheDead == \A p \in Processes : \A q \in reap[p] : procs[q] = "gone"

OwnInv ==
    /\ RowInv
    /\ CommandsAnswer
    /\ OwnersHold
    /\ OneOwner
    /\ HasOwner
    /\ ProducersRan
    /\ ReapsTheDead
    /\ IndexHolds

(* No task can own the row: it is not active, and no shutdown failed it. *)
Untaken(g) == ~IsActive(rows[g]) /\ rows[g].status # "failed"

(* What a step of task t does about generation g. *)
Acts(t, g) ==
    /\ \A u \in Tasks \ {t} : KeepsTask(u)
    /\ UNCHANGED <<procs, reap>>
    /\ tasks'[t].gen = g
    /\ tasks[t].gen = g \/ tasks[t].pc = "idle"
    /\ \A h \in Generations \ {g} : rows'[h] = rows[h]
    /\ \/ rows'[g] = rows[g]
       \/ Owns(t, g)
       \/ Untaken(g)
       \/ /\ IsActive(rows[g]) /\ rows[g].status # "stop_requested"
          /\ rows'[g] = RequestWorkerStop(rows[g])
    /\ Owns(t, g)' => Owns(t, g) \/ Untaken(g)
    /\ HoldsOn(t)'
    /\ IsActive(rows'[g]) => IsActive(rows[g]) \/ Owns(t, g)'
    /\ Owns(t, g) /\ IsActive(rows'[g]) => Owns(t, g)'
    /\ \/ rows'[g].producer = rows[g].producer
          /\ (rows[g].status = "absent" => rows'[g].status = "absent")
       \/ /\ rows'[g].producer \in Processes
          /\ procs[rows'[g].producer] \in {"up", "closing"}

(* Such a step takes no row from the task that owns it, *)
LEMMA OthersHoldOn ==
    ASSUME OwnInv, NEW t \in Tasks, NEW g \in Generations, Acts(t, g),
           NEW u \in Tasks, u # t
    PROVE  HoldsOn(u)'
  <1> SUFFICES ASSUME Owns(u, tasks[u].gen)' PROVE HoldsOn(u)'
    BY DEF HoldsOn
  <1>1. KeepsTask(u) /\ UNCHANGED procs
    BY DEF Acts
  <1>2. Owns(u, tasks[u].gen) /\ tasks[u].pc # "idle"
    BY <1>1 DEF Owns, KeepsTask
  <1>3. HoldsOn(u) /\ TypeInv
    BY DEF OwnInv, OwnersHold, RowInv
  <1>4. tasks[u].gen \in Generations /\ tasks[u].proc \in Processes /\ Row(u) \in Snapshot
    BY <1>2, <1>3, UnderWay
  <1>5. CASE rows'[tasks[u].gen] = rows[tasks[u].gen]
    BY <1>1, <1>2, <1>3, <1>5 DEF HoldsOn, Held, StopAhead, Level, Serving, Row, KeepsTask
  <1>6. CASE rows'[tasks[u].gen] # rows[tasks[u].gen]
    <2>1. tasks[u].gen = g
      BY <1>4, <1>6 DEF Acts
    <2>2. IsActive(Row(u)) \/ Row(u).status = "failed"
      BY <1>2, <1>3 DEF HoldsOn, Held
    <2>3. ~Untaken(g)
      BY <2>1, <2>2 DEF Untaken, Row
    <2>4. ~Owns(t, g)
      BY <1>2, <2>1 DEF OwnInv, OneOwner
    <2>5. /\ IsActive(Row(u)) /\ Row(u).status # "stop_requested"
          /\ rows'[g] = RequestWorkerStop(Row(u))
      BY <1>6, <2>1, <2>3, <2>4 DEF Acts, Row
    <2>6. /\ Held(u) /\ Serving(u)
          /\ tasks[u].pc \in {"settle", "reread", "retry"} => tasks[u].intent # "none"
      BY <1>2, <1>3, <2>5 DEF HoldsOn, IsActive, ActiveStatuses
    <2>7. /\ Row(u).version = tasks[u].seen.version
          /\ tasks[u].pc \notin {"reread", "retry"}
      BY <1>2, <2>5, <2>6 DEF Held, StopAhead, Level, Owns
    <2>8. /\ rows'[g].status = "stop_requested" /\ rows'[g].version = Row(u).version + 1
          /\ rows'[g].producer = Row(u).producer
      BY <1>4, <2>5, StoppingRow DEF Snapshot
    <2>9. Row(u)' = rows'[g]
      BY <1>1, <2>1 DEF Row, KeepsTask
    <2>10. Held(u)'
      BY <1>1, <2>6, <2>7, <2>8, <2>9 DEF Held, StopAhead, KeepsTask, IsActive, ActiveStatuses
    <2> QED
      BY <1>1, <2>6, <2>10 DEF HoldsOn, Serving, KeepsTask
  <1> QED
    BY <1>5, <1>6

(* and leaves the ownership of every row in order. *)
LEMMA ActsKeep ==
    ASSUME OwnInv, [Next]_vars, NEW t \in Tasks, NEW g \in Generations, Acts(t, g)
    PROVE  OwnInv'
  <1>1. RowInv' /\ IndexHolds' /\ CommandsAnswer'
    BY RowInvNext, IndexStep, CommandsStep DEF OwnInv
  <1>2. OwnersHold'
    BY OthersHoldOn DEF OwnersHold, Acts
  <1>3. \A u \in Tasks \ {t}, h \in Generations : Owns(u, h)' <=> Owns(u, h)
    BY DEF Acts, KeepsTask, Owns
  <1>4. \A h \in Generations \ {g} : ~Owns(t, h) /\ ~Owns(t, h)'
    BY DEF Acts, Owns
  <1>5. \A u \in Tasks : Owns(u, g) => ~Untaken(g)
    <2> SUFFICES ASSUME NEW u \in Tasks, Owns(u, g) PROVE ~Untaken(g)
      OBVIOUS
    <2>1. HoldsOn(u) /\ tasks[u].gen = g
      BY DEF OwnInv, OwnersHold, Owns
    <2> QED
      BY <2>1 DEF HoldsOn, Held, Row, Untaken
  <1>6. OneOwner'
    <2> SUFFICES ASSUME NEW u \in Tasks, NEW v \in Tasks, NEW h \in Generations,
                        Owns(u, h)', Owns(v, h)'
                 PROVE  u = v
      BY DEF OneOwner
    <2>1. CASE u # t /\ v # t
      BY <1>3, <2>1 DEF OwnInv, OneOwner
    <2>2. ASSUME NEW w \in Tasks, w # t, Owns(w, h)', Owns(t, h)' PROVE FALSE
      <3>1. h = g /\ Owns(w, g)
        BY <1>3, <1>4, <2>2
      <3>2. Owns(t, g)
        BY <1>5, <2>2, <3>1 DEF Acts
      <3> QED
        BY <2>2, <3>1, <3>2 DEF OwnInv, OneOwner
    <2> QED
      BY <2>1, <2>2
  <1>7. HasOwner'
    <2> SUFFICES ASSUME NEW h \in Generations, IsActive(rows'[h]), Steady(rows[h].producer)'
                 PROVE  \E u \in Tasks : Owns(u, h)'
      BY DEF HasOwner
    <2>1. CASE h # g
      <3>1. rows'[h] = rows[h] /\ procs' = procs
        BY <2>1 DEF Acts
      <3>2. PICK u \in Tasks : Owns(u, h)
        BY <3>1 DEF OwnInv, HasOwner, Steady
      <3> QED
        BY <1>3, <1>4, <2>1, <3>2
    <2>2. CASE h = g /\ ~Owns(t, g)'
      <3>1. IsActive(rows[g]) /\ ~Owns(t, g) /\ ~Untaken(g)
        BY <2>2 DEF Acts, Untaken
      <3>2. rows'[g].producer = rows[g].producer
        <4>0. rows[g] \in Snapshot
          BY DEF OwnInv, RowInv, TypeInv, TypeOK
        <4>1. rows'[g] = rows[g] \/ rows'[g] = RequestWorkerStop(rows[g])
          BY <3>1 DEF Acts
        <4> QED
          BY <4>0, <4>1, StoppingRow DEF Snapshot
      <3>3. PICK u \in Tasks : Owns(u, g)
        BY <2>2, <3>1, <3>2 DEF OwnInv, HasOwner, Steady, Acts
      <3> QED
        BY <1>3, <2>2, <3>1, <3>3
    <2>3. CASE h = g /\ Owns(t, g)'
      BY <2>3
    <2> QED
      BY <2>1, <2>2, <2>3
  <1>8. ProducersRan'
    BY DEF OwnInv, ProducersRan, Acts
  <1>9. ReapsTheDead'
    BY DEF OwnInv, ReapsTheDead, Acts
  <1> QED
    BY <1>1, <1>2, <1>6, <1>7, <1>8, <1>9 DEF OwnInv
-----------------------------------------------------------------------------
(* Every step of a task is such a step. *)

(* What is known of a task under way. *)
LEMMA AtWork ==
    ASSUME OwnInv, NEW t \in Tasks, tasks[t].pc # "idle"
    PROVE  /\ TypeInv
           /\ tasks[t] \in TaskType
           /\ tasks[t].proc \in Processes
           /\ tasks[t].gen \in Generations
           /\ Row(t) \in Snapshot
           /\ Row(t).version \in Nat
           /\ tasks[t].seen \in Snapshot
           /\ tasks[t].seen.version \in Nat
           /\ HoldsOn(t)
  <1>1. TypeInv /\ HoldsOn(t)
    BY DEF OwnInv, RowInv, OwnersHold
  <1> QED
    BY <1>1, UnderWay DEF TaskType, Snapshot, RowType

(* The two ways a row is taken up. *)
LEMMA OpenedTask ==
    ASSUME NEW t \in Tasks, NEW snapshot, NEW intents \in SUBSET {"stopped", "failed"},
           Opened(t, snapshot, intents)
    PROVE  /\ \A u \in Tasks \ {t} : KeepsTask(u)
           /\ tasks'[t].pc \in {"streaming", "settle"}
           /\ tasks'[t].pc = "settle" => tasks'[t].intent # "none"
           /\ tasks'[t].proc = tasks[t].proc
           /\ tasks'[t].gen = tasks[t].gen
           /\ tasks'[t].seen = snapshot
  BY OthersKept DEF Opened, Moves

(* A task that neither holds a row nor takes one up, and writes none. *)
LEMMA BystanderActs ==
    ASSUME OwnInv, NEW t \in Tasks, NEW g \in Generations,
           \A u \in Tasks \ {t} : KeepsTask(u),
           tasks'[t].gen = g, tasks[t].gen = g \/ tasks[t].pc = "idle",
           ~Owns(t, g), ~Owns(t, g)', UNCHANGED <<rows, procs, reap>>
    PROVE  Acts(t, g)
  BY DEF Acts, HoldsOn

(* StartTurn is a step that Acts allows. *)
LEMMA StartTurnActs ==
    ASSUME OwnInv, NEW t \in Tasks, NEW p \in Processes, NEW g \in Generations,
           StartTurn(t, p, g)
    PROVE  Acts(t, g)
  <1>1. TypeInv
    BY DEF OwnInv, RowInv
  <1>2. /\ Arrives(t, "opened", "turn", p, g, None, Create(p))
        /\ rows[g].status = "absent"
        /\ Rewrites(g, Create(p))
        /\ UNCHANGED <<procs, reap>>
    BY <1>1, StartTurnView
  <1>3. /\ Create(p).status = "starting" /\ Create(p).version = 1 /\ Create(p).producer = p
    BY CreatedRow
  <1>4. Untaken(g)
    BY <1>2 DEF Untaken, IsActive, ActiveStatuses
  <1>5. tasks'[t].gen = g /\ tasks[t].pc = "idle" /\ procs[p] = "up"
    BY <1>2 DEF Arrives
  <1>6. Row(t)' = Create(p)
    BY <1>2 DEF Row, Arrives, Rewrites
  <1>7. Held(t)'
    BY <1>2, <1>3, <1>6 DEF Held, Level, Arrives, IsActive, ActiveStatuses
  <1>8. HoldsOn(t)'
    BY <1>2, <1>7 DEF HoldsOn, Serving, Arrives
  <1>9. Owns(t, g)'
    BY <1>2 DEF Owns, Arrives
  <1>10. \A u \in Tasks \ {t} : KeepsTask(u)
    BY <1>2, OthersKept DEF Arrives
  <1>11. rows'[g] = Create(p) /\ \A h \in Generations \ {g} : rows'[h] = rows[h]
    BY <1>2 DEF Rewrites
  <1> QED
    BY <1>2, <1>3, <1>4, <1>5, <1>8, <1>9, <1>10, <1>11 DEF Acts

(* The arrival of a command or a resume is a step that Acts allows. *)
LEMMA ArrivalActs ==
    ASSUME OwnInv, NEW t \in Tasks, NEW pc \in {"claim", "reclaim"}, NEW kind,
           NEW p \in Processes, NEW g \in Generations, NEW key, NEW seen,
           Arrives(t, pc, kind, p, g, key, seen), UNCHANGED <<rows, procs, reap>>
    PROVE  Acts(t, g)
  <1>1. \A u \in Tasks \ {t} : KeepsTask(u)
    BY OthersKept DEF Arrives
  <1>2. tasks'[t].gen = g /\ tasks[t].pc = "idle" /\ ~Owns(t, g) /\ ~Owns(t, g)'
    BY DEF Arrives, Owns
  <1> QED
    BY <1>1, <1>2, BystanderActs

(* EnterRunning is a step that Acts allows. *)
LEMMA EnterRunningActs ==
    ASSUME OwnInv, NEW t \in Tasks, NEW g \in Generations, g = tasks[t].gen,
           EnterRunning(t)
    PROVE  Acts(t, g)
  <1>0. tasks[t].pc # "idle"
    BY DEF EnterRunning
  <1>1. /\ TypeInv /\ tasks[t].proc \in Processes /\ g \in Generations /\ Row(t) \in Snapshot
        /\ HoldsOn(t) /\ Row(t) = rows[g]
    BY <1>0, AtWork DEF Row
  <1>2. /\ tasks[t].pc = "opened" /\ Serving(t)
        /\ \/ /\ Matches(Row(t), tasks[t].seen.version, {"starting"})
              /\ Rewrites(g, MarkRunning(Row(t)))
              /\ Opened(t, MarkRunning(Row(t)), {"stopped"})
           \/ /\ ~Matches(Row(t), tasks[t].seen.version, {"starting"})
              /\ Rewrites(g, Row(t))
              /\ Opened(t, tasks[t].seen, {"stopped"})
        /\ UNCHANGED <<procs, reap>>
    BY <1>1, EnterRunningView
  <1>3. PICK snapshot : Opened(t, snapshot, {"stopped"})
    BY <1>2
  <1>4. /\ \A u \in Tasks \ {t} : KeepsTask(u)
        /\ tasks'[t].pc \in {"streaming", "settle"}
        /\ tasks'[t].pc = "settle" => tasks'[t].intent # "none"
        /\ tasks'[t].proc = tasks[t].proc /\ tasks'[t].gen = g
    BY <1>3, OpenedTask
  <1>5. Owns(t, g) /\ Owns(t, g)' /\ Serving(t)'
    BY <1>2, <1>4 DEF Owns, Serving
  <1>6. /\ Held(t) \/ (procs[tasks[t].proc] = "closing" /\ Row(t).status = "failed")
    BY <1>1, <1>5 DEF HoldsOn
  <1>7. CASE Matches(Row(t), tasks[t].seen.version, {"starting"})
    <2>1. rows'[g] = MarkRunning(Row(t)) /\ tasks'[t].seen = MarkRunning(Row(t))
      BY <1>2, <1>7, OpenedTask DEF Rewrites
    <2>2. Row(t).producer = tasks[t].proc
      BY <1>6, <1>7 DEF Held, Matches
    <2>3. /\ MarkRunning(Row(t)).status = "running"
          /\ MarkRunning(Row(t)).producer = Row(t).producer
      BY <1>1, RunningRow DEF Snapshot
    <2>4. Row(t)' = MarkRunning(Row(t))
      BY <1>4, <2>1 DEF Row
    <2>5. Held(t)'
      BY <1>4, <2>1, <2>2, <2>3, <2>4 DEF Held, Level, IsActive, ActiveStatuses
    <2>6. HoldsOn(t)'
      BY <1>4, <1>5, <2>5 DEF HoldsOn
    <2>7. rows'[g].producer = rows[g].producer /\ rows[g].status = "starting"
      BY <1>1, <1>7, <2>1, <2>3 DEF Matches
    <2> QED
      BY <1>2, <1>4, <1>5, <2>6, <2>7 DEF Acts, Rewrites
  <1>8. CASE ~Matches(Row(t), tasks[t].seen.version, {"starting"})
    <2>1. rows'[g] = rows[g] /\ tasks'[t].seen = tasks[t].seen /\ Row(t)' = Row(t)
      BY <1>1, <1>2, <1>4, <1>8, OpenedTask DEF Rewrites, Row
    <2>2. Held(t) => StopAhead(t)
      BY <1>2, <1>8 DEF Held, Level, Matches
    <2>3. Held(t) => Held(t)'
      BY <1>4, <2>1, <2>2 DEF Held, StopAhead
    <2>4. HoldsOn(t)'
      BY <1>2, <1>4, <1>5, <1>6, <2>1, <2>3 DEF HoldsOn
    <2> QED
      BY <1>2, <1>4, <1>5, <2>1, <2>4 DEF Acts, Rewrites
  <1> QED
    BY <1>7, <1>8

(* DecideStop is a step that Acts allows. *)
LEMMA DecideStopActs ==
    ASSUME OwnInv, NEW t \in Tasks, NEW g \in Generations, g = tasks[t].gen,
           DecideStop(t)
    PROVE  Acts(t, g)
  <1>0. tasks[t].pc = "decide" /\ RowInv
    BY DEF DecideStop, OwnInv
  <1>1. g \in Generations /\ Row(t) \in Snapshot /\ Row(t) = rows[g]
    BY <1>0, AtWork DEF Row
  <1>2. UNCHANGED <<procs, reap>>
    BY DEF DecideStop
  <1>3. PICK pc \in {"record", "publish"}, answer \in Answers \ {"leased"} : Replies(t, pc, answer)
    BY <1>0, DecideStopView DEF Answers
  <1>4. /\ \A u \in Tasks \ {t} : KeepsTask(u)
        /\ tasks'[t].gen = g /\ tasks'[t].pc = pc /\ tasks'[t].answer = answer
    BY <1>3, OthersKept DEF Replies, Moves
  <1>5. ~Owns(t, g) /\ ~Owns(t, g)'
    BY <1>0, <1>4 DEF Owns
  <1>6. CASE UNCHANGED rows
    BY <1>1, <1>2, <1>4, <1>5, <1>6, BystanderActs
  <1>7. CASE Row(t).status = "continuable" /\ Rewrites(g, AcceptPartial(Row(t)))
    <2>1. rows'[g].status = "completed_partial" /\ rows'[g].producer = rows[g].producer
      BY <1>1, <1>7, AcceptedRow DEF Rewrites, Snapshot
    <2> QED
      BY <1>1, <1>2, <1>4, <1>5, <1>7, <2>1
      DEF Acts, HoldsOn, Untaken, Rewrites, IsActive, ActiveStatuses
  <1>8. CASE /\ IsActive(Row(t)) /\ Row(t).status # "stop_requested"
             /\ Rewrites(g, RequestWorkerStop(Row(t)))
    <2>1. rows'[g].status = "stop_requested" /\ rows'[g].producer = rows[g].producer
      BY <1>1, <1>8, StoppingRow DEF Rewrites, Snapshot
    <2> QED
      BY <1>1, <1>2, <1>4, <1>5, <1>8, <2>1
      DEF Acts, HoldsOn, Rewrites, IsActive, ActiveStatuses
  <1> QED
    BY <1>0, <1>6, <1>7, <1>8, DecideStopView

(* Lease is a step that Acts allows. *)
LEMMA LeaseActs ==
    ASSUME OwnInv, NEW t \in Tasks, NEW g \in Generations, g = tasks[t].gen,
           Lease(t)
    PROVE  Acts(t, g)
  <1> DEFINE leased == LeaseEpoch(Row(t), tasks[t].proc)
  <1>0. tasks[t].pc = "decide" /\ RowInv /\ Serving(t) /\ UNCHANGED <<procs, reap>>
    BY DEF Lease, OwnInv
  <1>1. /\ g \in Generations /\ Row(t) \in Snapshot /\ Row(t) = rows[g]
        /\ tasks[t].proc \in Processes
    BY <1>0, AtWork DEF Row
  <1>2. ~Owns(t, g)
    BY <1>0 DEF Owns
  <1>3. /\ leased.status = "continuing" /\ leased.producer = tasks[t].proc
    BY <1>1, LeasedRow DEF Snapshot
  <1>4. \/ /\ \E answer \in {"stale", "unavailable"} : Replies(t, "record", answer)
           /\ UNCHANGED rows
        \/ Leaves(t, "error") /\ UNCHANGED rows
        \/ /\ Row(t).status = "continuable"
           /\ Rewrites(g, leased)
           /\ Moves(t, "record", leased, tasks[t].intent, "leased", leased.epoch,
                    tasks[t].cancelled)
    BY <1>0, LeaseView
  <1> HIDE DEF leased
  <1>5. ASSUME NEW answer \in {"stale", "unavailable"}, Replies(t, "record", answer),
               UNCHANGED rows
        PROVE  Acts(t, g)
    <2>1. /\ \A u \in Tasks \ {t} : KeepsTask(u)
          /\ tasks'[t].gen = g /\ ~Owns(t, g)'
      BY <1>5, OthersKept DEF Replies, Moves, Owns
    <2> QED
      BY <1>0, <1>1, <1>2, <1>5, <2>1, BystanderActs
  <1>6. CASE Leaves(t, "error") /\ UNCHANGED rows
    <2>1. /\ \A u \in Tasks \ {t} : KeepsTask(u)
          /\ tasks'[t].gen = g /\ ~Owns(t, g)'
      BY <1>6, OthersKept DEF Leaves, Moves, Owns
    <2> QED
      BY <1>0, <1>1, <1>2, <1>6, <2>1, BystanderActs
  <1>7. CASE /\ Row(t).status = "continuable"
             /\ Rewrites(g, leased)
             /\ Moves(t, "record", leased, tasks[t].intent, "leased", leased.epoch,
                      tasks[t].cancelled)
    <2>1. /\ \A u \in Tasks \ {t} : KeepsTask(u)
          /\ tasks'[t].gen = g /\ tasks'[t].pc = "record" /\ tasks'[t].seen = leased
          /\ tasks'[t].proc = tasks[t].proc /\ tasks'[t].answer = "leased"
      BY <1>7, OthersKept DEF Moves
    <2>2. rows'[g] = leased /\ Row(t)' = leased
      BY <1>7, <2>1 DEF Rewrites, Row
    <2>3. Held(t)' /\ Serving(t)' /\ Owns(t, g)'
      BY <1>0, <1>3, <2>1, <2>2 DEF Held, Level, Serving, Owns, IsActive, ActiveStatuses
    <2>4. HoldsOn(t)'
      BY <2>1, <2>3 DEF HoldsOn
    <2>5. Untaken(g)
      BY <1>1, <1>7 DEF Untaken, IsActive, ActiveStatuses
    <2>6. rows'[g].producer \in Processes /\ procs[rows'[g].producer] \in {"up", "closing"}
      BY <1>0, <1>1, <1>3, <2>2 DEF Serving
    <2> QED
      BY <1>0, <1>7, <2>1, <2>3, <2>4, <2>5, <2>6 DEF Acts, Rewrites
  <1> QED
    BY <1>4, <1>5, <1>6, <1>7
(* RecordResult is a step that Acts allows. *)
LEMMA RecordResultActs ==
    ASSUME OwnInv, NEW t \in Tasks, NEW g \in Generations, g = tasks[t].gen,
           RecordResult(t)
    PROVE  Acts(t, g)
  <1>0. tasks[t].pc = "record" /\ Serving(t) /\ UNCHANGED <<rows, procs, reap>>
    BY DEF RecordResult
  <1>1. g \in Generations /\ TypeInv /\ HoldsOn(t)
    BY <1>0, AtWork
  <1>2. CASE tasks[t].answer = "leased" /\ Opened(t, tasks[t].seen, {"stopped"})
    <2>1. /\ \A u \in Tasks \ {t} : KeepsTask(u)
          /\ tasks'[t].pc \in {"streaming", "settle"}
          /\ tasks'[t].pc = "settle" => tasks'[t].intent # "none"
          /\ tasks'[t].proc = tasks[t].proc /\ tasks'[t].gen = g
          /\ tasks'[t].seen = tasks[t].seen
      BY <1>2, OpenedTask
    <2>2. Owns(t, g) /\ Owns(t, g)' /\ Serving(t)' /\ Row(t)' = Row(t)
      BY <1>0, <1>2, <2>1 DEF Owns, Serving, Row
    <2>3. Held(t) => Held(t)'
      BY <1>0, <2>1, <2>2 DEF Held, StopAhead, Level
    <2>4. HoldsOn(t)'
      BY <1>0, <1>1, <2>1, <2>2, <2>3 DEF HoldsOn
    <2> QED
      BY <1>0, <2>1, <2>2, <2>4 DEF Acts
  <1>3. CASE \/ tasks[t].answer \in Errors /\ Leaves(t, tasks[t].answer)
             \/ tasks[t].kind = "stop" /\ tasks[t].answer # "leased"
                /\ Replies(t, "cancel", tasks[t].answer)
    <2>1. /\ \A u \in Tasks \ {t} : KeepsTask(u)
          /\ tasks'[t].gen = g /\ ~Owns(t, g)' /\ ~Owns(t, g)
      BY <1>0, <1>3, OthersKept DEF Leaves, Replies, Moves, Owns, Errors
    <2> QED
      BY <1>0, <1>1, <2>1, BystanderActs
  <1>4. ASSUME tasks[t].kind = "stop", tasks[t].answer = "leased" PROVE FALSE
    BY <1>0, <1>4 DEF OwnInv, CommandsAnswer, WellAnswered
  <1> QED
    BY <1>1, <1>2, <1>3, <1>4, RecordResultView

(* Reclaim is a step that Acts allows. *)
LEMMA ReclaimActs ==
    ASSUME OwnInv, NEW t \in Tasks, NEW g \in Generations, g = tasks[t].gen,
           Reclaim(t)
    PROVE  Acts(t, g)
  <1> DEFINE resumed == MarkResumedAfterApproval(Row(t), tasks[t].proc)
  <1>0. tasks[t].pc = "reclaim" /\ Serving(t) /\ UNCHANGED <<procs, reap>>
    BY DEF Reclaim
  <1>1. /\ g \in Generations /\ Row(t) \in Snapshot /\ Row(t) = rows[g] /\ TypeInv
        /\ tasks[t].proc \in Processes
    BY <1>0, AtWork DEF Row
  <1>2. ~Owns(t, g)
    BY <1>0 DEF Owns
  <1>3. resumed.status = "running" /\ resumed.producer = tasks[t].proc
    BY <1>1, ResumedRow DEF Snapshot
  <1>4. \/ /\ Row(t).status = "continuable"
           /\ Rewrites(g, resumed)
           /\ Opened(t, resumed, {"stopped", "failed"})
        \/ Leaves(t, "illegal") /\ UNCHANGED rows
    BY <1>1, ReclaimView
  <1> HIDE DEF resumed
  <1>5. CASE Leaves(t, "illegal") /\ UNCHANGED rows
    <2>1. /\ \A u \in Tasks \ {t} : KeepsTask(u)
          /\ tasks'[t].gen = g /\ ~Owns(t, g)'
      BY <1>5, OthersKept DEF Leaves, Moves, Owns
    <2> QED
      BY <1>0, <1>1, <1>2, <1>5, <2>1, BystanderActs
  <1>6. CASE /\ Row(t).status = "continuable"
             /\ Rewrites(g, resumed)
             /\ Opened(t, resumed, {"stopped", "failed"})
    <2>1. /\ \A u \in Tasks \ {t} : KeepsTask(u)
          /\ tasks'[t].pc \in {"streaming", "settle"}
          /\ tasks'[t].pc = "settle" => tasks'[t].intent # "none"
          /\ tasks'[t].proc = tasks[t].proc /\ tasks'[t].gen = g
          /\ tasks'[t].seen = resumed
      BY <1>6, OpenedTask
    <2>2. rows'[g] = resumed /\ Row(t)' = resumed
      BY <1>6, <2>1 DEF Rewrites, Row
    <2>3. Held(t)' /\ Serving(t)' /\ Owns(t, g)'
      BY <1>0, <1>3, <2>1, <2>2 DEF Held, Level, Serving, Owns, IsActive, ActiveStatuses
    <2>4. HoldsOn(t)'
      BY <2>1, <2>3 DEF HoldsOn
    <2>5. Untaken(g)
      BY <1>1, <1>6 DEF Untaken, IsActive, ActiveStatuses
    <2>6. rows'[g].producer \in Processes /\ procs[rows'[g].producer] \in {"up", "closing"}
      BY <1>0, <1>1, <1>3, <2>2 DEF Serving
    <2> QED
      BY <1>0, <1>6, <2>1, <2>3, <2>4, <2>5, <2>6 DEF Acts, Rewrites
  <1> QED
    BY <1>4, <1>5, <1>6

(* EndStream is a step that Acts allows. *)
LEMMA EndStreamActs ==
    ASSUME OwnInv, NEW t \in Tasks, NEW g \in Generations, g = tasks[t].gen,
           NEW intent \in Intents, EndStream(t, intent)
    PROVE  Acts(t, g)
  <1>0. tasks[t].pc = "streaming"
    BY DEF EndStream
  <1>1. g \in Generations /\ TypeInv /\ HoldsOn(t)
    BY <1>0, AtWork
  <1>2. /\ Serving(t) /\ intent # "none" /\ UNCHANGED <<rows, procs, reap>>
        /\ Moves(t, "settle", tasks[t].seen, intent, tasks[t].answer, tasks[t].leased,
                 tasks[t].cancelled)
    BY <1>1, EndStreamView
  <1>3. /\ \A u \in Tasks \ {t} : KeepsTask(u)
        /\ tasks'[t].pc = "settle" /\ tasks'[t].intent = intent
        /\ tasks'[t].proc = tasks[t].proc /\ tasks'[t].gen = g
        /\ tasks'[t].seen = tasks[t].seen
    BY <1>2, OthersKept DEF Moves
  <1>4. Owns(t, g) /\ Owns(t, g)' /\ Serving(t)' /\ Row(t)' = Row(t)
    BY <1>0, <1>2, <1>3 DEF Owns, Serving, Row
  <1>5. Held(t) => Held(t)'
    BY <1>0, <1>3, <1>4 DEF Held, StopAhead, Level
  <1>6. HoldsOn(t)'
    BY <1>1, <1>2, <1>3, <1>4, <1>5 DEF HoldsOn
  <1> QED
    BY <1>2, <1>3, <1>4, <1>6 DEF Acts

(* Settling a row with an ending leaves it inactive. *)
LEMMA SettledIsOver ==
    ASSUME OwnInv, NEW t \in Tasks, NEW g \in Generations, g = tasks[t].gen,
           tasks[t].pc \in {"settle", "retry"},
           Matches(Row(t), tasks[t].seen.version, LegalFrom(tasks[t].intent)),
           NEW roll \in 0..MaxRoll,
           Rewrites(tasks[t].gen, Settled(Row(t), tasks[t].intent, roll)),
           Leaves(t, tasks[t].answer), UNCHANGED <<procs, reap>>
    PROVE  Acts(t, g)
  <1> DEFINE i == tasks[t].intent
             new == Settled(Row(t), i, roll)
  <1>1. /\ g \in Generations /\ Row(t) \in Snapshot /\ Row(t) = rows[g] /\ i \in Intents
        /\ HoldsOn(t)
    BY AtWork DEF Row, TaskType
  <1>2. Row(t).status \in LegalFrom(i) /\ roll \in Nat
    BY ConstantsAssumption DEF Matches
  <1>3. Owns(t, g) /\ i # "none"
    BY <1>1 DEF Owns, HoldsOn
  <1>4. new.producer = Row(t).producer /\ ~IsActive(new)
    <2>1. /\ new.producer = Row(t).producer
          /\ new.status \in TerminalStatuses \union {"continuable"}
      BY <1>1, <1>2, <1>3, SettledRow DEF Snapshot, Intents
    <2> QED
      BY <2>1, StatusNames DEF IsActive
  <1>5. rows'[g] = new /\ \A h \in Generations \ {g} : rows'[h] = rows[h]
    BY DEF Rewrites
  <1> HIDE DEF new
  <1>6. /\ \A u \in Tasks \ {t} : KeepsTask(u)
        /\ tasks'[t].gen = g /\ ~Owns(t, g)'
    BY OthersKept DEF Leaves, Moves, Owns
  <1>7. rows[g].status # "absent"
    BY <1>1, <1>2, LegalIntents, StatusNames
  <1> QED
    BY <1>1, <1>3, <1>4, <1>5, <1>6, <1>7 DEF Acts, HoldsOn

(* Settle is a step that Acts allows. *)
LEMMA SettleActs ==
    ASSUME OwnInv, NEW t \in Tasks, NEW g \in Generations, g = tasks[t].gen,
           Settle(t)
    PROVE  Acts(t, g)
  <1> DEFINE i == tasks[t].intent
  <1>0. tasks[t].pc = "settle" /\ Serving(t) /\ UNCHANGED <<procs, reap>>
    BY DEF Settle
  <1>1. g \in Generations /\ TypeInv /\ HoldsOn(t) /\ i \in Intents
    BY <1>0, AtWork DEF TaskType
  <1>2. CASE Matches(Row(t), tasks[t].seen.version, LegalFrom(i))
    <2>1. PICK roll \in 0..MaxRoll : Rewrites(g, Settled(Row(t), i, roll))
      BY <1>1, <1>2, SettleView
    <2>2. Leaves(t, tasks[t].answer)
      BY <1>1, <1>2, SettleView
    <2> QED
      BY <1>0, <1>2, <2>1, <2>2, SettledIsOver
  <1>3. CASE ~Matches(Row(t), tasks[t].seen.version, LegalFrom(i))
    <2>1. Replies(t, "reread", tasks[t].answer) /\ UNCHANGED rows
      BY <1>1, <1>3, SettleView
    <2>2. /\ \A u \in Tasks \ {t} : KeepsTask(u)
          /\ tasks'[t].pc = "reread" /\ tasks'[t].intent = i
          /\ tasks'[t].proc = tasks[t].proc /\ tasks'[t].gen = g
          /\ tasks'[t].seen = tasks[t].seen
      BY <2>1, OthersKept DEF Replies, Moves
    <2>3. Owns(t, g) /\ Owns(t, g)' /\ Serving(t)' /\ Row(t)' = Row(t)
      BY <1>0, <2>1, <2>2 DEF Owns, Serving, Row
    <2>4. i # "none"
      BY <1>0, <1>1, <2>3 DEF HoldsOn
    <2>5. Held(t) => StopAhead(t)
      <3>1. "running" \in LegalFrom(i) /\ "continuing" \in LegalFrom(i)
        BY <1>1, LegalIntents
      <3> QED
        BY <1>0, <1>3, <3>1 DEF Held, Level, Matches
    <2>6. Held(t) => Held(t)'
      BY <1>0, <2>2, <2>3, <2>5 DEF Held, StopAhead
    <2>7. HoldsOn(t)'
      BY <1>0, <1>1, <2>2, <2>3, <2>4, <2>6 DEF HoldsOn
    <2> QED
      BY <1>0, <2>1, <2>2, <2>3, <2>7 DEF Acts
  <1> QED
    BY <1>2, <1>3

(* Reread is a step that Acts allows. *)
LEMMA RereadActs ==
    ASSUME OwnInv, NEW t \in Tasks, NEW g \in Generations, g = tasks[t].gen,
           Reread(t)
    PROVE  Acts(t, g)
  <1> DEFINE i == IF Row(t).status = "stop_requested" /\ tasks[t].intent # "failed"
                  THEN "stopped" ELSE tasks[t].intent
  <1>0. tasks[t].pc = "reread" /\ Serving(t) /\ UNCHANGED <<rows, procs, reap>>
    BY DEF Reread
  <1>1. /\ g \in Generations /\ TypeInv /\ HoldsOn(t) /\ Row(t) = rows[g]
        /\ tasks[t].seen.version \in Nat
    BY <1>0, AtWork DEF Row
  <1>2. Owns(t, g) /\ tasks[t].intent # "none"
    BY <1>0, <1>1 DEF Owns, HoldsOn
  <1>3. Held(t) \/ (procs[tasks[t].proc] = "closing" /\ Row(t).status = "failed")
    BY <1>1, <1>2 DEF HoldsOn
  <1>4. CASE Row(t).version = tasks[t].seen.version
    <2>1. Leaves(t, tasks[t].answer)
      BY <1>1, <1>4, RereadView
    <2>2. ~IsActive(rows[g])
      BY <1>0, <1>1, <1>3, <1>4 DEF Held, StopAhead, IsActive, ActiveStatuses
    <2>3. /\ \A u \in Tasks \ {t} : KeepsTask(u)
          /\ tasks'[t].gen = g /\ ~Owns(t, g)'
      BY <2>1, OthersKept DEF Leaves, Moves, Owns
    <2> QED
      BY <1>0, <1>2, <2>2, <2>3 DEF Acts, HoldsOn
  <1>5. CASE Row(t).version # tasks[t].seen.version
    <2>1. Moves(t, "retry", Row(t), i, tasks[t].answer, tasks[t].leased, tasks[t].cancelled)
      BY <1>1, <1>5, RereadView
    <2>2. /\ \A u \in Tasks \ {t} : KeepsTask(u)
          /\ tasks'[t].pc = "retry" /\ tasks'[t].intent = i
          /\ tasks'[t].proc = tasks[t].proc /\ tasks'[t].gen = g
          /\ tasks'[t].seen = Row(t)
      BY <2>1, OthersKept DEF Moves
    <2>3. Owns(t, g)' /\ Serving(t)' /\ Row(t)' = Row(t)
      BY <1>0, <2>2 DEF Owns, Serving, Row
    <2>4. i # "none"
      BY <1>2
    <2>5. Held(t) => Row(t).status = "stop_requested" /\ i \in {"stopped", "failed"}
      BY <1>0 DEF Held, StopAhead
    <2> HIDE DEF i
    <2>6. Held(t) => Held(t)'
      BY <1>0, <2>2, <2>3, <2>5 DEF Held, Level
    <2>7. HoldsOn(t)'
      BY <1>0, <1>3, <2>2, <2>3, <2>4, <2>6 DEF HoldsOn
    <2> QED
      BY <1>0, <1>2, <2>2, <2>3, <2>7 DEF Acts
  <1> QED
    BY <1>4, <1>5

(* Retry is a step that Acts allows. *)
LEMMA RetryActs ==
    ASSUME OwnInv, NEW t \in Tasks, NEW g \in Generations, g = tasks[t].gen,
           Retry(t)
    PROVE  Acts(t, g)
  <1> DEFINE i == tasks[t].intent
  <1>0. tasks[t].pc = "retry" /\ Serving(t) /\ UNCHANGED <<procs, reap>>
    BY DEF Retry
  <1>1. g \in Generations /\ TypeInv /\ HoldsOn(t) /\ i \in Intents /\ Row(t) = rows[g]
    BY <1>0, AtWork DEF Row, TaskType
  <1>2. Owns(t, g) /\ Leaves(t, tasks[t].answer)
    BY <1>0, <1>1, RetryView DEF Owns
  <1>3. CASE Matches(Row(t), tasks[t].seen.version, LegalFrom(i))
    <2>1. PICK roll \in 0..MaxRoll : Rewrites(g, Settled(Row(t), i, roll))
      BY <1>1, <1>3, RetryView
    <2> QED
      BY <1>0, <1>2, <1>3, <2>1, SettledIsOver
  <1>4. CASE ~Matches(Row(t), tasks[t].seen.version, LegalFrom(i))
    <2>1. UNCHANGED rows
      BY <1>1, <1>4, RetryView
    <2>2. i \in {"stopped", "failed"} => "stop_requested" \in LegalFrom(i)
      BY <1>1, LegalIntents
    <2>3. ~Held(t)
      BY <1>0, <1>4, <2>2 DEF Held, Level, Matches
    <2>4. ~IsActive(rows[g])
      BY <1>1, <1>2, <2>3 DEF HoldsOn, IsActive, ActiveStatuses
    <2>5. /\ \A u \in Tasks \ {t} : KeepsTask(u)
          /\ tasks'[t].gen = g /\ ~Owns(t, g)'
      BY <1>2, OthersKept DEF Leaves, Moves, Owns
    <2> QED
      BY <1>0, <1>2, <2>1, <2>4, <2>5 DEF Acts, HoldsOn
  <1> QED
    BY <1>3, <1>4

(* The commands' other steps hold no row and write none. *)
LEMMA CommandActs ==
    ASSUME OwnInv, NEW t \in Tasks, NEW g \in Generations, g = tasks[t].gen,
           ClaimCommand(t) \/ PublishStop(t) \/ CancelLocally(t)
    PROVE  Acts(t, g)
  <1>0. /\ tasks[t].pc \in {"claim", "publish", "cancel"}
        /\ UNCHANGED <<rows, procs, reap>>
    BY DEF ClaimCommand, PublishStop, CancelLocally
  <1>1. tasks[t].gen \in Generations /\ TypeInv
    BY <1>0, AtWork
  <1>2. CASE ClaimCommand(t)
    <2>1. /\ \A u \in Tasks \ {t} : KeepsTask(u)
          /\ tasks'[t].gen = tasks[t].gen
          /\ tasks'[t].pc \in {"decide", "cancel", "done"}
      BY <1>1, <1>2, ClaimCommandView, OthersKept DEF Replies, Leaves, Moves
    <2>2. ~Owns(t, g) /\ ~Owns(t, g)'
      BY <1>0, <2>1 DEF Owns
    <2> QED
      BY <1>0, <2>1, <2>2, BystanderActs
  <1>3. CASE PublishStop(t)
    <2>1. tasks[t].pc = "publish" /\ Replies(t, "record", tasks[t].answer)
      BY <1>1, <1>3, PublishStopView
    <2>2. tasks[t].answer # "leased"
      BY <2>1 DEF OwnInv, CommandsAnswer, WellAnswered
    <2>3. /\ \A u \in Tasks \ {t} : KeepsTask(u)
          /\ tasks'[t].gen = tasks[t].gen
          /\ tasks'[t].pc = "record" /\ tasks'[t].answer # "leased"
      BY <2>1, <2>2, OthersKept DEF Replies, Moves
    <2>4. ~Owns(t, g) /\ ~Owns(t, g)'
      BY <2>1, <2>3 DEF Owns
    <2> QED
      BY <1>0, <2>3, <2>4, BystanderActs
  <1>4. CASE CancelLocally(t)
    <2>1. /\ \A u \in Tasks \ {t} : KeepsTask(u)
          /\ IsOver(t, "done")
      BY <1>1, <1>4, CancelLocallyView
    <2>2. ~Owns(t, g) /\ ~Owns(t, g)' /\ tasks'[t].gen = g
      BY <1>0, <2>1 DEF Owns, IsOver
    <2> QED
      BY <1>0, <2>1, <2>2, BystanderActs
  <1> QED
    BY <1>2, <1>3, <1>4
-----------------------------------------------------------------------------
(* The processes come and go. *)

(* A step that fails the rows of some producers: the tasks left alone keep  *)
(* what they hold if those producers are not serving, or are closing.       *)
LEMMA FailedRows ==
    ASSUME TypeInv, NEW producers \in SUBSET Processes, FailActiveOf(producers)
    PROVE  \A g \in Generations :
             /\ IsActive(rows'[g]) =>
                  rows'[g] = rows[g] /\ rows[g].producer \notin producers
             /\ IsActive(rows[g]) /\ rows[g].producer \in producers =>
                  rows'[g].status = "failed"
             /\ ~(IsActive(rows[g]) /\ rows[g].producer \in producers) => rows'[g] = rows[g]
             /\ rows'[g].producer = rows[g].producer
             /\ rows[g].status = "absent" => rows'[g].status = "absent"
  <1> SUFFICES ASSUME NEW g \in Generations
               PROVE  /\ IsActive(rows'[g]) =>
                           rows'[g] = rows[g] /\ rows[g].producer \notin producers
                      /\ IsActive(rows[g]) /\ rows[g].producer \in producers =>
                           rows'[g].status = "failed"
                      /\ ~(IsActive(rows[g]) /\ rows[g].producer \in producers) =>
                           rows'[g] = rows[g]
                      /\ rows'[g].producer = rows[g].producer
                      /\ rows[g].status = "absent" => rows'[g].status = "absent"
    OBVIOUS
  <1>1. rows[g] \in RowType(Processes \union {None})
    BY DEF TypeInv, TypeOK, Snapshot
  <1>2. FailActive(rows[g]).status = "failed" /\ FailActive(rows[g]).producer = rows[g].producer
    BY <1>1, ReapedRow
  <1>3. rows'[g] = IF IsActive(rows[g]) /\ rows[g].producer \in producers
                   THEN FailActive(rows[g]) ELSE rows[g]
    BY DEF FailActiveOf
  <1> QED
    BY <1>2, <1>3 DEF IsActive, ActiveStatuses

(* Boot keeps the ownership invariants. *)
LEMMA BootKeeps ==
    ASSUME OwnInv, NEW p \in Processes, Boot(p)
    PROVE  OwnersHold' /\ OneOwner' /\ HasOwner' /\ ProducersRan' /\ ReapsTheDead'
  <1>0. /\ procs[p] = "off" /\ UNCHANGED <<rows, tasks>>
        /\ procs \in [Processes -> {"off", "booting", "up", "closing", "gone"}]
        /\ reap \in [Processes -> SUBSET Processes]
    BY DEF Boot, OwnInv, RowInv, TypeInv, TypeOK
  <1>1. procs'[p] = "booting" /\ \A q \in Processes \ {p} : procs'[q] = procs[q]
    BY <1>0 DEF Boot
  <1>2. OwnersHold'
    <2> SUFFICES ASSUME NEW t \in Tasks, Owns(t, tasks[t].gen)' PROVE HoldsOn(t)'
      BY DEF OwnersHold, HoldsOn
    <2>1. Owns(t, tasks[t].gen) /\ HoldsOn(t) /\ tasks[t].pc # "idle"
      BY <1>0 DEF Owns, OwnInv, OwnersHold
    <2>2. tasks[t].proc \in Processes /\ Serving(t)
      BY <2>1, AtWork DEF HoldsOn
    <2>3. procs'[tasks[t].proc] = procs[tasks[t].proc]
      BY <1>0, <1>1, <2>2 DEF Serving
    <2> QED
      BY <1>0, <2>1, <2>3 DEF HoldsOn, Held, StopAhead, Level, Serving, Row
  <1>3. OneOwner'
    BY <1>0 DEF OwnInv, OneOwner, Owns
  <1>4. HasOwner'
    <2> SUFFICES ASSUME NEW g \in Generations, IsActive(rows[g]), Steady(rows[g].producer)'
                 PROVE  \E t \in Tasks : Owns(t, g)
      BY <1>0 DEF HasOwner, Owns
    <2>1. rows[g].producer \in Processes
      BY DEF OwnInv, ProducersRan, IsActive, ActiveStatuses
    <2>2. Steady(rows[g].producer)
      BY <1>0, <1>1, <2>1 DEF Steady
    <2> QED
      BY <2>2 DEF OwnInv, HasOwner
  <1>5. ProducersRan'
    BY <1>0, <1>1 DEF OwnInv, ProducersRan
  <1>6. ReapsTheDead'
    <2> SUFFICES ASSUME NEW r \in Processes, NEW q \in reap'[r] PROVE procs'[q] = "gone"
      BY DEF ReapsTheDead
    <2>1. q \in Processes /\ procs[q] = "gone"
      <3>1. CASE r = p
        BY <1>0, <3>1 DEF Boot, ProvablyDead
      <3>2. CASE r # p
        BY <1>0, <3>2 DEF Boot, OwnInv, ReapsTheDead
      <3> QED
        BY <3>1, <3>2
    <2> QED
      BY <1>0, <1>1, <2>1
  <1> QED
    BY <1>2, <1>3, <1>4, <1>5, <1>6

(* ReclaimOrphans keeps the ownership invariants. *)
LEMMA ReclaimOrphansKeeps ==
    ASSUME OwnInv, NEW p \in Processes, ReclaimOrphans(p)
    PROVE  OwnersHold' /\ OneOwner' /\ HasOwner' /\ ProducersRan' /\ ReapsTheDead'
  <1>0. /\ procs[p] = "booting" /\ UNCHANGED tasks /\ FailActiveOf(reap[p])
        /\ procs \in [Processes -> {"off", "booting", "up", "closing", "gone"}]
        /\ reap \in [Processes -> SUBSET Processes]
        /\ TypeInv
    BY DEF ReclaimOrphans, OwnInv, RowInv, TypeInv, TypeOK
  <1>1. /\ procs'[p] = "up" /\ \A q \in Processes \ {p} : procs'[q] = procs[q]
        /\ reap' = [reap EXCEPT ![p] = {}]
    BY <1>0 DEF ReclaimOrphans
  <1>2. \A g \in Generations :
             /\ IsActive(rows'[g]) =>
                  rows'[g] = rows[g] /\ rows[g].producer \notin reap[p]
             /\ IsActive(rows[g]) /\ rows[g].producer \in reap[p] =>
                  rows'[g].status = "failed"
             /\ ~(IsActive(rows[g]) /\ rows[g].producer \in reap[p]) => rows'[g] = rows[g]
             /\ rows'[g].producer = rows[g].producer
             /\ rows[g].status = "absent" => rows'[g].status = "absent"
    BY <1>0, FailedRows
  <1>3. OwnersHold'
    <2> SUFFICES ASSUME NEW t \in Tasks, Owns(t, tasks[t].gen)' PROVE HoldsOn(t)'
      BY DEF OwnersHold, HoldsOn
    <2>1. Owns(t, tasks[t].gen) /\ HoldsOn(t) /\ tasks[t].pc # "idle"
      BY <1>0 DEF Owns, OwnInv, OwnersHold
    <2>2. tasks[t].proc \in Processes /\ tasks[t].gen \in Generations /\ Serving(t)
      BY <2>1, AtWork DEF HoldsOn
    <2>3. procs'[tasks[t].proc] = procs[tasks[t].proc]
      BY <1>0, <1>1, <2>2 DEF Serving
    <2>4. tasks[t].proc \notin reap[p]
      BY <2>2 DEF OwnInv, ReapsTheDead, Serving
    <2>5. rows'[tasks[t].gen] = rows[tasks[t].gen]
      BY <1>2, <2>1, <2>2, <2>4 DEF HoldsOn, Held, Row, IsActive, ActiveStatuses
    <2> QED
      BY <1>0, <2>1, <2>3, <2>5 DEF HoldsOn, Held, StopAhead, Level, Serving, Row
  <1>4. OneOwner'
    BY <1>0 DEF OwnInv, OneOwner, Owns
  <1>5. HasOwner'
    <2> SUFFICES ASSUME NEW g \in Generations, IsActive(rows'[g]), Steady(rows[g].producer)'
                 PROVE  \E t \in Tasks : Owns(t, g)
      BY <1>0 DEF HasOwner, Owns
    <2>0. rows'[g] = rows[g]
      BY <1>2
    <2>1. /\ rows[g].producer \in Processes
          /\ procs[rows[g].producer] \in {"up", "closing", "gone"}
      BY <2>0 DEF OwnInv, ProducersRan, IsActive, ActiveStatuses
    <2>2. Steady(rows[g].producer)
      BY <1>0, <1>1, <2>0, <2>1 DEF Steady
    <2> QED
      BY <2>0, <2>2 DEF OwnInv, HasOwner
  <1>6. ProducersRan'
    <2> SUFFICES ASSUME NEW g \in Generations, rows'[g].status # "absent"
                 PROVE  /\ rows'[g].producer \in Processes
                        /\ procs'[rows'[g].producer] \in {"up", "closing", "gone"}
      BY DEF ProducersRan
    <2>1. /\ rows[g].producer \in Processes /\ rows'[g].producer = rows[g].producer
          /\ procs[rows[g].producer] \in {"up", "closing", "gone"}
      BY <1>2 DEF OwnInv, ProducersRan
    <2> QED
      BY <1>1, <2>1
  <1>7. ReapsTheDead'
    <2> SUFFICES ASSUME NEW r \in Processes, NEW q \in reap'[r] PROVE procs'[q] = "gone"
      BY DEF ReapsTheDead
    <2>1. q \in reap[r] /\ q \in Processes
      BY <1>0, <1>1
    <2>2. procs[q] = "gone"
      BY <2>1 DEF OwnInv, ReapsTheDead
    <2> QED
      BY <1>0, <1>1, <2>1, <2>2
  <1> QED
    BY <1>3, <1>4, <1>5, <1>6, <1>7

(* Shutdown keeps the ownership invariants. *)
LEMMA ShutdownKeeps ==
    ASSUME OwnInv, NEW p \in Processes, Shutdown(p)
    PROVE  OwnersHold' /\ OneOwner' /\ HasOwner' /\ ProducersRan' /\ ReapsTheDead'
  <1>0. /\ procs[p] = "up" /\ UNCHANGED <<tasks, reap>> /\ FailActiveOf({p})
        /\ procs \in [Processes -> {"off", "booting", "up", "closing", "gone"}]
        /\ reap \in [Processes -> SUBSET Processes]
        /\ TypeInv
    BY DEF Shutdown, OwnInv, RowInv, TypeInv, TypeOK
  <1>1. procs'[p] = "closing" /\ \A q \in Processes \ {p} : procs'[q] = procs[q]
    BY <1>0 DEF Shutdown
  <1>2. \A g \in Generations :
             /\ IsActive(rows'[g]) =>
                  rows'[g] = rows[g] /\ rows[g].producer \notin {p}
             /\ IsActive(rows[g]) /\ rows[g].producer \in {p} =>
                  rows'[g].status = "failed"
             /\ ~(IsActive(rows[g]) /\ rows[g].producer \in {p}) => rows'[g] = rows[g]
             /\ rows'[g].producer = rows[g].producer
             /\ rows[g].status = "absent" => rows'[g].status = "absent"
    BY <1>0, FailedRows
  <1>3. OwnersHold'
    <2> SUFFICES ASSUME NEW t \in Tasks, Owns(t, tasks[t].gen)' PROVE HoldsOn(t)'
      BY DEF OwnersHold, HoldsOn
    <2>1. Owns(t, tasks[t].gen) /\ HoldsOn(t) /\ tasks[t].pc # "idle"
      BY <1>0 DEF Owns, OwnInv, OwnersHold
    <2>2. /\ tasks[t].proc \in Processes /\ tasks[t].gen \in Generations
          /\ Row(t) = rows[tasks[t].gen] /\ Row(t)' = rows'[tasks[t].gen]
      BY <1>0, <2>1, AtWork DEF Row
    <2>3. /\ Serving(t)
          /\ tasks[t].pc \in {"settle", "reread", "retry"} => tasks[t].intent # "none"
      BY <2>1 DEF HoldsOn
    <2>4. Serving(t)'
      BY <1>0, <1>1, <2>2, <2>3 DEF Serving
    <2>5. CASE tasks[t].proc = p
      <3>1. Held(t)
        BY <1>0, <2>1, <2>5 DEF HoldsOn
      <3>2. Row(t)'.status = "failed" /\ procs'[tasks[t].proc] = "closing"
        BY <1>1, <1>2, <2>2, <2>5, <3>1 DEF Held
      <3> QED
        BY <1>0, <2>3, <2>4, <3>2 DEF HoldsOn
    <2>6. CASE tasks[t].proc # p
      <3>1. Row(t)' = Row(t) /\ procs'[tasks[t].proc] = procs[tasks[t].proc]
        BY <1>1, <1>2, <2>1, <2>2, <2>6 DEF HoldsOn, Held, IsActive, ActiveStatuses
      <3> QED
        BY <1>0, <2>1, <2>4, <3>1 DEF HoldsOn, Held, StopAhead, Level
    <2> QED
      BY <2>5, <2>6
  <1>4. OneOwner'
    BY <1>0 DEF OwnInv, OneOwner, Owns
  <1>5. HasOwner'
    <2> SUFFICES ASSUME NEW g \in Generations, IsActive(rows'[g]), Steady(rows[g].producer)'
                 PROVE  \E t \in Tasks : Owns(t, g)
      BY <1>0 DEF HasOwner, Owns
    <2>0. rows'[g] = rows[g]
      BY <1>2
    <2>1. rows[g].producer \in Processes
      BY <2>0 DEF OwnInv, ProducersRan, IsActive, ActiveStatuses
    <2>2. Steady(rows[g].producer)
      BY <1>0, <1>1, <2>0, <2>1 DEF Steady
    <2> QED
      BY <2>0, <2>2 DEF OwnInv, HasOwner
  <1>6. ProducersRan'
    <2> SUFFICES ASSUME NEW g \in Generations, rows'[g].status # "absent"
                 PROVE  /\ rows'[g].producer \in Processes
                        /\ procs'[rows'[g].producer] \in {"up", "closing", "gone"}
      BY DEF ProducersRan
    <2>1. /\ rows[g].producer \in Processes /\ rows'[g].producer = rows[g].producer
          /\ procs[rows[g].producer] \in {"up", "closing", "gone"}
      BY <1>2 DEF OwnInv, ProducersRan
    <2> QED
      BY <1>1, <2>1
  <1>7. ReapsTheDead'
    <2> SUFFICES ASSUME NEW r \in Processes, NEW q \in reap[r] PROVE procs'[q] = "gone"
      BY <1>0 DEF ReapsTheDead
    <2>1. q \in Processes /\ procs[q] = "gone"
      BY <1>0 DEF OwnInv, ReapsTheDead
    <2> QED
      BY <1>0, <1>1, <2>1
  <1> QED
    BY <1>3, <1>4, <1>5, <1>6, <1>7

(* Exit keeps the ownership invariants. *)
LEMMA ExitKeeps ==
    ASSUME OwnInv, NEW p \in Processes, Exit(p)
    PROVE  OwnersHold' /\ OneOwner' /\ HasOwner' /\ ProducersRan' /\ ReapsTheDead'
  <1>0. /\ procs[p] \in {"booting", "up", "closing"} /\ UNCHANGED rows
        /\ procs \in [Processes -> {"off", "booting", "up", "closing", "gone"}]
        /\ reap \in [Processes -> SUBSET Processes]
        /\ TypeInv
    BY DEF Exit, OwnInv, RowInv, TypeInv, TypeOK
  <1>1. /\ procs'[p] = "gone" /\ \A q \in Processes \ {p} : procs'[q] = procs[q]
        /\ reap' = [reap EXCEPT ![p] = {}]
    BY <1>0 DEF Exit
  <1>2. \A u \in Tasks :
          /\ tasks[u].proc = p /\ tasks[u].pc # "done" => IsOver(u, "dead")
          /\ ~(tasks[u].proc = p /\ tasks[u].pc # "done") => tasks'[u] = tasks[u]
    BY <1>0, ExitView
  <1>3. \A u \in Tasks, g \in Generations :
          /\ Owns(u, g)' => tasks'[u] = tasks[u] /\ tasks[u].proc # p /\ Owns(u, g)
          /\ Owns(u, g) /\ tasks[u].proc # p => Owns(u, g)'
    BY <1>2 DEF Owns, IsOver
  <1>4. OwnersHold'
    <2> SUFFICES ASSUME NEW t \in Tasks, Owns(t, tasks[t].gen)' PROVE HoldsOn(t)'
      BY DEF OwnersHold, HoldsOn
    <2>1. tasks'[t] = tasks[t] /\ tasks[t].proc # p /\ Owns(t, tasks[t].gen)
      BY <1>2 DEF Owns, IsOver
    <2>2. tasks[t].proc \in Processes /\ HoldsOn(t)
      BY <2>1, AtWork DEF Owns
    <2>3. procs'[tasks[t].proc] = procs[tasks[t].proc]
      BY <1>1, <2>1, <2>2
    <2> QED
      BY <1>0, <2>1, <2>2, <2>3 DEF HoldsOn, Held, StopAhead, Level, Serving, Row
  <1>5. OneOwner'
    BY <1>3 DEF OwnInv, OneOwner
  <1>6. HasOwner'
    <2> SUFFICES ASSUME NEW g \in Generations, IsActive(rows[g]), Steady(rows[g].producer)'
                 PROVE  \E t \in Tasks : Owns(t, g)'
      BY <1>0 DEF HasOwner
    <2>1. rows[g].producer \in Processes
      BY DEF OwnInv, ProducersRan, IsActive, ActiveStatuses
    <2>2. Steady(rows[g].producer) /\ rows[g].producer # p
      BY <1>0, <1>1, <2>1 DEF Steady
    <2>3. PICK t \in Tasks : Owns(t, g)
      BY <2>2 DEF OwnInv, HasOwner
    <2>4. tasks[t].proc = rows[g].producer
      <3>1. HoldsOn(t) /\ tasks[t].gen = g
        BY <2>3 DEF Owns, OwnInv, OwnersHold
      <3> QED
        BY <2>3, <3>1 DEF HoldsOn, Held, Row, IsActive, ActiveStatuses
    <2> QED
      BY <1>3, <2>2, <2>3, <2>4
  <1>7. ProducersRan'
    BY <1>0, <1>1 DEF OwnInv, ProducersRan
  <1>8. ReapsTheDead'
    <2> SUFFICES ASSUME NEW r \in Processes, NEW q \in reap'[r] PROVE procs'[q] = "gone"
      BY DEF ReapsTheDead
    <2>1. q \in reap[r] /\ q \in Processes
      BY <1>0, <1>1
    <2>2. procs[q] = "gone"
      BY <2>1 DEF OwnInv, ReapsTheDead
    <2> QED
      BY <1>1, <2>1, <2>2
  <1> QED
    BY <1>4, <1>5, <1>6, <1>7, <1>8

-----------------------------------------------------------------------------
(* OwnInv holds initially. *)
LEMMA OwnInvInit == Init => OwnInv
  <1> SUFFICES ASSUME Init PROVE OwnInv
    OBVIOUS
  <1>1. \A t \in Tasks : tasks[t].pc = "idle" /\ tasks[t].key = None
    BY DEF Init, Idle
  <1>2. \A g \in Generations : rows[g].status = "absent"
    BY DEF Init, NoRow
  <1>3. CommandsAnswer
    BY <1>1 DEF CommandsAnswer, WellAnswered
  <1>4. OwnersHold /\ OneOwner
    BY <1>1 DEF OwnersHold, HoldsOn, OneOwner, Owns
  <1>5. HasOwner /\ ProducersRan /\ IndexHolds
    BY <1>2 DEF HasOwner, ProducersRan, IndexHolds, IsActive, ActiveStatuses
  <1>6. ReapsTheDead
    BY DEF Init, ReapsTheDead
  <1> QED
    BY <1>3, <1>4, <1>5, <1>6, RowInvInit DEF OwnInv

(* Every step keeps OwnInv. *)
LEMMA OwnInvNext == OwnInv /\ [Next]_vars => OwnInv'
  <1> SUFFICES ASSUME OwnInv, [Next]_vars PROVE OwnInv'
    OBVIOUS
  <1>0. RowInv' /\ IndexHolds' /\ CommandsAnswer' /\ TypeInv
    BY RowInvNext, IndexStep, CommandsStep DEF OwnInv, RowInv
  <1>1. ASSUME NEW t \in Tasks, TaskStep(t) PROVE OwnInv'
    <2>1. tasks[t].pc # "idle"
      BY <1>1 DEF TaskStep, EnterRunning, ClaimCommand, DecideStop, PublishStop, Lease,
        RecordResult, CancelLocally, Reclaim, EndStream, Settle, Reread, Retry
    <2>2. PICK g \in Generations : g = tasks[t].gen
      BY <2>1, AtWork
    <2>3. Acts(t, g)
      BY <1>1, <2>2, EnterRunningActs, CommandActs, DecideStopActs, LeaseActs, RecordResultActs,
        ReclaimActs, EndStreamActs, SettleActs, RereadActs, RetryActs DEF TaskStep
    <2> QED
      BY <2>3, ActsKeep
  <1>2. CASE Arrival
    <2>1. PICK t \in Tasks, p \in Processes, g \in Generations :
            \/ StartTurn(t, p, g) \/ SendResume(t, p, g)
            \/ \E k \in Keys : SendStop(t, p, g, k) \/ SendContinue(t, p, g, k)
      BY <1>2 DEF Arrival
    <2>2. CASE StartTurn(t, p, g)
      BY <2>2, StartTurnActs, ActsKeep
    <2>3. CASE SendResume(t, p, g)
      <3>1. /\ Arrives(t, "reclaim", "resume", p, g, None, rows[g])
            /\ UNCHANGED <<rows, procs, reap>>
        BY <1>0, <2>3, SendResumeView
      <3> QED
        BY <3>1, ArrivalActs, ActsKeep
    <2>4. ASSUME NEW k \in Keys, SendStop(t, p, g, k) \/ SendContinue(t, p, g, k)
          PROVE  OwnInv'
      <3>1. /\ \E kind : Arrives(t, "claim", kind, p, g, k, rows[g])
            /\ UNCHANGED <<rows, procs, reap>>
        BY <1>0, <2>4, SendCommandView
      <3> QED
        BY <3>1, ArrivalActs, ActsKeep
    <2> QED
      BY <2>1, <2>2, <2>3, <2>4
  <1>3. ASSUME \A u \in Tasks : KeepsTask(u), UNCHANGED <<rows, procs, reap>>
        PROVE  OwnInv'
    <2>1. \A u \in Tasks, g \in Generations : Owns(u, g)' <=> Owns(u, g)
      BY <1>3 DEF Owns, KeepsTask
    <2>2. \A u \in Tasks : HoldsOn(u) => HoldsOn(u)'
      BY <1>3 DEF HoldsOn, Owns, KeepsTask, Held, StopAhead, Level, Serving, Row
    <2> QED
      BY <1>0, <1>3, <2>1, <2>2
      DEF OwnInv, OwnersHold, OneOwner, HasOwner, ProducersRan, ReapsTheDead, Steady
  <1>4. CASE Delivery
    <2>1. /\ \A u \in Tasks : KeepsTask(u)
          /\ UNCHANGED <<rows, procs, reap>>
      BY <1>0, <1>4, HandleStopSignalView, OthersKept DEF Delivery, ExpireEntry
    <2> QED
      BY <1>3, <2>1
  <1>5. CASE ProcessStep
    BY <1>0, <1>5, BootKeeps, ReclaimOrphansKeeps, ShutdownKeeps, ExitKeeps
    DEF ProcessStep, OwnInv
  <1>6. CASE UNCHANGED vars
    BY <1>3, <1>6, OthersKept DEF vars
  <1> QED
    BY <1>1, <1>2, <1>4, <1>5, <1>6 DEF Next

(* Ownership holds throughout every behaviour. *)
LEMMA OwnershipHolds == Spec => []OwnInv
  BY OwnInvInit, OwnInvNext, PTL DEF Spec

(* While the process named on an active row is up, one of its tasks holds   *)
(* the row open, and only a Stop can have moved the version past it.        *)
THEOREM RowsOwned == Spec => []ActiveRowsAreOwned
  <1>1. OwnInv => ActiveRowsAreOwned
    <2> SUFFICES ASSUME OwnInv, NEW g \in Generations, IsActive(rows[g]), Steady(rows[g].producer)
                 PROVE  \E t \in Tasks : /\ Owns(t, g) /\ tasks[t].proc = rows[g].producer
                                         /\ Fenced(t)
      BY DEF ActiveRowsAreOwned
    <2>1. PICK t \in Tasks : Owns(t, g)
      BY DEF OwnInv, HasOwner
    <2>2. HoldsOn(t) /\ tasks[t].gen = g /\ Row(t) = rows[g]
      BY <2>1 DEF OwnInv, OwnersHold, Owns, Row
    <2>3. Held(t)
      BY <2>1, <2>2 DEF HoldsOn, IsActive, ActiveStatuses
    <2>4. Fenced(t) /\ tasks[t].proc = rows[g].producer
      BY <2>1, <2>2, <2>3 DEF Held, Fenced, Owns, StopAhead, Level
    <2> QED
      BY <2>1, <2>4
  <1> QED
    BY <1>1, OwnershipHolds, PTL

(* No row is settled, reaped or taken over under a running worker. *)
THEOREM RowsKept == Spec => []OwnersKeepTheirRows
  <1>1. OwnInv => OwnersKeepTheirRows
    <2> SUFFICES ASSUME OwnInv, NEW t \in Tasks, NEW g \in Generations, Owns(t, g),
                        Steady(tasks[t].proc)
                 PROVE  IsActive(rows[g]) /\ rows[g].producer = tasks[t].proc
      BY DEF OwnersKeepTheirRows
    <2>1. HoldsOn(t) /\ tasks[t].gen = g /\ Row(t) = rows[g]
      BY DEF OwnInv, OwnersHold, Owns, Row
    <2> QED
      BY <2>1 DEF HoldsOn, Held, Steady
  <1> QED
    BY <1>1, OwnershipHolds, PTL

(* The second and last attempt to settle a row is never refused. *)
THEOREM RetryIsEnough == Spec => []RetrySucceeds
  <1>1. OwnInv => RetrySucceeds
    <2> SUFFICES ASSUME OwnInv, NEW t \in Tasks, tasks[t].pc = "retry", Steady(tasks[t].proc)
                 PROVE  Matches(Row(t), tasks[t].seen.version, LegalFrom(tasks[t].intent))
      BY DEF RetrySucceeds
    <2>1. HoldsOn(t) /\ Owns(t, tasks[t].gen) /\ tasks[t].intent \in Intents
      BY AtWork DEF Owns, TaskType
    <2>2. Level(t, {"stop_requested"}) /\ tasks[t].intent \in {"stopped", "failed"}
      BY <2>1 DEF HoldsOn, Held, Steady
    <2>3. "stop_requested" \in LegalFrom(tasks[t].intent)
      BY <2>1, <2>2, LegalIntents
    <2> QED
      BY <2>2, <2>3 DEF Level, Matches
  <1> QED
    BY <1>1, OwnershipHolds, PTL

(* Two tasks of serving processes never run one conversation at once. *)
THEOREM OneStream == Spec => []OneStreamPerConversation
  <1>1. OwnInv => OneStreamPerConversation
    <2> SUFFICES ASSUME OwnInv, NEW t \in Tasks, NEW u \in Tasks, NEW g \in Generations,
                        NEW h \in Generations, Owns(t, g), Owns(u, h),
                        Steady(tasks[t].proc), Steady(tasks[u].proc),
                        ConversationOf[g] = ConversationOf[h]
                 PROVE  t = u
      BY DEF OneStreamPerConversation
    <2>1. /\ HoldsOn(t) /\ tasks[t].gen = g /\ Row(t) = rows[g]
          /\ HoldsOn(u) /\ tasks[u].gen = h /\ Row(u) = rows[h]
      BY DEF OwnInv, OwnersHold, Owns, Row
    <2>2. IsActive(rows[g]) /\ IsActive(rows[h])
      BY <2>1 DEF HoldsOn, Held, Steady
    <2>3. g = h
      BY <2>2 DEF OwnInv, IndexHolds
    <2> QED
      BY <2>3 DEF OwnInv, OneOwner
  <1> QED
    BY <1>1, OwnershipHolds, PTL
-----------------------------------------------------------------------------
(* The epochs Continues have leased are behind the row. *)
LeasedBelow(t) ==
    tasks[t].leased # 0 =>
        tasks[t].gen \in Generations /\ tasks[t].leased <= rows[tasks[t].gen].epoch

LeaseInv == RowInv /\ (\A t \in Tasks : LeasedBelow(t)) /\ EpochLeasedOnce

(* A step that leases nothing to task u. *)
LeaseKept(u) ==
    \/ tasks'[u].leased = 0
    \/ tasks'[u].leased = tasks[u].leased /\ tasks'[u].gen = tasks[u].gen

(* Only lease_continuation leases. *)
LEMMA LeasesKept ==
    ASSUME RowInv, [Next]_vars, ~(\E t \in Tasks : Lease(t)), NEW u \in Tasks
    PROVE  LeaseKept(u)
  <1>0. TypeInv
    BY DEF RowInv
  <1>1. CASE KeepsTask(u)
    BY <1>1 DEF LeaseKept, KeepsTask
  <1>2. ASSUME NEW t \in Tasks, TaskStep(t) PROVE LeaseKept(u)
    <2>1. CASE EnterRunning(t)
      BY <1>0, <1>1, <2>1, EnterRunningView, OthersKept DEF Opened, Moves, LeaseKept
    <2>2. CASE ClaimCommand(t)
      BY <1>0, <1>1, <2>2, ClaimCommandView, OthersKept DEF Replies, Leaves, Moves, LeaseKept
    <2>3. CASE DecideStop(t)
      BY <1>0, <1>1, <2>3, DecideStopView, OthersKept DEF Replies, Moves, LeaseKept
    <2>4. CASE PublishStop(t)
      BY <1>0, <1>1, <2>4, PublishStopView, OthersKept DEF Replies, Moves, LeaseKept
    <2>5. CASE RecordResult(t)
      BY <1>0, <1>1, <2>5, RecordResultView, OthersKept
      DEF Opened, Replies, Leaves, Moves, LeaseKept
    <2>6. CASE CancelLocally(t)
      BY <1>0, <1>1, <2>6, CancelLocallyView DEF IsOver, LeaseKept
    <2>7. CASE Reclaim(t)
      BY <1>0, <1>1, <2>7, ReclaimView, OthersKept DEF Opened, Leaves, Moves, LeaseKept
    <2>8. ASSUME NEW intent \in Intents, EndStream(t, intent) PROVE LeaseKept(u)
      BY <1>0, <1>1, <2>8, EndStreamView, OthersKept DEF Moves, LeaseKept
    <2>9. CASE Settle(t)
      BY <1>0, <1>1, <2>9, SettleView, OthersKept DEF Replies, Leaves, Moves, LeaseKept
    <2>10. CASE Reread(t)
      BY <1>0, <1>1, <2>10, RereadView, OthersKept DEF Leaves, Moves, LeaseKept
    <2>11. CASE Retry(t)
      BY <1>0, <1>1, <2>11, RetryView, OthersKept DEF Leaves, Moves, LeaseKept
    <2> QED
      BY <1>2, <2>1, <2>2, <2>3, <2>4, <2>5, <2>6, <2>7, <2>8, <2>9, <2>10, <2>11 DEF TaskStep
  <1>3. CASE Arrival
    <2>1. PICK t \in Tasks, p \in Processes, g \in Generations :
            \/ StartTurn(t, p, g) \/ SendResume(t, p, g)
            \/ \E k \in Keys : SendStop(t, p, g, k) \/ SendContinue(t, p, g, k)
      BY <1>3 DEF Arrival
    <2>2. \E pc, kind, key, seen : Arrives(t, pc, kind, p, g, key, seen)
      BY <1>0, <2>1, StartTurnView, SendResumeView, SendCommandView
    <2> QED
      BY <1>1, <2>2, OthersKept DEF Arrives, LeaseKept
  <1>4. CASE Delivery
    BY <1>0, <1>1, <1>4, HandleStopSignalView, OthersKept DEF Delivery, ExpireEntry
  <1>5. CASE ProcessStep
    <2>1. PICK p \in Processes : Boot(p) \/ ReclaimOrphans(p) \/ Shutdown(p) \/ Exit(p)
      BY <1>5 DEF ProcessStep
    <2>2. CASE Exit(p)
      BY <1>0, <1>1, <2>2, ExitView, OthersKept DEF IsOver, LeaseKept
    <2>3. CASE ~Exit(p)
      BY <1>1, <2>1, <2>3, OthersKept DEF Boot, ReclaimOrphans, Shutdown
    <2> QED
      BY <2>2, <2>3
  <1>6. CASE UNCHANGED vars
    BY <1>1, <1>6, OthersKept DEF vars
  <1> QED
    BY <1>2, <1>3, <1>4, <1>5, <1>6 DEF Next

(* Every step keeps LeaseInv. *)
LEMMA LeaseInvNext == LeaseInv /\ [Next]_vars => LeaseInv'
  <1> SUFFICES ASSUME LeaseInv, [Next]_vars PROVE LeaseInv'
    OBVIOUS
  <1>0. RowInv /\ TypeInv /\ RowInv'
    BY RowInvNext DEF LeaseInv, RowInv
  <1>1. \A g \in Generations : /\ rows'[g].epoch >= rows[g].epoch
                               /\ rows[g].epoch \in Nat /\ rows'[g].epoch \in Nat
    BY <1>0, EpochsGrow DEF RowInv, TypeInv, TypeOK, Snapshot, RowType
  <1>2. \A u \in Tasks : tasks[u].leased \in Nat
    BY <1>0 DEF TypeInv, TypeOK, TaskType
  <1>3. \A u \in Tasks : LeasedBelow(u)
    BY DEF LeaseInv
  <1>4. ASSUME NEW u \in Tasks, LeaseKept(u) PROVE LeasedBelow(u)'
    BY <1>1, <1>2, <1>3, <1>4 DEF LeasedBelow, LeaseKept
  <1>5. CASE \A u \in Tasks : LeaseKept(u)
    <2>1. EpochLeasedOnce'
      BY <1>5 DEF LeaseInv, EpochLeasedOnce, LeaseKept
    <2> QED
      BY <1>0, <1>4, <1>5, <2>1 DEF LeaseInv
  <1>6. ASSUME NEW t \in Tasks, Lease(t) PROVE LeaseInv'
    <2> DEFINE new == LeaseEpoch(Row(t), tasks[t].proc)
    <2>0. tasks[t].pc = "decide"
      BY <1>6 DEF Lease
    <2>1. /\ \/ \E answer \in {"stale", "unavailable"} : Replies(t, "record", answer)
             \/ Leaves(t, "error")
             \/ /\ Rewrites(tasks[t].gen, new)
                /\ Moves(t, "record", new, tasks[t].intent, "leased", new.epoch,
                         tasks[t].cancelled)
      BY <1>0, <1>6, LeaseView
    <2>2. CASE \/ \E answer \in {"stale", "unavailable"} : Replies(t, "record", answer)
               \/ Leaves(t, "error")
      <3>1. \A u \in Tasks : LeaseKept(u)
        BY <2>2 DEF Replies, Leaves, Moves, LeaseKept
      <3> QED
        BY <1>5, <3>1
    <2>3. CASE /\ Rewrites(tasks[t].gen, new)
               /\ Moves(t, "record", new, tasks[t].intent, "leased", new.epoch,
                        tasks[t].cancelled)
      <3>1. /\ tasks[t].gen \in Generations /\ Row(t) = rows[tasks[t].gen]
            /\ new.epoch = Row(t).epoch + 1
        BY <1>0, <2>0, UnderWay, LeasedRow DEF Snapshot
      <3>2. /\ \A u \in Tasks \ {t} : tasks'[u] = tasks[u]
            /\ tasks'[t].gen = tasks[t].gen /\ tasks'[t].leased = new.epoch
            /\ rows'[tasks[t].gen].epoch = new.epoch
        BY <2>3 DEF Moves, Rewrites
      <3> HIDE DEF new
      <3>3. \A u \in Tasks \ {t} : LeasedBelow(u)'
        BY <1>4, <3>2 DEF LeaseKept
      <3>4. LeasedBelow(t)'
        BY <1>1, <3>1, <3>2 DEF LeasedBelow
      <3>5. \A u \in Tasks \ {t} :
              tasks[u].leased # 0 /\ tasks[u].gen = tasks[t].gen => tasks[u].leased < new.epoch
        BY <1>1, <1>2, <1>3, <3>1 DEF LeasedBelow
      <3>6. EpochLeasedOnce'
        <4> SUFFICES ASSUME NEW u \in Tasks, NEW v \in Tasks, tasks'[u].leased # 0,
                            tasks'[v].leased = tasks'[u].leased, tasks'[v].gen = tasks'[u].gen,
                            u # v
                     PROVE  FALSE
          BY DEF EpochLeasedOnce
        <4>1. CASE u # t /\ v # t
          BY <3>2, <4>1 DEF LeaseInv, EpochLeasedOnce
        <4>2. new.epoch \in Nat
          BY <1>1, <3>1
        <4>3. CASE u = t
          BY <1>2, <3>2, <3>5, <4>2, <4>3
        <4>4. CASE v = t
          BY <1>2, <3>2, <3>5, <4>2, <4>4
        <4> QED
          BY <4>1, <4>3, <4>4
      <3> QED
        BY <1>0, <3>3, <3>4, <3>6 DEF LeaseInv
    <2> QED
      BY <2>1, <2>2, <2>3
  <1> QED
    BY <1>0, <1>5, <1>6, LeasesKept

(* However Continues are retried, raced or replayed, no two of them lease   *)
(* one epoch of a generation.                                               *)
THEOREM EpochsLeasedOnce == Spec => []EpochLeasedOnce
  <1>1. Init => LeaseInv
    BY RowInvInit DEF Init, LeaseInv, LeasedBelow, EpochLeasedOnce, Idle
  <1>2. LeaseInv => EpochLeasedOnce
    BY DEF LeaseInv
  <1> QED
    BY <1>1, <1>2, LeaseInvNext, PTL DEF Spec
-----------------------------------------------------------------------------
(* A cancel reaches only what was stopped. *)

(* What tells a task of a Stop: the answer it gave, the row it read, or its *)
(* cancel flag.                                                             *)
Told(t) ==
    \/ tasks[t].answer = "stop_requested"
    \/ tasks[t].seen.status = "stop_requested"
    \/ tasks[t].cancelled

TellsTruly(t) == Told(t) => tasks[t].gen \in Generations /\ Stopped(tasks[t].gen)

SignalsMeanStop == \A p \in Processes, g \in Generations : <<p, g>> \in signals => Stopped(g)

RecordsMeanStop ==
    \A g \in Generations, k \in Keys : ledger[g][k].answer = "stop_requested" => Stopped(g)

(* An in-flight entry names a task of that generation. *)
EntriesMatch ==
    \A p \in Processes, g \in Generations :
        registry[p][g] # None =>
            tasks[registry[p][g]].pc # "idle" /\ tasks[registry[p][g]].gen = g

CancelInv ==
    /\ RowInv
    /\ CommandsAnswer
    /\ \A t \in Tasks : TellsTruly(t)
    /\ SignalsMeanStop
    /\ RecordsMeanStop
    /\ EntriesMatch

(* A task under way keeps its generation, its kind and its key. *)
StaysPut(u) ==
    tasks[u].pc # "idle" =>
        /\ tasks'[u].pc # "idle" /\ tasks'[u].gen = tasks[u].gen
        /\ tasks'[u].kind = tasks[u].kind /\ tasks'[u].key = tasks[u].key

(* A task under way keeps its kind, its generation and its key. *)
LEMMA TasksStayPut ==
    ASSUME RowInv, [Next]_vars, NEW u \in Tasks
    PROVE  StaysPut(u)
  <1>0. TypeInv
    BY DEF RowInv
  <1>1. CASE KeepsTask(u)
    BY <1>1 DEF StaysPut, KeepsTask
  <1>2. CASE tasks[u].pc = "idle"
    BY <1>2 DEF StaysPut
  <1>3. ASSUME NEW t \in Tasks, TaskStep(t)
        PROVE  StaysPut(u)
    <2>1. CASE EnterRunning(t)
      BY <1>0, <1>1, OthersKept, <2>1, EnterRunningView DEF Opened, Moves, StaysPut
    <2>2. CASE ClaimCommand(t)
      BY <1>0, <1>1, OthersKept, <2>2, ClaimCommandView
      DEF Replies, Leaves, Moves, StaysPut
    <2>3. CASE DecideStop(t)
      BY <1>0, <1>1, OthersKept, <2>3, DecideStopView DEF Replies, Moves, StaysPut
    <2>4. CASE PublishStop(t)
      BY <1>0, <1>1, OthersKept, <2>4, PublishStopView DEF Replies, Moves, StaysPut
    <2>5. CASE Lease(t)
      BY <1>0, <1>1, OthersKept, <2>5, LeaseView DEF Replies, Leaves, Moves, StaysPut
    <2>6. CASE RecordResult(t)
      BY <1>0, <1>1, OthersKept, <2>6, RecordResultView
      DEF Opened, Replies, Leaves, Moves, StaysPut
    <2>7. CASE CancelLocally(t)
      BY <1>0, <1>1, OthersKept, <2>7, CancelLocallyView DEF IsOver, StaysPut
    <2>8. CASE Reclaim(t)
      BY <1>0, <1>1, OthersKept, <2>8, ReclaimView DEF Opened, Leaves, Moves, StaysPut
    <2>9. ASSUME NEW intent \in Intents, EndStream(t, intent) PROVE StaysPut(u)
      BY <1>0, <1>1, OthersKept, <2>9, EndStreamView DEF Moves, StaysPut
    <2>10. CASE Settle(t)
      BY <1>0, <1>1, OthersKept, <2>10, SettleView DEF Replies, Leaves, Moves, StaysPut
    <2>11. CASE Reread(t)
      BY <1>0, <1>1, OthersKept, <2>11, RereadView DEF Leaves, Moves, StaysPut
    <2>12. CASE Retry(t)
      BY <1>0, <1>1, OthersKept, <2>12, RetryView DEF Leaves, Moves, StaysPut
    <2> QED
      BY <1>3, <2>1, <2>2, <2>3, <2>4, <2>5, <2>6, <2>7, <2>8, <2>9, <2>10, <2>11, <2>12
      DEF TaskStep
  <1>4. CASE Arrival
    <2>1. PICK t \in Tasks, p \in Processes, g \in Generations :
            \/ StartTurn(t, p, g) \/ SendResume(t, p, g)
            \/ \E k \in Keys : SendStop(t, p, g, k) \/ SendContinue(t, p, g, k)
      BY <1>4 DEF Arrival
    <2>2. \E pc, kind, key, seen : Arrives(t, pc, kind, p, g, key, seen)
      BY <1>0, <2>1, StartTurnView, SendResumeView, SendCommandView
    <2> QED
      BY <1>1, <1>2, <2>2, OthersKept DEF Arrives
  <1>5. CASE Delivery
    BY <1>0, <1>1, <1>5, HandleStopSignalView, OthersKept DEF Delivery, ExpireEntry
  <1>6. CASE ProcessStep
    <2>1. PICK p \in Processes : Boot(p) \/ ReclaimOrphans(p) \/ Shutdown(p) \/ Exit(p)
      BY <1>6 DEF ProcessStep
    <2>2. CASE Exit(p)
      BY <1>0, <1>1, <2>2, ExitView, OthersKept DEF IsOver, StaysPut
    <2>3. CASE ~Exit(p)
      BY <1>1, <2>1, <2>3, OthersKept DEF Boot, ReclaimOrphans, Shutdown
    <2> QED
      BY <2>2, <2>3
  <1>7. CASE UNCHANGED vars
    BY <1>1, <1>7, OthersKept DEF vars
  <1> QED
    BY <1>3, <1>4, <1>5, <1>6, <1>7 DEF Next

(* A new entry is the task's own, under its own generation. *)
EntryGiven(p, g) ==
    \/ registry'[p][g] \in {None, registry[p][g]}
    \/ \E t \in Tasks : registry'[p][g] = t /\ tasks[t].pc # "idle" /\ tasks[t].gen = g

(* Opening a stream gives registry entries as EntryGiven says. *)
LEMMA OpenedEntry ==
    ASSUME TypeInv, NEW t \in Tasks, tasks[t].pc # "idle", NEW snapshot, NEW intents,
           Opened(t, snapshot, intents), NEW p \in Processes, NEW g \in Generations
    PROVE  EntryGiven(p, g)
  <1>1. registry \in [Processes -> [Generations -> Tasks \union {None}]]
    BY DEF TypeInv, TypeOK
  <1>2. registry' = registry \/ registry' = [registry EXCEPT ![tasks[t].proc][tasks[t].gen] = t]
    BY DEF Opened
  <1>3. tasks[t].proc \in Processes /\ tasks[t].gen \in Generations
    BY UnderWay
  <1> QED
    BY <1>1, <1>2, <1>3 DEF EntryGiven

(* Releasing a stream gives registry entries as EntryGiven says. *)
LEMMA ReleasedEntry ==
    ASSUME TypeInv, NEW t \in Tasks, tasks[t].pc # "idle", Release(t),
           NEW p \in Processes, NEW g \in Generations
    PROVE  EntryGiven(p, g)
  <1>1. registry \in [Processes -> [Generations -> Tasks \union {None}]]
    BY DEF TypeInv, TypeOK
  <1>2. tasks[t].proc \in Processes /\ tasks[t].gen \in Generations
    BY UnderWay
  <1> QED
    BY <1>1, <1>2 DEF EntryGiven, Release

(* A step gives a registry entry only to a task under way for that generation. *)
LEMMA EntriesGiven ==
    ASSUME RowInv, [Next]_vars, NEW p \in Processes, NEW g \in Generations
    PROVE  EntryGiven(p, g)
  <1>0. TypeInv
    BY DEF RowInv
  <1>1. CASE UNCHANGED registry
    BY <1>1 DEF EntryGiven
  <1>2. ASSUME NEW t \in Tasks, TaskStep(t)
        PROVE  EntryGiven(p, g)
    <2>1. CASE EnterRunning(t)
      <3>1. PICK snapshot : Opened(t, snapshot, {"stopped"})
        BY <1>0, <2>1, EnterRunningView
      <3>2. tasks[t].pc # "idle"
        BY <2>1 DEF EnterRunning
      <3> QED
        BY <1>0, <3>1, <3>2, OpenedEntry
    <2>2. CASE RecordResult(t)
      <3>1. tasks[t].pc # "idle"
        BY <2>2 DEF RecordResult
      <3>2. CASE Opened(t, tasks[t].seen, {"stopped"})
        BY <1>0, <3>1, <3>2, OpenedEntry
      <3> QED
        BY <1>0, <1>1, <2>2, <3>2, RecordResultView
    <2>3. CASE Reclaim(t)
      <3>1. tasks[t].pc # "idle"
        BY <2>3 DEF Reclaim
      <3>2. ASSUME NEW snapshot, Opened(t, snapshot, {"stopped", "failed"})
            PROVE  EntryGiven(p, g)
        BY <1>0, <3>1, <3>2, OpenedEntry
      <3> QED
        BY <1>0, <1>1, <2>3, <3>2, ReclaimView
    <2>4. CASE Settle(t) \/ Reread(t) \/ Retry(t)
      <3>1. tasks[t].pc # "idle" /\ (Release(t) \/ UNCHANGED registry)
        BY <2>4 DEF Settle, Reread, Retry
      <3> QED
        BY <1>0, <1>1, <3>1, ReleasedEntry
    <2>5. CASE \/ ClaimCommand(t) \/ DecideStop(t) \/ PublishStop(t) \/ Lease(t) \/ CancelLocally(t)
               \/ \E intent \in Intents : EndStream(t, intent)
      BY <1>1, <2>5 DEF ClaimCommand, DecideStop, PublishStop, Lease, CancelLocally, EndStream
    <2> QED
      BY <1>2, <2>1, <2>2, <2>3, <2>4, <2>5 DEF TaskStep
  <1>3. CASE Arrival
    BY <1>0, <1>1, <1>3, StartTurnView, SendResumeView, SendCommandView DEF Arrival
  <1>4. CASE Delivery
    <2>1. registry \in [Processes -> [Generations -> Tasks \union {None}]]
      BY <1>0 DEF TypeInv, TypeOK
    <2> QED
      BY <1>1, <1>4, <2>1 DEF Delivery, HandleStopSignal, ExpireEntry, EntryGiven
  <1>5. CASE ProcessStep
    <2>1. registry \in [Processes -> [Generations -> Tasks \union {None}]]
      BY <1>0 DEF TypeInv, TypeOK
    <2>2. PICK q \in Processes : Boot(q) \/ ReclaimOrphans(q) \/ Shutdown(q) \/ Exit(q)
      BY <1>5 DEF ProcessStep
    <2>3. CASE Exit(q)
      <3>1. registry' = [registry EXCEPT ![q] = [h \in Generations |-> None]]
        BY <2>3 DEF Exit
      <3>2. registry'[p] = [h \in Generations |-> None] \/ registry'[p] = registry[p]
        BY <2>1, <3>1
      <3> QED
        BY <3>2 DEF EntryGiven
    <2>4. CASE ~Exit(q)
      BY <1>1, <2>2, <2>4 DEF Boot, ReclaimOrphans, Shutdown
    <2> QED
      BY <2>3, <2>4
  <1>6. CASE UNCHANGED vars
    BY <1>1, <1>6 DEF vars
  <1> QED
    BY <1>2, <1>3, <1>4, <1>5, <1>6 DEF Next


(* What a task is told of a Stop stays true. *)
LEMMA TalesStayTrue ==
    ASSUME CancelInv, [Next]_vars, NEW u \in Tasks
    PROVE  TellsTruly(u)'
  <1>0. TypeInv /\ RowInv /\ TellsTruly(u)
    BY DEF CancelInv, RowInv
  <1>1. CASE tasks'[u] = tasks[u]
    <2>1. ASSUME Told(u) PROVE Stopped(tasks[u].gen)'
      <3>1. PICK g \in Generations : g = tasks[u].gen /\ Stopped(g)
        BY <1>0, <2>1 DEF TellsTruly
      <3>2. Stopped(g)'
        BY <1>0, <3>1, StoppedStays
      <3> QED
        BY <1>1, <3>1, <3>2 DEF Stopped
    <2> QED
      BY <1>0, <1>1, <2>1 DEF TellsTruly, Told
  <1>2. ASSUME tasks[u].pc # "idle" \/ (Told(u)' => Told(u)), tasks'[u].gen = tasks[u].gen,
               Told(u)' => \/ Told(u) \/ Stopped(tasks[u].gen)
                           \/ rows'[tasks[u].gen].status = "stop_requested"
        PROVE  TellsTruly(u)'
    <2> SUFFICES ASSUME Told(u)' PROVE tasks'[u].gen \in Generations /\ Stopped(tasks[u].gen)'
      BY DEF TellsTruly
    <2>1. PICK g \in Generations : g = tasks[u].gen
      BY <1>0, <1>2, UnderWay DEF TellsTruly
    <2>2. Stopped(g) \/ rows'[g].status = "stop_requested"
      BY <1>0, <1>2, <2>1 DEF TellsTruly
    <2>3. Stopped(g)'
      BY <1>0, <2>2, StoppedStays DEF Stopped
    <2> QED
      BY <1>2, <2>1, <2>3 DEF Stopped
  <1>4. NoRow(None).status = "absent"
    BY DEF NoRow
  <1>5. ASSUME NEW t \in Tasks, TaskStep(t)
        PROVE  TellsTruly(u)'
    <2>0. tasks[t].pc # "idle"
      BY <1>5 DEF TaskStep, EnterRunning, ClaimCommand, DecideStop, PublishStop, Lease,
        RecordResult, CancelLocally, Reclaim, EndStream, Settle, Reread, Retry
    <2>1. CASE EnterRunning(t)
      <3>1. MarkRunning(Row(t)).status = "running"
        BY <1>0, <2>1, UnderWay, RunningRow DEF EnterRunning, Snapshot
      <3>2. u = t => tasks'[u].gen = tasks[u].gen /\ (Told(u)' => Told(u))
        BY <1>0, <2>1, <3>1, EnterRunningView DEF Opened, Moves, Told
      <3>3. u # t => tasks'[u] = tasks[u]
        BY <1>0, <2>1, EnterRunningView DEF Opened, Moves
      <3> QED
        BY <1>1, <1>2, <2>0, <3>2, <3>3
    <2>2. CASE ClaimCommand(t)
      <3>1. Replayed(t) = "stop_requested" => Stopped(tasks[t].gen)
        <4>1. tasks[t].gen \in Generations /\ tasks[t].key \in Keys
          BY <1>0, <2>2 DEF ClaimCommand, TypeInv, Placed
        <4> QED
          BY <4>1 DEF Replayed, Entry, CancelInv, RecordsMeanStop
      <3>2. u = t => /\ tasks'[u].gen = tasks[u].gen
                     /\ Told(u)' => Told(u) \/ Stopped(tasks[u].gen)
        BY <1>0, <1>4, <2>2, <3>1, ClaimCommandView DEF Replies, Leaves, Moves, Told
      <3>3. u # t => tasks'[u] = tasks[u]
        BY <1>0, <2>2, ClaimCommandView DEF Replies, Leaves, Moves
      <3> QED
        BY <1>1, <1>2, <2>0, <3>2, <3>3
    <2>3. CASE DecideStop(t)
      <3>1. /\ tasks[t].gen \in Generations /\ Row(t) \in Snapshot
            /\ RequestWorkerStop(Row(t)).status = "stop_requested"
        BY <1>0, <2>3, UnderWay, StoppingRow DEF DecideStop, Snapshot
      <3>2. u = t => /\ tasks'[u].gen = tasks[u].gen
                     /\ Told(u)' => Told(u) \/ rows'[tasks[u].gen].status = "stop_requested"
        BY <1>0, <2>3, <3>1, DecideStopView DEF Replies, Moves, Rewrites, Told
      <3>3. u # t => tasks'[u] = tasks[u]
        BY <1>0, <2>3, DecideStopView DEF Replies, Moves
      <3> QED
        BY <1>1, <1>2, <2>0, <3>2, <3>3
    <2>4. CASE PublishStop(t)
      <3>1. u = t => tasks'[u].gen = tasks[u].gen /\ (Told(u)' => Told(u))
        BY <1>0, <1>4, <2>4, PublishStopView DEF Replies, Moves, Told
      <3>2. u # t => tasks'[u] = tasks[u]
        BY <1>0, <2>4, PublishStopView DEF Replies, Moves
      <3> QED
        BY <1>1, <1>2, <2>0, <3>1, <3>2
    <2>5. CASE Lease(t)
      <3>1. LeaseEpoch(Row(t), tasks[t].proc).status = "continuing"
        BY <1>0, <2>5, UnderWay, LeasedRow DEF Lease, Snapshot
      <3>2. u = t => tasks'[u].gen = tasks[u].gen /\ (Told(u)' => Told(u))
        BY <1>0, <1>4, <2>5, <3>1, LeaseView DEF Replies, Leaves, Moves, Told
      <3>3. u # t => tasks'[u] = tasks[u]
        BY <1>0, <2>5, LeaseView DEF Replies, Leaves, Moves
      <3> QED
        BY <1>1, <1>2, <2>0, <3>2, <3>3
    <2>6. CASE RecordResult(t)
      <3>0. \/ Leaves(t, tasks[t].answer)
            \/ Replies(t, "cancel", tasks[t].answer)
            \/ Opened(t, tasks[t].seen, {"stopped"})
        BY <1>0, <2>6, RecordResultView
      <3>1. u = t => tasks'[u].gen = tasks[u].gen /\ (Told(u)' => Told(u))
        BY <1>4, <3>0 DEF Opened, Replies, Leaves, Moves, Told
      <3>2. u # t => tasks'[u] = tasks[u]
        BY <3>0 DEF Opened, Replies, Leaves, Moves
      <3> QED
        BY <1>1, <1>2, <2>0, <3>1, <3>2
    <2>7. CASE CancelLocally(t)
      <3> DEFINE p == tasks[t].proc
                 g == tasks[t].gen
      <3>1. p \in Processes /\ g \in Generations /\ tasks[t].pc = "cancel"
        BY <1>0, <2>7, UnderWay DEF CancelLocally
      <3>2. tasks[t].answer # "completed_partial" => Stopped(g)
        BY <3>1 DEF CancelInv, CommandsAnswer, WellAnswered, TellsTruly, Told
      <3>3. u = registry[p][g] => tasks[u].gen = g /\ tasks[u].pc # "idle"
        BY <1>0, <3>1, ConstantsAssumption DEF CancelInv, EntriesMatch
      <3>4. /\ u # t => KeepsTask(u)
            /\ u = t => IsOver(u, "done")
            /\ tasks'[u].cancelled =>
                  \/ tasks[u].cancelled
                  \/ tasks[t].answer # "completed_partial" /\ u = registry[p][g]
        BY <1>0, <2>7, CancelLocallyView
      <3> HIDE DEF p, g
      <3>5. Told(u)' => Told(u) \/ (Stopped(tasks[u].gen) /\ tasks[u].pc # "idle")
        BY <1>4, <3>2, <3>3, <3>4 DEF Told, KeepsTask, IsOver
      <3>6. tasks'[u].gen = tasks[u].gen
        BY <3>4 DEF KeepsTask, IsOver
      <3> QED
        BY <1>2, <3>5, <3>6
    <2>8. CASE Reclaim(t)
      <3>1. MarkResumedAfterApproval(Row(t), tasks[t].proc).status = "running"
        BY <1>0, <2>8, UnderWay, ResumedRow DEF Reclaim, Snapshot
      <3>2. u = t => tasks'[u].gen = tasks[u].gen /\ (Told(u)' => Told(u))
        BY <1>0, <1>4, <2>8, <3>1, ReclaimView DEF Opened, Leaves, Moves, Told
      <3>3. u # t => tasks'[u] = tasks[u]
        BY <1>0, <2>8, ReclaimView DEF Opened, Leaves, Moves
      <3> QED
        BY <1>1, <1>2, <2>0, <3>2, <3>3
    <2>9. ASSUME NEW intent \in Intents, EndStream(t, intent) PROVE TellsTruly(u)'
      <3>1. u = t => tasks'[u].gen = tasks[u].gen /\ (Told(u)' => Told(u))
        BY <1>0, <1>4, <2>9, EndStreamView DEF Moves, Told
      <3>2. u # t => tasks'[u] = tasks[u]
        BY <1>0, <2>9, EndStreamView DEF Moves
      <3> QED
        BY <1>1, <1>2, <2>0, <3>1, <3>2
    <2>10. CASE Settle(t)
      <3>1. u = t => tasks'[u].gen = tasks[u].gen /\ (Told(u)' => Told(u))
        BY <1>0, <1>4, <2>10, SettleView DEF Replies, Leaves, Moves, Told
      <3>2. u # t => tasks'[u] = tasks[u]
        BY <1>0, <2>10, SettleView DEF Replies, Leaves, Moves
      <3> QED
        BY <1>1, <1>2, <2>0, <3>1, <3>2
    <2>11. CASE Reread(t)
      <3>1. u = t => /\ tasks'[u].gen = tasks[u].gen
                     /\ Told(u)' => Told(u) \/ Stopped(tasks[u].gen)
        BY <1>0, <1>4, <2>11, RereadView DEF Leaves, Moves, Told, Stopped, Row
      <3>2. u # t => tasks'[u] = tasks[u]
        BY <1>0, <2>11, RereadView DEF Leaves, Moves
      <3> QED
        BY <1>1, <1>2, <2>0, <3>1, <3>2
    <2>12. CASE Retry(t)
      <3>1. u = t => tasks'[u].gen = tasks[u].gen /\ (Told(u)' => Told(u))
        BY <1>0, <1>4, <2>12, RetryView DEF Leaves, Moves, Told
      <3>2. u # t => tasks'[u] = tasks[u]
        BY <1>0, <2>12, RetryView DEF Leaves, Moves
      <3> QED
        BY <1>1, <1>2, <2>0, <3>1, <3>2
    <2> QED
      BY <1>5, <2>1, <2>2, <2>3, <2>4, <2>5, <2>6, <2>7, <2>8, <2>9, <2>10, <2>11, <2>12
      DEF TaskStep
  <1>6. CASE Arrival
    <2>1. PICK t \in Tasks, p \in Processes, g \in Generations :
            \/ StartTurn(t, p, g) \/ SendResume(t, p, g)
            \/ \E k \in Keys : SendStop(t, p, g, k) \/ SendContinue(t, p, g, k)
      BY <1>6 DEF Arrival
    <2>2. Create(p).status = "starting"
      BY CreatedRow
    <2>3. PICK pc, kind, key, seen :
            /\ Arrives(t, pc, kind, p, g, key, seen)
            /\ seen.status = "stop_requested" => seen = rows[g]
      BY <1>0, <2>1, <2>2, StartTurnView, SendResumeView, SendCommandView
    <2>4. u # t => tasks'[u] = tasks[u]
      BY <2>3 DEF Arrives
    <2>5. ASSUME u = t, Told(u)' PROVE Stopped(g)' /\ tasks'[u].gen = g
      <3>1. tasks'[u].gen = g /\ rows[g].status = "stop_requested"
        BY <2>3, <2>5 DEF Arrives, Told
      <3>2. Stopped(g)
        BY <3>1 DEF Stopped
      <3> QED
        BY <1>0, <3>1, <3>2, StoppedStays
    <2> QED
      BY <1>1, <2>4, <2>5 DEF TellsTruly, Stopped
  <1>7. CASE Delivery
    <2>1. PICK p \in Processes, g \in Generations : HandleStopSignal(p, g) \/ ExpireEntry(p, g)
      BY <1>7 DEF Delivery
    <2>2. CASE ExpireEntry(p, g)
      BY <1>1, <2>2 DEF ExpireEntry
    <2>3. CASE HandleStopSignal(p, g)
      <3>1. /\ <<p, g>> \in signals /\ KeepsTask(u)
            /\ tasks'[u].cancelled => tasks[u].cancelled \/ u = registry[p][g]
            /\ u # registry[p][g] => tasks'[u] = tasks[u]
        <4>1. tasks' = Cancelled(p, g, tasks) /\ tasks \in [Tasks -> TaskType]
          BY <1>0, <2>3 DEF HandleStopSignal, TypeInv, TypeOK
        <4>2. u # registry[p][g] => tasks'[u] = tasks[u]
          BY <1>0, <4>1, CancelledView
        <4> QED
          BY <1>0, <2>3, <4>2, HandleStopSignalView
      <3>2. CASE u # registry[p][g]
        BY <1>1, <3>1, <3>2
      <3>3. CASE u = registry[p][g]
        <4>1. u # None
          BY ConstantsAssumption
        <4>2. tasks[u].pc # "idle" /\ tasks[u].gen = g
          BY <3>3, <4>1 DEF CancelInv, EntriesMatch
        <4>3. Stopped(tasks[u].gen)
          BY <3>1, <4>2 DEF CancelInv, SignalsMeanStop
        <4> QED
          BY <1>2, <3>1, <4>2, <4>3 DEF KeepsTask
      <3> QED
        BY <3>2, <3>3
    <2> QED
      BY <2>1, <2>2, <2>3
  <1>8. CASE ProcessStep
    <2>1. PICK p \in Processes : Boot(p) \/ ReclaimOrphans(p) \/ Shutdown(p) \/ Exit(p)
      BY <1>8 DEF ProcessStep
    <2>2. CASE Exit(p)
      <3>1. CASE tasks[u].proc = p /\ tasks[u].pc # "done"
        <4>1. IsOver(u, "dead") /\ tasks'[u].cancelled = FALSE
          BY <1>0, <2>2, <3>1, ExitView
        <4>2. tasks'[u].gen = tasks[u].gen /\ (Told(u)' => Told(u))
          BY <1>4, <4>1 DEF IsOver, Told
        <4>3. tasks[u].gen \in Generations
          BY <1>0, <3>1, ConstantsAssumption DEF TypeInv, Placed
        <4>4. ASSUME Told(u)' PROVE Stopped(tasks[u].gen)'
          <5>1. PICK g \in Generations : g = tasks[u].gen /\ Stopped(g)
            BY <1>0, <4>2, <4>4 DEF TellsTruly
          <5>2. Stopped(g)'
            BY <1>0, <5>1, StoppedStays
          <5> QED
            BY <4>2, <5>1, <5>2 DEF Stopped
        <4> QED
          BY <4>2, <4>3, <4>4 DEF TellsTruly
      <3>2. CASE ~(tasks[u].proc = p /\ tasks[u].pc # "done")
        BY <1>0, <1>1, <2>2, <3>2, ExitView
      <3> QED
        BY <3>1, <3>2
    <2>3. CASE ~Exit(p)
      BY <1>1, <2>1, <2>3 DEF Boot, ReclaimOrphans, Shutdown
    <2> QED
      BY <2>2, <2>3
  <1>9. CASE UNCHANGED vars
    BY <1>1, <1>9 DEF vars
  <1> QED
    BY <1>5, <1>6, <1>7, <1>8, <1>9 DEF Next

(* So do the broadcasts, *)
LEMMA SignalsStep ==
    ASSUME CancelInv, [Next]_vars
    PROVE  SignalsMeanStop'
  <1>0. TypeInv /\ RowInv
    BY DEF CancelInv, RowInv
  <1> SUFFICES ASSUME NEW p \in Processes, NEW g \in Generations, <<p, g>> \in signals'
               PROVE  Stopped(g)'
    BY DEF SignalsMeanStop
  <1>1. CASE <<p, g>> \in signals
    BY <1>0, <1>1, StoppedStays DEF CancelInv, SignalsMeanStop
  <1>2. ASSUME NEW t \in Tasks, PublishStop(t) PROVE Stopped(g)'
    <2>1. /\ \A s \in signals' : s \in signals \/ s[2] = tasks[t].gen
          /\ tasks[t].pc = "publish"
      BY <1>0, <1>2, PublishStopView
    <2>2. CASE g = tasks[t].gen
      <3>1. Stopped(g)
        BY <2>1, <2>2 DEF CancelInv, CommandsAnswer, WellAnswered, TellsTruly, Told
      <3> QED
        BY <1>0, <3>1, StoppedStays
    <2> QED
      BY <1>1, <2>1, <2>2
  <1>3. CASE signals' \subseteq signals
    BY <1>1, <1>3
  <1>4. ASSUME NEW t \in Tasks, TaskStep(t) PROVE Stopped(g)'
    <2>1. PublishStop(t) \/ UNCHANGED signals
      BY <1>4 DEF TaskStep, EnterRunning, ClaimCommand, DecideStop, Lease,
        RecordResult, CancelLocally, Reclaim, EndStream, Settle, Reread, Retry
    <2> QED
      BY <1>2, <1>3, <2>1
  <1>5. CASE Arrival
    BY <1>0, <1>3, <1>5, StartTurnView, SendResumeView, SendCommandView DEF Arrival
  <1>6. CASE Delivery
    BY <1>0, <1>3, <1>6, HandleStopSignalView DEF Delivery, ExpireEntry
  <1>7. CASE ProcessStep
    BY <1>0, <1>3, <1>7, ExitView DEF ProcessStep, Boot, ReclaimOrphans, Shutdown
  <1>8. CASE UNCHANGED vars
    BY <1>3, <1>8 DEF vars
  <1> QED
    BY <1>4, <1>5, <1>6, <1>7, <1>8 DEF Next

(* A key's row in the ledger: claimed where it was free, or given its       *)
(* answer by the task that claimed it.                                      *)
KeyKept(g, k) == ledger'[g][k] = ledger[g][k]

KeyClaimed(t, g, k) ==
    /\ ClaimCommand(t) /\ tasks[t].gen = g /\ tasks[t].key = k
    /\ ledger[g][k].state = "free"
    /\ ledger'[g][k] = [state |-> "claimed", action |-> tasks[t].kind, answer |-> "none"]

KeyRecorded(t, g, k) ==
    /\ RecordResult(t) /\ tasks[t].gen = g /\ tasks[t].key = k
    /\ ledger[g][k].state = "claimed"
    /\ ledger'[g][k].state = "recorded"
    /\ ledger'[g][k].action = ledger[g][k].action
    /\ ledger'[g][k].answer = tasks[t].answer

(* arecord_command_result writes its own key, and only while it is claimed. *)
LEMMA RecordedKey ==
    ASSUME TypeInv, NEW t \in Tasks, RecordResult(t), NEW g \in Generations, NEW k \in Keys
    PROVE  IF tasks[t].gen = g /\ tasks[t].key = k /\ ledger[g][k].state = "claimed"
           THEN KeyRecorded(t, g, k) ELSE KeyKept(g, k)
  <1> DEFINE old == Entry(t)
             new == IF old.state = "claimed"
                    THEN [old EXCEPT !.state = "recorded", !.answer = tasks[t].answer] ELSE old
  <1>0. ledger \in [Generations -> [Keys -> LedgerType]]
    BY DEF TypeInv, TypeOK
  <1>1. tasks[t].gen \in Generations /\ tasks[t].key \in Keys
    BY DEF RecordResult, TypeInv, Placed
  <1>2. old \in LedgerType
    BY <1>0, <1>1 DEF Entry
  <1>3. ledger' = [ledger EXCEPT ![tasks[t].gen][tasks[t].key] = new]
    BY <1>0, <1>1 DEF RecordResult, Entry
  <1>4. old.state = "claimed" => /\ new.state = "recorded" /\ new.action = old.action
                                 /\ new.answer = tasks[t].answer
    BY <1>2 DEF LedgerType
  <1>5. old.state # "claimed" => new = old
    OBVIOUS
  <1>6. tasks[t].gen = g /\ tasks[t].key = k => old = ledger[g][k]
    BY DEF Entry
  <1> HIDE DEF old, new
  <1>7. CASE tasks[t].gen = g /\ tasks[t].key = k
    <2>1. ledger'[g][k] = new
      BY <1>0, <1>3, <1>7
    <2> QED
      BY <1>4, <1>5, <1>6, <1>7, <2>1 DEF KeyKept, KeyRecorded
  <1>8. CASE ~(tasks[t].gen = g /\ tasks[t].key = k)
    BY <1>0, <1>1, <1>3, <1>8 DEF KeyKept
  <1> QED
    BY <1>7, <1>8

(* Nothing else writes the ledger. *)
LEMMA LedgerStep ==
    ASSUME RowInv, [Next]_vars, NEW g \in Generations, NEW k \in Keys
    PROVE  KeyKept(g, k) \/ \E t \in Tasks : KeyClaimed(t, g, k) \/ KeyRecorded(t, g, k)
  <1>0. TypeInv /\ ledger \in [Generations -> [Keys -> LedgerType]]
    BY DEF RowInv, TypeInv, TypeOK
  <1>1. CASE UNCHANGED ledger
    BY <1>1 DEF KeyKept
  <1>2. ASSUME NEW t \in Tasks, ClaimCommand(t)
        PROVE  KeyKept(g, k) \/ KeyClaimed(t, g, k)
    <2>1. tasks[t].gen \in Generations /\ tasks[t].key \in Keys
      BY <1>0, <1>2 DEF ClaimCommand, TypeInv, Placed
    <2>2. \/ UNCHANGED ledger
          \/ /\ Entry(t).state = "free"
             /\ ledger' = [ledger EXCEPT ![tasks[t].gen][tasks[t].key] =
                   [state |-> "claimed", action |-> tasks[t].kind, answer |-> "none"]]
      BY <1>0, <1>2, ClaimCommandView
    <2>3. CASE UNCHANGED ledger
      BY <2>3 DEF KeyKept
    <2>4. CASE /\ Entry(t).state = "free"
               /\ ledger' = [ledger EXCEPT ![tasks[t].gen][tasks[t].key] =
                     [state |-> "claimed", action |-> tasks[t].kind, answer |-> "none"]]
      <3>1. CASE tasks[t].gen = g /\ tasks[t].key = k
        BY <1>0, <1>2, <2>4, <3>1 DEF KeyClaimed, Entry
      <3>2. CASE ~(tasks[t].gen = g /\ tasks[t].key = k)
        BY <1>0, <2>1, <2>4, <3>2 DEF KeyKept
      <3> QED
        BY <3>1, <3>2
    <2> QED
      BY <2>2, <2>3, <2>4
  <1>3. ASSUME NEW t \in Tasks, RecordResult(t)
        PROVE  KeyKept(g, k) \/ KeyRecorded(t, g, k)
    BY <1>0, <1>3, RecordedKey
  <1>4. ASSUME NEW t \in Tasks, TaskStep(t)
        PROVE  UNCHANGED ledger \/ ClaimCommand(t) \/ RecordResult(t)
    BY <1>4 DEF TaskStep, EnterRunning, DecideStop, Lease,
      PublishStop, CancelLocally, Reclaim, EndStream, Settle, Reread, Retry
  <1>5. CASE Arrival
    BY <1>0, <1>1, <1>5, StartTurnView, SendResumeView, SendCommandView DEF Arrival
  <1>6. CASE Delivery
    BY <1>1, <1>6 DEF Delivery, HandleStopSignal, ExpireEntry
  <1>7. CASE ProcessStep
    BY <1>1, <1>7 DEF ProcessStep, Boot, ReclaimOrphans, Shutdown, Exit
  <1>8. CASE UNCHANGED vars
    BY <1>1, <1>8 DEF vars
  <1> QED
    BY <1>1, <1>2, <1>3, <1>4, <1>5, <1>6, <1>7, <1>8 DEF Next

(* Every step keeps CancelInv. *)
LEMMA CancelInvNext == CancelInv /\ [Next]_vars => CancelInv'
  <1> SUFFICES ASSUME CancelInv, [Next]_vars PROVE CancelInv'
    OBVIOUS
  <1>0. TypeInv /\ RowInv /\ CommandsAnswer /\ RowInv' /\ CommandsAnswer'
    BY RowInvNext, CommandsStep DEF CancelInv, RowInv
  <1>1. RecordsMeanStop'
    <2> SUFFICES ASSUME NEW g \in Generations, NEW k \in Keys,
                        ledger'[g][k].answer = "stop_requested"
                 PROVE  Stopped(g)'
      BY DEF RecordsMeanStop
    <2>1. CASE KeyKept(g, k)
      BY <1>0, <2>1, StoppedStays DEF KeyKept, CancelInv, RecordsMeanStop
    <2>2. ASSUME NEW t \in Tasks, KeyRecorded(t, g, k) PROVE Stopped(g)'
      <3>1. Stopped(g)
        BY <2>2 DEF KeyRecorded, CancelInv, TellsTruly, Told
      <3> QED
        BY <1>0, <3>1, StoppedStays
    <2>3. ASSUME NEW t \in Tasks, KeyClaimed(t, g, k) PROVE FALSE
      BY <2>3 DEF KeyClaimed
    <2> QED
      BY <1>0, <2>1, <2>2, <2>3, LedgerStep
  <1>2. EntriesMatch'
    <2> SUFFICES ASSUME NEW p \in Processes, NEW g \in Generations, registry'[p][g] # None
                 PROVE  /\ tasks'[registry'[p][g]].pc # "idle"
                        /\ tasks'[registry'[p][g]].gen = g
      BY DEF EntriesMatch
    <2>1. EntryGiven(p, g)
      BY <1>0, EntriesGiven
    <2>2. registry[p][g] # None => /\ registry[p][g] \in Tasks
                                   /\ tasks[registry[p][g]].pc # "idle"
                                   /\ tasks[registry[p][g]].gen = g
      BY <1>0 DEF TypeInv, TypeOK, CancelInv, EntriesMatch
    <2>3. PICK t \in Tasks : registry'[p][g] = t /\ tasks[t].pc # "idle" /\ tasks[t].gen = g
      BY <2>1, <2>2 DEF EntryGiven
    <2> QED
      BY <1>0, <2>3, TasksStayPut DEF StaysPut
  <1> QED
    BY <1>0, <1>1, <1>2, TalesStayTrue, SignalsStep DEF CancelInv

(* A cancel flag, however late the signal that set it, is set only on a     *)
(* task whose generation was stopped.                                       *)
THEOREM CancelIsStop == Spec => []CancelMeansStopped
  <1>1. Init => CancelInv
    <2> SUFFICES ASSUME Init PROVE CancelInv
      OBVIOUS
    <2>1. \A t \in Tasks : /\ tasks[t].pc = "idle" /\ tasks[t].answer = "none"
                           /\ tasks[t].key = None
                           /\ tasks[t].seen.status = "absent" /\ tasks[t].cancelled = FALSE
      BY DEF Init, Idle, NoRow
    <2>2. CommandsAnswer /\ \A t \in Tasks : TellsTruly(t)
      BY <2>1 DEF CommandsAnswer, WellAnswered, TellsTruly, Told
    <2>3. SignalsMeanStop /\ RecordsMeanStop /\ EntriesMatch
      BY DEF Init, SignalsMeanStop, RecordsMeanStop, EntriesMatch, Unclaimed
    <2> QED
      BY <2>2, <2>3, RowInvInit DEF CancelInv
  <1>2. CancelInv => CancelMeansStopped
    BY DEF CancelInv, TellsTruly, Told, CancelMeansStopped, Stopped, Row
  <1> QED
    BY <1>1, <1>2, CancelInvNext, PTL DEF Spec
-----------------------------------------------------------------------------
(* Replays: what the attempts of one command under one key may answer. *)

(* A client's command that has got an answer it may rely on. *)
Definite(t) == tasks[t].key # None /\ tasks[t].answer \notin {"none", "in_progress", "error"}

(* It holds its key's claim. *)
Working(t) == tasks[t].pc \in {"decide", "publish", "record"}

ClaimIsMine(t) == Entry(t).state = "claimed" /\ Entry(t).action = tasks[t].kind

(* It claimed its key and has not recorded a result: it may have died since. *)
Claimant(t) == (Working(t) \/ (tasks[t].pc = "dead" /\ Definite(t))) /\ ClaimIsMine(t)

(* Where its answer comes from. *)
Accounted(t) ==
    Definite(t) =>
        \/ /\ Entry(t).state # "free" /\ Entry(t).action # tasks[t].kind
           /\ tasks[t].answer = "illegal"
        \/ /\ Entry(t).state = "recorded" /\ Entry(t).action = tasks[t].kind
           /\ tasks[t].answer = Entry(t).answer
        \/ Claimant(t)

WorkersClaim == \A t \in Tasks : Working(t) => ClaimIsMine(t)

OneClaimant ==
    \A t, u \in Tasks :
        /\ Claimant(t) /\ Claimant(u)
        /\ tasks[t].gen = tasks[u].gen /\ tasks[t].key = tasks[u].key
        => t = u

ReplayInv ==
    /\ RowInv
    /\ CommandsAnswer
    /\ WorkersClaim
    /\ OneClaimant
    /\ \A t \in Tasks : Accounted(t)

(* What a step may do to a command. *)
Fresh(u) == ~Working(u)' /\ tasks'[u].pc # "dead" /\ tasks'[u].answer = "none"

Quiet(u) ==
    /\ ~Working(u) /\ ~Working(u)' /\ tasks'[u].answer = tasks[u].answer
    /\ tasks'[u].key = tasks[u].key
    /\ tasks[u].pc = "dead" => tasks'[u].pc = "dead"

Dies(u) == Working(u) /\ tasks'[u].pc = "dead" /\ tasks'[u].answer = tasks[u].answer

Decides(u) == Working(u) /\ Working(u)' /\ UNCHANGED ledger

Errs(u) == Working(u) /\ tasks'[u].pc = "done" /\ tasks'[u].answer = "error"

Claims(u) ==
    /\ tasks[u].pc = "claim" /\ tasks'[u].pc = "decide"
    /\ tasks'[u].answer = tasks[u].answer
    /\ \A v \in Tasks \ {u} : tasks'[v] = tasks[v]
    /\ \E g \in Generations, k \in Keys : KeyClaimed(u, g, k)

Replays(u) ==
    /\ tasks[u].pc = "claim" /\ ~Working(u)' /\ tasks'[u].pc # "dead"
    /\ Entry(u).state # "free" /\ tasks'[u].answer = Replayed(u) /\ UNCHANGED ledger

Records(u) ==
    /\ RecordResult(u) /\ Working(u) /\ ~Working(u)' /\ tasks'[u].pc # "dead"
    /\ tasks'[u].answer = tasks[u].answer

RefusesResume(u) == tasks'[u].pc = "done" /\ tasks[u].pc = "reclaim"

CommandMove(u) ==
    \/ KeepsTask(u) \/ Fresh(u) \/ Quiet(u) \/ Dies(u) \/ Decides(u) \/ Errs(u)
    \/ Claims(u) \/ Replays(u) \/ Records(u) \/ RefusesResume(u)

(* How a step may move a task that carries a command. *)
LEMMA CommandMoves ==
    ASSUME RowInv, [Next]_vars, NEW u \in Tasks
    PROVE  CommandMove(u)
  <1>0. TypeInv
    BY DEF RowInv
  <1>1. CASE KeepsTask(u)
    BY <1>1 DEF CommandMove
  <1>2. CASE Quiet(u) \/ Decides(u)
    BY <1>2 DEF CommandMove
  <1>3. ASSUME NEW t \in Tasks, TaskStep(t)
        PROVE  CommandMove(u)
    <2>1. CASE EnterRunning(t)
      <3>1. u # t => KeepsTask(u)
        BY <1>0, <2>1, EnterRunningView, OthersKept DEF Opened, Moves
      <3>2. u = t => Quiet(u)
        BY <1>0, <2>1, EnterRunningView DEF Opened, Moves, Quiet, Working
      <3> QED
        BY <1>1, <1>2, <3>1, <3>2
    <2>2. CASE ClaimCommand(t)
      <3>0. tasks[t].pc = "claim" /\ tasks[t].gen \in Generations /\ tasks[t].key \in Keys
        BY <1>0, <2>2 DEF ClaimCommand, TypeInv, Placed
      <3>1. u # t => tasks'[u] = tasks[u]
        BY <1>0, <2>2, ClaimCommandView DEF Replies, Leaves, Moves
      <3>2. CASE UNCHANGED ledger /\ Entry(t).state # "free"
        <4>1. u = t => Replays(u)
          BY <1>0, <2>2, <3>0, <3>2, ClaimCommandView DEF Replies, Leaves, Moves, Replays, Working
        <4> QED
          BY <1>1, <3>1, <4>1, OthersKept DEF CommandMove
      <3>3. CASE /\ Entry(t).state = "free"
                 /\ ledger' = [ledger EXCEPT ![tasks[t].gen][tasks[t].key] =
                       [state |-> "claimed", action |-> tasks[t].kind, answer |-> "none"]]
                 /\ Replies(t, "decide", tasks[t].answer)
        <4>1. KeyClaimed(t, tasks[t].gen, tasks[t].key)
          <5>1. ledger \in [Generations -> [Keys -> LedgerType]]
            BY <1>0 DEF TypeInv, TypeOK
          <5> QED
            BY <2>2, <3>0, <3>3, <5>1 DEF KeyClaimed, Entry
        <4>2. PICK g \in Generations, k \in Keys : KeyClaimed(t, g, k)
          BY <3>0, <4>1
        <4>3. u = t => Claims(u)
          BY <3>0, <3>3, <4>2 DEF Replies, Moves, Claims
        <4> QED
          BY <1>1, <3>1, <4>3, OthersKept DEF CommandMove
      <3> QED
        BY <1>0, <2>2, <3>2, <3>3, ClaimCommandView
    <2>3. CASE DecideStop(t)
      <3>1. u # t => KeepsTask(u)
        BY <1>0, <2>3, DecideStopView, OthersKept DEF Replies, Moves
      <3>2. u = t => Decides(u)
        BY <1>0, <2>3, DecideStopView DEF Replies, Moves, Decides, Working
      <3> QED
        BY <1>1, <1>2, <3>1, <3>2
    <2>4. CASE PublishStop(t)
      <3>1. u # t => KeepsTask(u)
        BY <1>0, <2>4, PublishStopView, OthersKept DEF Replies, Moves
      <3>2. u = t => Decides(u)
        BY <1>0, <2>4, PublishStopView DEF Replies, Moves, Decides, Working
      <3> QED
        BY <1>1, <1>2, <3>1, <3>2
    <2>5. CASE Lease(t)
      <3>1. u # t => KeepsTask(u)
        BY <1>0, <2>5, LeaseView, OthersKept DEF Replies, Leaves, Moves
      <3>2. u = t => Decides(u) \/ Errs(u)
        BY <1>0, <2>5, LeaseView DEF Replies, Leaves, Moves, Decides, Errs, Working
      <3> QED
        BY <1>1, <3>1, <3>2 DEF CommandMove
    <2>6. CASE RecordResult(t)
      <3>0. /\ tasks[t].pc = "record"
            /\ \/ Leaves(t, tasks[t].answer)
               \/ Replies(t, "cancel", tasks[t].answer)
               \/ Opened(t, tasks[t].seen, {"stopped"})
        BY <1>0, <2>6, RecordResultView
      <3>1. u # t => KeepsTask(u)
        BY <3>0, OthersKept DEF Opened, Replies, Leaves, Moves
      <3>2. u = t => Records(u)
        BY <2>6, <3>0 DEF Opened, Replies, Leaves, Moves, Records, Working
      <3> QED
        BY <1>1, <3>1, <3>2 DEF CommandMove
    <2>7. CASE CancelLocally(t)
      <3>1. u # t => KeepsTask(u)
        BY <1>0, <2>7, CancelLocallyView
      <3>2. u = t => Quiet(u)
        BY <1>0, <2>7, CancelLocallyView DEF IsOver, Quiet, Working
      <3> QED
        BY <1>1, <1>2, <3>1, <3>2
    <2>8. CASE Reclaim(t)
      <3>1. u # t => KeepsTask(u)
        BY <1>0, <2>8, ReclaimView, OthersKept DEF Opened, Leaves, Moves
      <3>2. u = t => Quiet(u) \/ RefusesResume(u)
        BY <1>0, <2>8, ReclaimView DEF Opened, Leaves, Moves, Quiet, Working, RefusesResume
      <3> QED
        BY <1>1, <3>1, <3>2 DEF CommandMove
    <2>9. ASSUME NEW intent \in Intents, EndStream(t, intent) PROVE CommandMove(u)
      <3>1. u # t => KeepsTask(u)
        BY <1>0, <2>9, EndStreamView, OthersKept DEF Moves
      <3>2. u = t => Quiet(u)
        BY <1>0, <2>9, EndStreamView DEF Moves, Quiet, Working
      <3> QED
        BY <1>1, <1>2, <3>1, <3>2
    <2>10. CASE Settle(t)
      <3>1. u # t => KeepsTask(u)
        BY <1>0, <2>10, SettleView, OthersKept DEF Replies, Leaves, Moves
      <3>2. u = t => Quiet(u)
        BY <1>0, <2>10, SettleView DEF Replies, Leaves, Moves, Quiet, Working
      <3> QED
        BY <1>1, <1>2, <3>1, <3>2
    <2>11. CASE Reread(t)
      <3>1. u # t => KeepsTask(u)
        BY <1>0, <2>11, RereadView, OthersKept DEF Leaves, Moves
      <3>2. u = t => Quiet(u)
        BY <1>0, <2>11, RereadView DEF Leaves, Moves, Quiet, Working
      <3> QED
        BY <1>1, <1>2, <3>1, <3>2
    <2>12. CASE Retry(t)
      <3>1. u # t => KeepsTask(u)
        BY <1>0, <2>12, RetryView, OthersKept DEF Leaves, Moves
      <3>2. u = t => Quiet(u)
        BY <1>0, <2>12, RetryView DEF Leaves, Moves, Quiet, Working
      <3> QED
        BY <1>1, <1>2, <3>1, <3>2
    <2> QED
      BY <1>3, <2>1, <2>2, <2>3, <2>4, <2>5, <2>6, <2>7, <2>8, <2>9, <2>10, <2>11, <2>12
      DEF TaskStep
  <1>4. CASE Arrival
    <2>1. PICK t \in Tasks, p \in Processes, g \in Generations :
            \/ StartTurn(t, p, g) \/ SendResume(t, p, g)
            \/ \E k \in Keys : SendStop(t, p, g, k) \/ SendContinue(t, p, g, k)
      BY <1>4 DEF Arrival
    <2>2. PICK pc, kind, key, seen :
            /\ pc \in {"opened", "reclaim", "claim"}
            /\ Arrives(t, pc, kind, p, g, key, seen)
      BY <1>0, <2>1, StartTurnView, SendResumeView, SendCommandView
    <2>3. u = t => Fresh(u)
      BY <2>2 DEF Arrives, Fresh, Working
    <2>4. u # t => KeepsTask(u)
      BY <2>2, OthersKept DEF Arrives
    <2> QED
      BY <2>3, <2>4 DEF CommandMove
  <1>5. CASE Delivery
    BY <1>0, <1>1, <1>5, HandleStopSignalView, OthersKept DEF Delivery, ExpireEntry
  <1>6. CASE ProcessStep
    <2>1. PICK p \in Processes : Boot(p) \/ ReclaimOrphans(p) \/ Shutdown(p) \/ Exit(p)
      BY <1>6 DEF ProcessStep
    <2>2. CASE Exit(p)
      <3>1. IsOver(u, "dead") \/ KeepsTask(u)
        BY <1>0, <2>2, ExitView, OthersKept
      <3>2. IsOver(u, "dead") => Quiet(u) \/ Dies(u)
        BY DEF IsOver, Quiet, Dies, Working
      <3> QED
        BY <3>1, <3>2 DEF CommandMove
    <2>3. CASE ~Exit(p)
      BY <1>1, <2>1, <2>3, OthersKept DEF Boot, ReclaimOrphans, Shutdown
    <2> QED
      BY <2>2, <2>3
  <1>7. CASE UNCHANGED vars
    BY <1>1, <1>7, OthersKept DEF vars
  <1> QED
    BY <1>3, <1>4, <1>5, <1>6, <1>7 DEF Next


(* Only a task that gets its request gets a key. *)
LEMMA KeyStays ==
    ASSUME RowInv, [Next]_vars, NEW u \in Tasks
    PROVE  tasks'[u].key = tasks[u].key \/ Fresh(u)
  <1>1. CommandMove(u) /\ StaysPut(u)
    BY CommandMoves, TasksStayPut
  <1>2. CASE tasks[u].pc # "idle"
    BY <1>1, <1>2 DEF StaysPut
  <1>3. CASE tasks[u].pc = "idle"
    BY <1>1, <1>3 DEF CommandMove, KeepsTask, Quiet, Dies, Decides, Errs, Claims, Replays,
      Records, RefusesResume, Working
  <1> QED
    BY <1>2, <1>3

(* What is known of a task with a key: its row of the ledger. *)
LEMMA EntryKnown ==
    ASSUME ReplayInv, [Next]_vars, NEW u \in Tasks, tasks[u].key # None
    PROVE  \E g \in Generations, k \in Keys :
             /\ g = tasks[u].gen /\ k = tasks[u].key
             /\ tasks'[u].gen = g /\ tasks'[u].key = k /\ tasks'[u].kind = tasks[u].kind
             /\ tasks[u].pc # "idle" /\ tasks'[u].pc # "idle"
             /\ Entry(u) = ledger[g][k] /\ Entry(u)' = ledger'[g][k]
             /\ ledger[g][k] \in LedgerType
  <1>1. RowInv /\ TypeInv /\ WellAnswered(u)
    BY DEF ReplayInv, RowInv, CommandsAnswer
  <1>2. tasks[u].pc # "idle"
    BY <1>1 DEF WellAnswered
  <1>3. /\ tasks[u].gen \in Generations /\ tasks[u].key \in Keys
        /\ ledger[tasks[u].gen][tasks[u].key] \in LedgerType
    BY <1>1, <1>2, UnderWay DEF TypeInv, TypeOK, TaskType
  <1>4. /\ tasks'[u].gen = tasks[u].gen /\ tasks'[u].key = tasks[u].key
        /\ tasks'[u].kind = tasks[u].kind /\ tasks'[u].pc # "idle"
    BY <1>1, <1>2, TasksStayPut DEF StaysPut
  <1> QED
    BY <1>2, <1>3, <1>4 DEF Entry

(* A claimant was one before, or has just claimed its key; *)
LEMMA ClaimantsBefore ==
    ASSUME ReplayInv, [Next]_vars, NEW u \in Tasks, tasks[u].key # None, Claimant(u)'
    PROVE  Claimant(u) \/ Claims(u)
  <1>1. PICK g \in Generations, k \in Keys :
             /\ g = tasks[u].gen /\ k = tasks[u].key
             /\ tasks'[u].gen = g /\ tasks'[u].key = k /\ tasks'[u].kind = tasks[u].kind
             /\ tasks[u].pc # "idle" /\ tasks'[u].pc # "idle"
             /\ Entry(u) = ledger[g][k] /\ Entry(u)' = ledger'[g][k]
             /\ ledger[g][k] \in LedgerType
    BY EntryKnown
  <1>2. CommandMove(u) /\ Accounted(u) /\ (Working(u) => ClaimIsMine(u))
    BY CommandMoves DEF ReplayInv, WorkersClaim
  <1>3. CASE Working(u)
    BY <1>2, <1>3 DEF Claimant
  <1>4. CASE ~Working(u) /\ Working(u)'
    <2>1. Claims(u)
      BY <1>2, <1>4 DEF CommandMove, KeepsTask, Fresh, Quiet, Dies, Decides, Errs, Replays,
        Records, RefusesResume, Working
    <2> QED
      BY <2>1
  <1>5. CASE ~Working(u) /\ ~Working(u)'
    <2>1. /\ tasks'[u].pc = "dead" /\ Definite(u)'
          /\ ledger'[g][k].state = "claimed" /\ ledger'[g][k].action = tasks[u].kind
      BY <1>1, <1>5 DEF Claimant, ClaimIsMine
    <2>2. tasks'[u].answer = tasks[u].answer
      BY <1>2, <1>5, <2>1 DEF CommandMove, KeepsTask, Fresh, Quiet, Dies, Decides, Errs, Claims,
        Replays, Records, RefusesResume, Working
    <2>3. Definite(u)
      BY <1>1, <2>1, <2>2 DEF Definite
    <2>4. ledger[g][k].state # "free"
      BY <1>1, <1>2, <2>3 DEF Accounted, Claimant, ClaimIsMine
    <2>5. KeyKept(g, k)
      BY <2>1, <2>4, LedgerStep DEF ReplayInv, KeyClaimed, KeyRecorded
    <2> QED
      BY <1>1, <1>2, <2>1, <2>3, <2>5 DEF Accounted, KeyKept
  <1> QED
    BY <1>3, <1>4, <1>5

(* while a task holds its claim, no other writes its key; *)
LEMMA ClaimUndisturbed ==
    ASSUME ReplayInv, [Next]_vars, NEW u \in Tasks, Claimant(u), ~RecordResult(u),
           NEW g \in Generations, NEW k \in Keys, tasks[u].gen = g, tasks[u].key = k
    PROVE  KeyKept(g, k)
  <1>1. RowInv /\ TypeInv
    BY DEF ReplayInv, RowInv
  <1>2. ledger[g][k].state = "claimed"
    BY DEF Claimant, ClaimIsMine, Entry
  <1>3. ASSUME NEW t \in Tasks, KeyClaimed(t, g, k) PROVE FALSE
    BY <1>2, <1>3 DEF KeyClaimed
  <1>4. ASSUME NEW t \in Tasks, KeyRecorded(t, g, k) PROVE FALSE
    <2>1. tasks[t].pc = "record" /\ tasks[t].gen = g /\ tasks[t].key = k /\ RecordResult(t)
      BY <1>4 DEF KeyRecorded, RecordResult
    <2>2. Claimant(t)
      BY <2>1 DEF ReplayInv, WorkersClaim, Working, Claimant
    <2>3. t = u
      BY <2>1, <2>2 DEF ReplayInv, OneClaimant
    <2> QED
      BY <2>1, <2>3
  <1> QED
    BY <1>1, <1>3, <1>4, LedgerStep

(* so it keeps the claim for as long as it works, *)
LEMMA WorkersStep ==
    ASSUME ReplayInv, [Next]_vars, NEW u \in Tasks, Working(u)'
    PROVE  ClaimIsMine(u)'
  <1>0. RowInv' /\ RowInv /\ TypeInv /\ CommandsAnswer
    BY RowInvNext DEF ReplayInv, RowInv
  <1>1. CommandMove(u)
    BY <1>0, CommandMoves
  <1>2. CASE Working(u)
    <2>1. tasks[u].pc # "idle" /\ tasks[u].gen \in Generations /\ tasks[u].key \in Keys
      BY <1>0, <1>2 DEF TypeInv, Placed, Working
    <2>2. PICK g \in Generations, k \in Keys : g = tasks[u].gen /\ k = tasks[u].key
      BY <2>1
    <2>3. tasks'[u].gen = g /\ tasks'[u].key = k /\ tasks'[u].kind = tasks[u].kind
      BY <1>0, <2>1, <2>2, TasksStayPut DEF StaysPut
    <2>4. Claimant(u)
      BY <1>2 DEF ReplayInv, WorkersClaim, Claimant
    <2>5. ~RecordResult(u)
      <3>1. ASSUME RecordResult(u) PROVE FALSE
        <4>1. \/ Leaves(u, tasks[u].answer)
              \/ Replies(u, "cancel", tasks[u].answer)
              \/ Opened(u, tasks[u].seen, {"stopped"})
          BY <1>0, <3>1, RecordResultView
        <4> QED
          BY <4>1 DEF Leaves, Replies, Opened, Moves, Working
      <3> QED
        BY <3>1
    <2>6. KeyKept(g, k)
      BY <2>2, <2>4, <2>5, ClaimUndisturbed
    <2> QED
      BY <2>2, <2>3, <2>4, <2>6 DEF KeyKept, Claimant, ClaimIsMine, Entry
  <1>3. CASE ~Working(u)
    <2>1. Claims(u)
      BY <1>1, <1>3 DEF CommandMove, KeepsTask, Fresh, Quiet, Dies, Decides, Errs, Replays,
        Records, RefusesResume, Working
    <2>2. PICK g \in Generations, k \in Keys : KeyClaimed(u, g, k)
      BY <2>1 DEF Claims
    <2>3. tasks[u].gen = g /\ tasks[u].key = k /\ tasks[u].pc # "idle"
      BY <2>1, <2>2 DEF KeyClaimed, Claims
    <2>4. tasks'[u].gen = g /\ tasks'[u].key = k /\ tasks'[u].kind = tasks[u].kind
      BY <1>0, <2>3, TasksStayPut DEF StaysPut
    <2> QED
      BY <2>2, <2>4 DEF KeyClaimed, ClaimIsMine, Entry
  <1> QED
    BY <1>2, <1>3

(* no two tasks hold one claim, *)
LEMMA OneClaimantStep ==
    ASSUME ReplayInv, [Next]_vars
    PROVE  OneClaimant'
  <1> SUFFICES ASSUME NEW t \in Tasks, NEW u \in Tasks, Claimant(t)', Claimant(u)',
                      tasks'[t].gen = tasks'[u].gen, tasks'[t].key = tasks'[u].key, t # u
               PROVE  FALSE
    BY DEF OneClaimant
  <1>0. RowInv /\ RowInv' /\ TypeInv' /\ TypeInv
    BY RowInvNext DEF ReplayInv, RowInv
  <1>1. ASSUME NEW v \in Tasks, Claimant(v)' PROVE tasks[v].key # None
    <2>1. tasks'[v].key # None
      <3>1. CASE Working(v)'
        <4>1. tasks'[v].key \in Keys
          BY <1>0, <3>1 DEF TypeInv, Placed, Working
        <4> QED
          BY <4>1, ConstantsAssumption
      <3>2. CASE ~Working(v)'
        BY <1>1, <3>2 DEF Claimant, Definite
      <3> QED
        BY <3>1, <3>2
    <2>2. ~Fresh(v)
      BY <1>1 DEF Claimant, Fresh
    <2> QED
      BY <1>0, <2>1, <2>2, KeyStays
  <1>2. tasks[t].key # None /\ tasks[u].key # None
    BY <1>1
  <1>3. tasks[t].gen = tasks[u].gen /\ tasks[t].key = tasks[u].key
    BY <1>2, EntryKnown
  <1>4. ASSUME NEW v \in Tasks, NEW w \in Tasks, v # w, Claims(v), Claimant(w)',
               tasks[v].gen = tasks[w].gen, tasks[v].key = tasks[w].key, tasks[w].key # None
        PROVE  FALSE
    <2>1. ledger[tasks[v].gen][tasks[v].key].state = "free"
      BY <1>4 DEF Claims, KeyClaimed
    <2>2. ~Claimant(w)
      BY <1>4, <2>1 DEF Claimant, ClaimIsMine, Entry
    <2>3. Claims(w)
      BY <1>4, <2>2, ClaimantsBefore
    <2> QED
      BY <1>4, <2>3 DEF Claims
  <1>5. Claimant(t) /\ Claimant(u)
    BY <1>2, <1>3, <1>4, ClaimantsBefore
  <1> QED
    BY <1>3, <1>5 DEF ReplayInv, OneClaimant

(* and every answer stays accounted for. *)
LEMMA AccountedStep ==
    ASSUME ReplayInv, [Next]_vars, NEW u \in Tasks
    PROVE  Accounted(u)'
  <1> SUFFICES ASSUME Definite(u)' PROVE Accounted(u)'
    BY DEF Accounted
  <1>0. RowInv /\ TypeInv /\ CommandMove(u) /\ Accounted(u)
    BY CommandMoves DEF ReplayInv, RowInv
  <1>1. CASE Working(u)'
    BY <1>1, WorkersStep DEF Accounted, Claimant
  <1>2. CASE ~Working(u)'
    <2>1. tasks[u].key # None
      <3>1. ~Fresh(u) /\ tasks'[u].key # None
        BY DEF Definite, Fresh
      <3> QED
        BY <1>0, <3>1, KeyStays
    <2>2. PICK g \in Generations, k \in Keys :
             /\ g = tasks[u].gen /\ k = tasks[u].key
             /\ tasks'[u].gen = g /\ tasks'[u].key = k /\ tasks'[u].kind = tasks[u].kind
             /\ tasks[u].pc # "idle" /\ tasks'[u].pc # "idle"
             /\ Entry(u) = ledger[g][k] /\ Entry(u)' = ledger'[g][k]
             /\ ledger[g][k] \in LedgerType
      BY <2>1, EntryKnown
    <2>3. CASE KeepsTask(u) \/ Quiet(u) \/ Dies(u)
      <3>1. /\ tasks'[u].answer = tasks[u].answer
            /\ tasks[u].pc = "dead" => tasks'[u].pc = "dead"
            /\ Working(u) => tasks'[u].pc = "dead"
        BY <1>2, <2>3 DEF KeepsTask, Quiet, Dies, Working
      <3>2. Definite(u)
        BY <2>2, <3>1 DEF Definite
      <3>3. CASE Claimant(u)
        <4>1. tasks'[u].pc = "dead"
          BY <3>1, <3>3 DEF Claimant
        <4>2. CASE RecordResult(u)
          <5>1. KeyRecorded(u, g, k)
            BY <1>0, <2>2, <3>3, <4>2, RecordedKey DEF Claimant, ClaimIsMine
          <5> QED
            BY <2>2, <3>1, <3>3, <5>1 DEF KeyRecorded, Accounted, Claimant, ClaimIsMine
        <4>3. CASE ~RecordResult(u)
          <5>1. KeyKept(g, k)
            BY <2>2, <3>3, <4>3, ClaimUndisturbed
          <5>2. Claimant(u)'
            BY <2>2, <3>3, <4>1, <5>1 DEF KeyKept, Claimant, ClaimIsMine
          <5> QED
            BY <5>2 DEF Accounted
        <4> QED
          BY <4>2, <4>3
      <3>4. CASE ~Claimant(u)
        <4>1. \/ /\ ledger[g][k].state # "free" /\ ledger[g][k].action # tasks[u].kind
                 /\ tasks[u].answer = "illegal"
              \/ /\ ledger[g][k].state = "recorded" /\ ledger[g][k].action = tasks[u].kind
                 /\ tasks[u].answer = ledger[g][k].answer
          BY <1>0, <2>2, <3>2, <3>4 DEF Accounted
        <4>2. \/ KeyKept(g, k)
              \/ /\ ledger[g][k].state = "claimed" /\ ledger'[g][k].state = "recorded"
                 /\ ledger'[g][k].action = ledger[g][k].action
          BY <1>0, <4>1, LedgerStep DEF KeyClaimed, KeyRecorded
        <4> QED
          BY <2>2, <3>1, <4>1, <4>2 DEF KeyKept, Accounted
      <3> QED
        BY <3>3, <3>4
    <2>4. CASE Replays(u)
      <3>1. /\ ledger[g][k].state # "free" /\ ledger'[g][k] = ledger[g][k]
            /\ tasks'[u].answer = Replayed(u)
        BY <2>2, <2>4 DEF Replays
      <3>2. Replayed(u) # "in_progress"
        BY <3>1 DEF Definite
      <3>3. \/ ledger[g][k].action # tasks[u].kind /\ Replayed(u) = "illegal"
            \/ /\ ledger[g][k].action = tasks[u].kind /\ ledger[g][k].state = "recorded"
               /\ Replayed(u) = ledger[g][k].answer
        BY <2>2, <3>1, <3>2 DEF Replayed, LedgerType
      <3> QED
        BY <2>2, <3>1, <3>3 DEF Accounted
    <2>5. CASE Records(u)
      <3>1. RecordResult(u) /\ tasks'[u].answer = tasks[u].answer /\ ClaimIsMine(u)
        BY <2>5 DEF Records, ReplayInv, WorkersClaim
      <3>2. KeyRecorded(u, g, k)
        BY <1>0, <2>2, <3>1, RecordedKey DEF ClaimIsMine
      <3> QED
        BY <2>2, <3>1, <3>2 DEF KeyRecorded, Accounted, ClaimIsMine
    <2>6. CASE RefusesResume(u)
      BY <2>1, <2>6 DEF RefusesResume, ReplayInv, CommandsAnswer, WellAnswered
    <2>7. CASE Fresh(u) \/ Errs(u)
      BY <2>7 DEF Fresh, Errs, Definite
    <2>8. CASE Decides(u) \/ Claims(u)
      BY <1>2, <2>8 DEF Decides, Claims, Working
    <2> QED
      BY <1>0, <2>3, <2>4, <2>5, <2>6, <2>7, <2>8 DEF CommandMove
  <1> QED
    BY <1>1, <1>2

(* Every step keeps ReplayInv. *)
LEMMA ReplayInvNext == ReplayInv /\ [Next]_vars => ReplayInv'
  <1> SUFFICES ASSUME ReplayInv, [Next]_vars PROVE ReplayInv'
    OBVIOUS
  <1>1. RowInv' /\ CommandsAnswer'
    BY RowInvNext, CommandsStep DEF ReplayInv
  <1>2. WorkersClaim'
    BY WorkersStep DEF WorkersClaim
  <1> QED
    BY <1>1, <1>2, OneClaimantStep, AccountedStep DEF ReplayInv

(* Two attempts of one command under one key that both get a definite       *)
(* answer get the same one, whatever dies or races in between.              *)
THEOREM ReplaysAgree == Spec => []ReplayAnswersTheSame
  <1>1. Init => ReplayInv
    <2> SUFFICES ASSUME Init PROVE ReplayInv
      OBVIOUS
    <2>1. \A t \in Tasks : tasks[t].pc = "idle" /\ tasks[t].key = None
      BY DEF Init, Idle
    <2>2. CommandsAnswer /\ WorkersClaim /\ OneClaimant /\ \A t \in Tasks : Accounted(t)
      BY <2>1 DEF CommandsAnswer, WellAnswered, WorkersClaim, OneClaimant, Accounted, Working,
        Claimant, Definite
    <2> QED
      BY <2>2, RowInvInit DEF ReplayInv
  <1>2. ReplayInv => ReplayAnswersTheSame
    <2> SUFFICES ASSUME ReplayInv, NEW t \in Tasks, NEW u \in Tasks,
                        tasks[t].key # None, tasks[u].key = tasks[t].key,
                        tasks[u].gen = tasks[t].gen, tasks[u].kind = tasks[t].kind,
                        {tasks[t].answer, tasks[u].answer}
                            \intersect {"none", "in_progress", "error"} = {}
                 PROVE  tasks[t].answer = tasks[u].answer
      BY DEF ReplayAnswersTheSame
    <2>1. Definite(t) /\ Definite(u) /\ Entry(t) = Entry(u)
      BY DEF Definite, Entry
    <2>2. Accounted(t) /\ Accounted(u)
      BY DEF ReplayInv
    <2>3. CASE Claimant(t) /\ Claimant(u)
      BY <2>3 DEF ReplayInv, OneClaimant
    <2>4. CASE ~(Claimant(t) /\ Claimant(u))
      BY <2>1, <2>2, <2>4 DEF Accounted, Claimant, ClaimIsMine
    <2> QED
      BY <2>3, <2>4
  <1> QED
    BY <1>1, <1>2, ReplayInvNext, PTL DEF Spec
=============================================================================
