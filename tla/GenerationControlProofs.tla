------------------------ MODULE GenerationControlProofs -----------------------
(***************************************************************************)
(* Theorems about GenerationControl, for every set of generations,          *)
(* processes, tasks and keys.                                               *)
(***************************************************************************)
EXTENDS GenerationControl, GenerationRowsProofs, TLAPS

-----------------------------------------------------------------------------
(* Type correctness. *)

(* An idle task is well typed. *)
LEMMA IdleTask == Idle \in TaskType
  BY CreatedRow, ConstantsAssumption
     DEF Idle, TaskType, Snapshot, Pcs, Kinds, Intents, Answers

(* A task that is over is well typed. *)
LEMMA OverTask ==
    ASSUME NEW task \in TaskType, NEW pc \in Pcs
    PROVE  Over(task, pc) \in TaskType
  <1>1. NoRow(None) \in Snapshot
    BY CreatedRow DEF Snapshot
  <1>2. "none" \in Intents
    BY DEF Intents
  <1> QED
    BY <1>1, <1>2 DEF Over, TaskType

(* A task that has a process and a generation. *)
LEMMA RowOfTask ==
    ASSUME TypeOK, NEW t \in Tasks, tasks[t].gen \in Generations
    PROVE  Row(t) \in Snapshot
  BY DEF TypeOK, Row

(* The tasks that are under way work on some generation, for some process. *)
Placed ==
    \A t \in Tasks :
        tasks[t].pc # "idle" \/ tasks[t].proc # None =>
            /\ tasks[t].proc \in Processes
            /\ tasks[t].gen \in Generations
            /\ tasks[t].pc \in {"claim", "decide", "publish", "record", "cancel"} =>
                  tasks[t].key \in Keys

TypeInv == TypeOK /\ Placed

(* TypeInv holds initially. *)
LEMMA TypeInit == Init => TypeInv
  <1> SUFFICES ASSUME Init PROVE TypeInv
    OBVIOUS
  <1>1. NoRow(None) \in Snapshot
    BY CreatedRow DEF Snapshot
  <1>2. Unclaimed \in LedgerType
    BY DEF Unclaimed, LedgerType, Kinds, Answers
  <1>3. TypeOK
    BY <1>1, <1>2, IdleTask DEF Init, TypeOK
  <1>4. Placed
    BY DEF Init, Placed, Idle
  <1> QED
    BY <1>3, <1>4 DEF TypeInv

(* A step that rewrites one task keeps the tasks typed and placed. *)
LEMMA TaskRewritten ==
    ASSUME TypeInv, NEW t \in Tasks, NEW task \in TaskType,
           tasks' = [tasks EXCEPT ![t] = task],
           task.proc \in Processes, task.gen \in Generations,
           task.key \in Keys \/ task.pc \notin {"claim", "decide", "publish", "record", "cancel"}
    PROVE  tasks' \in [Tasks -> TaskType] /\ Placed'
  BY DEF TypeInv, TypeOK, Placed

(* A task under way moves on: it keeps its place and its key. *)
LEMMA TaskMoved ==
    ASSUME TypeInv, NEW t \in Tasks, NEW task \in TaskType,
           tasks[t].pc # "idle",
           tasks' = [tasks EXCEPT ![t] = task],
           task.proc = tasks[t].proc, task.gen = tasks[t].gen, task.key = tasks[t].key,
           \/ task.pc \notin {"claim", "decide", "publish", "record", "cancel"}
           \/ tasks[t].pc \in {"claim", "decide", "publish", "record", "cancel"}
    PROVE  tasks' \in [Tasks -> TaskType] /\ Placed'
  <1>1. tasks[t].proc \in Processes /\ tasks[t].gen \in Generations
    BY DEF TypeInv, Placed
  <1>2. task.key \in Keys \/ task.pc \notin {"claim", "decide", "publish", "record", "cancel"}
    BY DEF TypeInv, Placed
  <1> QED
    BY <1>1, <1>2, TaskRewritten

(* The four ways an action rewrites a task under way. *)
LEMMA GotoTyped ==
    ASSUME TypeInv, NEW t \in Tasks, NEW pc \in Pcs, tasks[t].pc # "idle", Goto(t, pc),
           \/ pc \notin {"claim", "decide", "publish", "record", "cancel"}
           \/ tasks[t].pc \in {"claim", "decide", "publish", "record", "cancel"}
    PROVE  tasks' \in [Tasks -> TaskType] /\ Placed'
  <1> DEFINE task == [tasks[t] EXCEPT !.pc = pc]
  <1>1. tasks[t] \in TaskType
    BY DEF TypeInv, TypeOK
  <1>2. /\ task \in TaskType /\ task.pc = pc /\ task.proc = tasks[t].proc
        /\ task.gen = tasks[t].gen /\ task.key = tasks[t].key
    BY <1>1 DEF TaskType
  <1>3. tasks' = [tasks EXCEPT ![t] = task]
    BY DEF Goto
  <1> QED
    BY <1>2, <1>3, TaskMoved

(* Answering keeps the tasks well typed and placed. *)
LEMMA AnsweredTyped ==
    ASSUME TypeInv, NEW t \in Tasks, NEW pc \in Pcs, NEW answer \in Answers,
           tasks[t].pc # "idle", Answered(t, answer, pc),
           \/ pc \notin {"claim", "decide", "publish", "record", "cancel"}
           \/ tasks[t].pc \in {"claim", "decide", "publish", "record", "cancel"}
    PROVE  tasks' \in [Tasks -> TaskType] /\ Placed'
  <1> DEFINE task == [tasks[t] EXCEPT !.answer = answer, !.pc = pc]
  <1>1. tasks[t] \in TaskType
    BY DEF TypeInv, TypeOK
  <1>2. /\ task \in TaskType /\ task.pc = pc /\ task.proc = tasks[t].proc
        /\ task.gen = tasks[t].gen /\ task.key = tasks[t].key
    BY <1>1 DEF TaskType
  <1>3. tasks' = [tasks EXCEPT ![t] = task]
    BY <1>1 DEF Answered, TypeInv, TypeOK
  <1> QED
    BY <1>2, <1>3, TaskMoved

(* Finishing keeps the tasks well typed and placed. *)
LEMMA FinishTyped ==
    ASSUME TypeInv, NEW t \in Tasks, NEW answer \in Answers, tasks[t].pc # "idle",
           Finish(t) \/ FinishWith(t, answer)
    PROVE  tasks' \in [Tasks -> TaskType] /\ Placed'
  <1> DEFINE over == Over(tasks[t], "done")
             task == [over EXCEPT !.answer = answer]
  <1>1. tasks[t] \in TaskType
    BY DEF TypeInv, TypeOK
  <1>2. /\ over \in TaskType /\ over.pc = "done" /\ over.proc = tasks[t].proc
        /\ over.gen = tasks[t].gen /\ over.key = tasks[t].key
    <2>1. "done" \in Pcs
      BY DEF Pcs
    <2> QED
      BY <1>1, <2>1, OverTask DEF Over, TaskType
  <1> HIDE DEF over
  <1>3. /\ task \in TaskType /\ task.pc = "done" /\ task.proc = tasks[t].proc
        /\ task.gen = tasks[t].gen /\ task.key = tasks[t].key
    BY <1>2 DEF TaskType
  <1>4. tasks' = [tasks EXCEPT ![t] = over] \/ tasks' = [tasks EXCEPT ![t] = task]
    BY DEF Finish, FinishWith, over
  <1> HIDE DEF task
  <1>5. CASE tasks' = [tasks EXCEPT ![t] = over]
    BY <1>2, <1>5, TaskMoved
  <1>6. CASE tasks' = [tasks EXCEPT ![t] = task]
    BY <1>3, <1>6, TaskMoved
  <1> QED
    BY <1>4, <1>5, <1>6

(* Attaching to the registry, or abandoning a stream, keeps the types. *)
LEMMA AttachTyped ==
    ASSUME TypeInv, NEW t \in Tasks, NEW snapshot \in Snapshot, NEW i \in Intents,
           tasks[t].pc # "idle", Attach(t, snapshot) \/ Abandon(t, snapshot, i)
    PROVE  /\ tasks' \in [Tasks -> TaskType] /\ Placed'
           /\ registry' \in [Processes -> [Generations -> Tasks \union {None}]]
  <1>1. tasks[t] \in TaskType
    BY DEF TypeInv, TypeOK
  <1>2. tasks[t].proc \in Processes /\ tasks[t].gen \in Generations
    BY DEF TypeInv, Placed
  <1>3. CASE Attach(t, snapshot)
    <2> DEFINE task == [tasks[t] EXCEPT !.pc = "streaming", !.seen = snapshot]
    <2>1. /\ task \in TaskType /\ task.pc = "streaming" /\ task.proc = tasks[t].proc
          /\ task.gen = tasks[t].gen /\ task.key = tasks[t].key
      BY <1>1 DEF TaskType, Pcs
    <2>2. tasks' = [tasks EXCEPT ![t] = task]
      BY <1>1, <1>3 DEF Attach, TypeInv, TypeOK
    <2>3. registry' \in [Processes -> [Generations -> Tasks \union {None}]]
      BY <1>2, <1>3 DEF Attach, TypeInv, TypeOK
    <2> QED
      BY <2>1, <2>2, <2>3, TaskMoved
  <1>4. CASE Abandon(t, snapshot, i)
    <2> DEFINE task == [tasks[t] EXCEPT !.pc = "settle", !.seen = snapshot, !.intent = i]
    <2>1. /\ task \in TaskType /\ task.pc = "settle" /\ task.proc = tasks[t].proc
          /\ task.gen = tasks[t].gen /\ task.key = tasks[t].key
      BY <1>1 DEF TaskType, Pcs
    <2>2. tasks' = [tasks EXCEPT ![t] = task]
      BY <1>1, <1>4 DEF Abandon, TypeInv, TypeOK
    <2>3. registry' \in [Processes -> [Generations -> Tasks \union {None}]]
      BY <1>4 DEF Abandon, TypeInv, TypeOK
    <2> QED
      BY <2>1, <2>2, <2>3, TaskMoved
  <1> QED
    BY <1>3, <1>4

(* A write keeps the rows well typed. *)
LEMMA RowWritten ==
    ASSUME TypeInv, NEW t \in Tasks, NEW row \in Snapshot, tasks[t].pc # "idle", Write(t, row)
    PROVE  rows' \in [Generations -> Snapshot]
  BY DEF TypeInv, TypeOK, Placed, Write

(* Cancelling through the registry only sets the tasks' cancelled flag. *)
LEMMA CancelledTyped ==
    ASSUME TypeInv, NEW p \in Processes, NEW g \in Generations, NEW ts \in [Tasks -> TaskType]
    PROVE  /\ Cancelled(p, g, ts) \in [Tasks -> TaskType]
           /\ \A t \in Tasks : /\ Cancelled(p, g, ts)[t].pc = ts[t].pc
                               /\ Cancelled(p, g, ts)[t].proc = ts[t].proc
                               /\ Cancelled(p, g, ts)[t].gen = ts[t].gen
                               /\ Cancelled(p, g, ts)[t].key = ts[t].key
  <1>1. CASE registry[p][g] = None
    BY <1>1 DEF Cancelled
  <1>2. CASE registry[p][g] # None
    <2> DEFINE u == registry[p][g]
               task == [ts[u] EXCEPT !.cancelled = TRUE]
    <2>1. u \in Tasks
      BY <1>2 DEF TypeInv, TypeOK
    <2>2. Cancelled(p, g, ts) = [ts EXCEPT ![u] = task]
      BY <1>2 DEF Cancelled
    <2> HIDE DEF u
    <2>3. /\ task \in TaskType /\ task.pc = ts[u].pc /\ task.proc = ts[u].proc
          /\ task.gen = ts[u].gen /\ task.key = ts[u].key
      BY <2>1 DEF TaskType
    <2> HIDE DEF task
    <2> QED
      BY <2>1, <2>2, <2>3
  <1> QED
    BY <1>1, <1>2

(* Tasks that keep their pc, place and key stay placed. *)
LEMMA PlacedKept ==
    ASSUME TypeInv,
           \A t \in Tasks : /\ tasks'[t].pc = tasks[t].pc /\ tasks'[t].proc = tasks[t].proc
                            /\ tasks'[t].gen = tasks[t].gen /\ tasks'[t].key = tasks[t].key
    PROVE  Placed'
  BY DEF TypeInv, Placed

(* A settled row is a row. *)
LEMMA SettledTyped ==
    ASSUME NEW S, NEW row \in RowType(S), NEW i \in Intents, NEW roll \in Nat
    PROVE  Settled(row, i, roll) \in RowType(S)
  <1>1. row.epoch \in Nat /\ row.epoch + roll \in Nat
    BY DEF RowType
  <1>2. {"none", "mutation_outcome_unknown", "tool_approval_required"} \subseteq BlockReason
    BY DEF BlockReason
  <1>3. {"completed", "completed_partial"} \subseteq TerminalStatuses
    BY DEF TerminalStatuses
  <1>4. CASE i = "failed"
    BY <1>4, FailedRow DEF Settled
  <1>5. CASE i = "stopped"
    BY <1>5, StoppedRow DEF Settled
  <1>6. CASE i \in {"completed", "completed_partial"}
    BY <1>3, <1>6, CompletedRow DEF Settled
  <1>7. CASE i \in {"continuable", "blocked", "approval"}
    BY <1>1, <1>2, <1>7, PausedRow DEF Settled
  <1>8. CASE i = "none"
    BY <1>8 DEF Settled
  <1> QED
    BY <1>4, <1>5, <1>6, <1>7, <1>8 DEF Intents

(* Every step keeps TypeInv. *)
LEMMA TypeNext == TypeInv /\ [Next]_vars => TypeInv'
  <1> SUFFICES ASSUME TypeInv, [Next]_vars PROVE TypeInv'
    OBVIOUS
  <1>0. "none" \in Answers /\ "none" \in Intents /\ "stopped" \in Intents /\ "failed" \in Intents
    BY DEF Answers, Intents
  <1>1. ASSUME NEW t \in Tasks, NEW p \in Processes, NEW g \in Generations, StartTurn(t, p, g)
        PROVE  TypeInv'
    <2>1. Create(p) \in Snapshot
      BY CreatedRow DEF Snapshot
    <2> DEFINE task == [Idle EXCEPT !.pc = "opened", !.kind = "turn",
                                    !.proc = p, !.gen = g, !.seen = Create(p)]
    <2>2. task \in TaskType /\ task.proc = p /\ task.gen = g /\ task.pc = "opened"
      BY <2>1, IdleTask DEF TaskType, Pcs, Kinds
    <2>3. tasks' = [tasks EXCEPT ![t] = task]
      BY <1>1 DEF StartTurn
    <2> HIDE DEF task
    <2>4. tasks' \in [Tasks -> TaskType] /\ Placed'
      BY <2>2, <2>3, TaskRewritten
    <2> QED
      BY <1>1, <2>1, <2>4 DEF StartTurn, TypeInv, TypeOK
  <1>2. ASSUME NEW t \in Tasks, EnterRunning(t)
        PROVE  TypeInv'
    <2>1. tasks[t].pc # "idle"
      BY <1>2 DEF EnterRunning
    <2>2. Row(t) \in Snapshot /\ tasks[t].seen \in Snapshot
      BY <2>1 DEF TypeInv, TypeOK, Placed, Row, TaskType
    <2>3. MarkRunning(Row(t)) \in Snapshot
      BY <2>2, RunningRow DEF Snapshot
    <2>4. PICK row \in Snapshot, snapshot \in Snapshot :
             /\ Write(t, row)
             /\ Attach(t, snapshot) \/ Abandon(t, snapshot, "stopped")
      BY <1>2, <2>2, <2>3 DEF EnterRunning
    <2>5. rows' \in [Generations -> Snapshot]
      BY <2>1, <2>4, RowWritten
    <2>6. /\ tasks' \in [Tasks -> TaskType] /\ Placed'
          /\ registry' \in [Processes -> [Generations -> Tasks \union {None}]]
      BY <1>0, <2>1, <2>4, AttachTyped
    <2> QED
      BY <1>2, <2>5, <2>6 DEF EnterRunning, TypeInv, TypeOK
  <1>3. ASSUME NEW t \in Tasks, NEW p \in Processes, NEW g \in Generations,
               NEW kind \in Kinds, NEW k \in Keys, NEW fence \in Nat, NEW cont \in Nat,
               SendCommand(t, p, g, kind, k, fence, cont)
        PROVE  TypeInv'
    <2>1. rows[g] \in Snapshot
      BY DEF TypeInv, TypeOK
    <2> DEFINE task == [Idle EXCEPT !.pc = "claim", !.kind = kind, !.proc = p,
                                    !.gen = g, !.key = k, !.fence = fence, !.cont = cont,
                                    !.seen = rows[g]]
    <2>2. /\ task \in TaskType /\ task.proc = p /\ task.gen = g /\ task.key = k
      BY <2>1, IdleTask DEF TaskType, Pcs
    <2>3. tasks' = [tasks EXCEPT ![t] = task]
      BY <1>3 DEF SendCommand
    <2> HIDE DEF task
    <2>4. tasks' \in [Tasks -> TaskType] /\ Placed'
      BY <2>2, <2>3, TaskRewritten
    <2> QED
      BY <1>3, <2>4 DEF SendCommand, TypeInv, TypeOK
  <1>4. ASSUME NEW t \in Tasks, NEW p \in Processes, NEW g \in Generations, NEW k \in Keys,
               SendStop(t, p, g, k) \/ SendContinue(t, p, g, k)
        PROVE  TypeInv'
    <2>1. KnownVersions(g) \subseteq Nat /\ rows[g].continuation \in Nat
      BY DEF KnownVersions, TypeInv, TypeOK, Snapshot, RowType
    <2>2. "stop" \in Kinds /\ "continue" \in Kinds
      BY DEF Kinds
    <2> QED
      BY <1>3, <1>4, <2>1, <2>2 DEF SendStop, SendContinue
  <1>5. ASSUME NEW t \in Tasks, ClaimCommand(t)
        PROVE  TypeInv'
    <2>1. /\ tasks[t].pc = "claim" /\ tasks[t].gen \in Generations /\ tasks[t].key \in Keys
          /\ tasks[t].kind \in Kinds
      BY <1>5 DEF ClaimCommand, TypeInv, Placed, TypeOK, TaskType
    <2>2. Replayed(t) \in Answers
      BY <2>1 DEF Replayed, Entry, TypeInv, TypeOK, LedgerType, Answers
    <2>3. ledger' \in [Generations -> [Keys -> LedgerType]]
      <3> DEFINE claimed == [state |-> "claimed", action |-> tasks[t].kind, answer |-> "none"]
      <3>1. claimed \in LedgerType
        BY <2>1 DEF LedgerType, Answers
      <3>2. \/ ledger' = [ledger EXCEPT ![tasks[t].gen][tasks[t].key] = claimed]
            \/ ledger' = ledger
        BY <1>5 DEF ClaimCommand
      <3> HIDE DEF claimed
      <3>3. CASE ledger' = [ledger EXCEPT ![tasks[t].gen][tasks[t].key] = claimed]
        <4> DEFINE g == tasks[t].gen
                   k == tasks[t].key
        <4>1. g \in Generations /\ k \in Keys /\ ledger[g] \in [Keys -> LedgerType]
          BY <2>1 DEF TypeInv, TypeOK
        <4>2. [ledger[g] EXCEPT ![k] = claimed] \in [Keys -> LedgerType]
          BY <3>1, <4>1
        <4>3. ledger' = [ledger EXCEPT ![g] = [ledger[g] EXCEPT ![k] = claimed]]
          BY <3>3, <4>1 DEF TypeInv, TypeOK
        <4> QED
          BY <4>1, <4>2, <4>3 DEF TypeInv, TypeOK
      <3> QED
        BY <3>2, <3>3 DEF TypeInv, TypeOK
    <2>4. tasks' \in [Tasks -> TaskType] /\ Placed'
      <3>1. "decide" \in Pcs /\ "cancel" \in Pcs
        BY DEF Pcs
      <3>2. \/ Goto(t, "decide") \/ Answered(t, Replayed(t), "cancel")
            \/ FinishWith(t, Replayed(t))
        BY <1>5 DEF ClaimCommand
      <3>3. CASE Goto(t, "decide")
        BY <2>1, <3>1, <3>3, GotoTyped
      <3>4. CASE Answered(t, Replayed(t), "cancel")
        BY <2>1, <2>2, <3>1, <3>4, AnsweredTyped
      <3>5. CASE FinishWith(t, Replayed(t))
        BY <2>1, <2>2, <3>5, FinishTyped
      <3> QED
        BY <3>2, <3>3, <3>4, <3>5
    <2> QED
      BY <1>5, <2>3, <2>4 DEF ClaimCommand, TypeInv, TypeOK
  <1>6. ASSUME NEW t \in Tasks, DecideStop(t)
        PROVE  TypeInv'
    <2>1. tasks[t].pc = "decide"
      BY <1>6 DEF DecideStop
    <2>2. Row(t) \in Snapshot
      BY <2>1, RowOfTask DEF TypeInv, Placed
    <2>3. AcceptPartial(Row(t)) \in Snapshot /\ RequestWorkerStop(Row(t)) \in Snapshot
      BY <2>2, AcceptedRow, StoppingRow DEF Snapshot
    <2>4. rows' \in [Generations -> Snapshot]
      <3>1. \/ UNCHANGED rows \/ Write(t, AcceptPartial(Row(t)))
            \/ Write(t, RequestWorkerStop(Row(t)))
        BY <1>6 DEF DecideStop, Refuse
      <3> QED
        BY <2>1, <2>3, <3>1, RowWritten DEF TypeInv, TypeOK
    <2>5. PICK answer \in Answers, pc \in {"record", "publish"} : Answered(t, answer, pc)
      BY <1>6 DEF DecideStop, Refuse, Answers
    <2>6. tasks' \in [Tasks -> TaskType] /\ Placed'
      BY <2>1, <2>5, AnsweredTyped DEF Pcs
    <2> QED
      BY <1>6, <2>4, <2>6 DEF DecideStop, TypeInv, TypeOK
  <1>7. ASSUME NEW t \in Tasks, PublishStop(t)
        PROVE  TypeInv'
    <2>1. tasks[t].pc = "publish" /\ tasks[t].gen \in Generations
      BY <1>7 DEF PublishStop, TypeInv, Placed
    <2>2. signals' \subseteq Processes \X Generations
      BY <1>7, <2>1 DEF PublishStop, TypeInv, TypeOK
    <2>3. tasks' \in [Tasks -> TaskType] /\ Placed'
      BY <1>7, <2>1, GotoTyped DEF PublishStop, Pcs
    <2> QED
      BY <1>7, <2>2, <2>3 DEF PublishStop, TypeInv, TypeOK
  <1>8. ASSUME NEW t \in Tasks, Lease(t)
        PROVE  TypeInv'
    <2> DEFINE leased == LeaseEpoch(Row(t), tasks[t].proc)
    <2>1. tasks[t].pc = "decide" /\ tasks[t].proc \in Processes /\ tasks[t] \in TaskType
      BY <1>8 DEF Lease, TypeInv, TypeOK, Placed
    <2>2. Row(t) \in Snapshot
      BY <2>1, RowOfTask DEF TypeInv, Placed
    <2>3. leased \in Snapshot /\ leased.epoch \in Nat
      BY <2>1, <2>2, LeasedRow DEF Snapshot, RowType
    <2>4. \/ \E answer \in {"stale", "unavailable"} :
                Answered(t, answer, "record") /\ UNCHANGED rows
          \/ FinishWith(t, "error") /\ UNCHANGED rows
          \/ /\ Write(t, leased)
             /\ tasks' = [tasks EXCEPT ![t].answer = "leased", ![t].pc = "record",
                                       ![t].seen = leased, ![t].leased = leased.epoch]
      BY <1>8 DEF Lease, Refuse
    <2> HIDE DEF leased
    <2>5. rows' \in [Generations -> Snapshot]
      BY <2>1, <2>3, <2>4, RowWritten DEF TypeInv, TypeOK
    <2>6. tasks' \in [Tasks -> TaskType] /\ Placed'
      <3>1. CASE \E answer \in {"stale", "unavailable"} : Answered(t, answer, "record")
        BY <2>1, <3>1, AnsweredTyped DEF Pcs, Answers
      <3>2. CASE FinishWith(t, "error")
        BY <2>1, <3>2, FinishTyped DEF Answers
      <3>3. CASE tasks' = [tasks EXCEPT ![t].answer = "leased", ![t].pc = "record",
                                        ![t].seen = leased, ![t].leased = leased.epoch]
        <4> DEFINE task == [tasks[t] EXCEPT !.answer = "leased", !.pc = "record",
                                            !.seen = leased, !.leased = leased.epoch]
        <4>1. /\ task \in TaskType /\ task.pc = "record" /\ task.proc = tasks[t].proc
              /\ task.gen = tasks[t].gen /\ task.key = tasks[t].key
          BY <2>1, <2>3 DEF TaskType, Pcs, Answers
        <4>2. tasks' = [tasks EXCEPT ![t] = task]
          BY <3>3 DEF TypeInv, TypeOK
        <4> HIDE DEF task
        <4> QED
          BY <2>1, <4>1, <4>2, TaskMoved
      <3> QED
        BY <2>4, <3>1, <3>2, <3>3
    <2> QED
      BY <1>8, <2>5, <2>6 DEF Lease, TypeInv, TypeOK
  <1>9. ASSUME NEW t \in Tasks, RecordResult(t)
        PROVE  TypeInv'
    <2>1. /\ tasks[t].pc = "record" /\ tasks[t].gen \in Generations /\ tasks[t].key \in Keys
          /\ tasks[t].answer \in Answers /\ tasks[t].seen \in Snapshot
      BY <1>9 DEF RecordResult, TypeInv, Placed, TypeOK, TaskType
    <2>2. ledger' \in [Generations -> [Keys -> LedgerType]]
      <3> DEFINE old == ledger[tasks[t].gen][tasks[t].key]
                 new == IF old.state = "claimed"
                        THEN [old EXCEPT !.state = "recorded", !.answer = tasks[t].answer]
                        ELSE old
      <3>1. old \in LedgerType
        BY <2>1 DEF TypeInv, TypeOK
      <3>2. new \in LedgerType
        BY <2>1, <3>1 DEF LedgerType
      <3>3. ledger' = [ledger EXCEPT ![tasks[t].gen][tasks[t].key] = new]
        BY <1>9 DEF RecordResult
      <3> HIDE DEF new
      <3> QED
        BY <2>1, <3>2, <3>3 DEF TypeInv, TypeOK
    <2>3. /\ tasks' \in [Tasks -> TaskType] /\ Placed'
          /\ registry' \in [Processes -> [Generations -> Tasks \union {None}]]
      <3>1. \/ Finish(t) /\ UNCHANGED registry
            \/ Goto(t, "cancel") /\ UNCHANGED registry
            \/ Attach(t, tasks[t].seen) \/ Abandon(t, tasks[t].seen, "stopped")
        BY <1>9 DEF RecordResult
      <3>2. CASE Finish(t) /\ UNCHANGED registry
        BY <1>0, <2>1, <3>2, FinishTyped DEF TypeInv, TypeOK
      <3>3. CASE Goto(t, "cancel") /\ UNCHANGED registry
        BY <2>1, <3>3, GotoTyped DEF Pcs, TypeInv, TypeOK
      <3>4. CASE Attach(t, tasks[t].seen) \/ Abandon(t, tasks[t].seen, "stopped")
        BY <1>0, <2>1, <3>4, AttachTyped
      <3> QED
        BY <3>1, <3>2, <3>3, <3>4
    <2> QED
      BY <1>9, <2>2, <2>3 DEF RecordResult, TypeInv, TypeOK
  <1>10. ASSUME NEW t \in Tasks, CancelLocally(t)
         PROVE  TypeInv'
    <2> DEFINE finished == [tasks EXCEPT ![t] = Over(tasks[t], "done")]
    <2>1. /\ tasks[t].pc = "cancel" /\ tasks[t].gen \in Generations /\ tasks[t].proc \in Processes
          /\ tasks[t] \in TaskType
      BY <1>10 DEF CancelLocally, TypeInv, Placed, TypeOK
    <2>2. /\ finished \in [Tasks -> TaskType]
          /\ \A u \in Tasks : /\ finished[u].pc # "idle" => tasks[u].pc # "idle"
                              /\ finished[u].pc \in {finished[u].pc, "done"}
                              /\ finished[u].pc = tasks[u].pc \/ finished[u].pc = "done"
                              /\ finished[u].proc = tasks[u].proc
                              /\ finished[u].gen = tasks[u].gen
                              /\ finished[u].key = tasks[u].key
      <3>1. "done" \in Pcs
        BY DEF Pcs
      <3>2. /\ Over(tasks[t], "done") \in TaskType /\ Over(tasks[t], "done").pc = "done"
            /\ Over(tasks[t], "done").proc = tasks[t].proc
            /\ Over(tasks[t], "done").gen = tasks[t].gen
            /\ Over(tasks[t], "done").key = tasks[t].key
        BY <2>1, <3>1, OverTask DEF Over, TaskType
      <3> QED
        BY <2>1, <3>2 DEF TypeInv, TypeOK
    <2>3. tasks' = finished \/ tasks' = Cancelled(tasks[t].proc, tasks[t].gen, finished)
      BY <1>10 DEF CancelLocally
    <2> HIDE DEF finished
    <2>4. /\ tasks' \in [Tasks -> TaskType]
          /\ \A u \in Tasks : /\ tasks'[u].pc = finished[u].pc
                              /\ tasks'[u].proc = finished[u].proc
                              /\ tasks'[u].gen = finished[u].gen
                              /\ tasks'[u].key = finished[u].key
      BY <2>1, <2>2, <2>3, CancelledTyped
    <2>5. Placed'
      BY <2>2, <2>4 DEF TypeInv, Placed
    <2> QED
      BY <1>10, <2>4, <2>5 DEF CancelLocally, TypeInv, TypeOK
  <1>11. ASSUME NEW p \in Processes, NEW g \in Generations, HandleStopSignal(p, g)
         PROVE  TypeInv'
    <2>1. tasks' = Cancelled(p, g, tasks) /\ tasks \in [Tasks -> TaskType]
      BY <1>11 DEF HandleStopSignal, TypeInv, TypeOK
    <2>2. /\ tasks' \in [Tasks -> TaskType]
          /\ \A t \in Tasks : /\ tasks'[t].pc = tasks[t].pc /\ tasks'[t].proc = tasks[t].proc
                              /\ tasks'[t].gen = tasks[t].gen /\ tasks'[t].key = tasks[t].key
      BY <2>1, CancelledTyped
    <2>3. Placed'
      BY <2>2, PlacedKept
    <2>4. signals' \subseteq Processes \X Generations
      BY <1>11 DEF HandleStopSignal, TypeInv, TypeOK
    <2> QED
      BY <1>11, <2>2, <2>3, <2>4 DEF HandleStopSignal, TypeInv, TypeOK
  <1>12. ASSUME NEW p \in Processes, NEW g \in Generations, ExpireEntry(p, g)
         PROVE  TypeInv'
    BY <1>12 DEF ExpireEntry, TypeInv, TypeOK, Placed
  <1>13. ASSUME NEW t \in Tasks, NEW p \in Processes, NEW g \in Generations, SendResume(t, p, g)
         PROVE  TypeInv'
    <2>1. rows[g] \in Snapshot
      BY DEF TypeInv, TypeOK
    <2> DEFINE task == [Idle EXCEPT !.pc = "reclaim", !.kind = "resume",
                                    !.proc = p, !.gen = g, !.seen = rows[g]]
    <2>2. task \in TaskType /\ task.proc = p /\ task.gen = g /\ task.pc = "reclaim"
      BY <2>1, IdleTask DEF TaskType, Pcs, Kinds
    <2>3. tasks' = [tasks EXCEPT ![t] = task]
      BY <1>13 DEF SendResume
    <2> HIDE DEF task
    <2>4. tasks' \in [Tasks -> TaskType] /\ Placed'
      BY <2>2, <2>3, TaskRewritten
    <2> QED
      BY <1>13, <2>4 DEF SendResume, TypeInv, TypeOK
  <1>14. ASSUME NEW t \in Tasks, Reclaim(t)
         PROVE  TypeInv'
    <2> DEFINE resumed == MarkResumedAfterApproval(Row(t), tasks[t].proc)
    <2>1. tasks[t].pc = "reclaim" /\ tasks[t].proc \in Processes
      BY <1>14 DEF Reclaim, TypeInv, Placed
    <2>2. Row(t) \in Snapshot
      BY <2>1, RowOfTask DEF TypeInv, Placed
    <2>3. resumed \in Snapshot
      BY <2>1, <2>2, ResumedRow DEF Snapshot
    <2>4. \/ FinishWith(t, "illegal") /\ UNCHANGED <<rows, registry>>
          \/ /\ Write(t, resumed)
             /\ \E i \in {"stopped", "failed"} : Attach(t, resumed) \/ Abandon(t, resumed, i)
      BY <1>14 DEF Reclaim
    <2> HIDE DEF resumed
    <2>5. CASE FinishWith(t, "illegal") /\ UNCHANGED <<rows, registry>>
      <3>1. tasks' \in [Tasks -> TaskType] /\ Placed'
        BY <2>1, <2>5, FinishTyped DEF Answers
      <3> QED
        BY <1>14, <2>5, <3>1 DEF Reclaim, TypeInv, TypeOK
    <2>6. CASE /\ Write(t, resumed)
               /\ \E i \in {"stopped", "failed"} : Attach(t, resumed) \/ Abandon(t, resumed, i)
      <3>1. rows' \in [Generations -> Snapshot]
        BY <2>1, <2>3, <2>6, RowWritten
      <3>2. /\ tasks' \in [Tasks -> TaskType] /\ Placed'
            /\ registry' \in [Processes -> [Generations -> Tasks \union {None}]]
        BY <1>0, <2>1, <2>3, <2>6, AttachTyped
      <3> QED
        BY <1>14, <3>1, <3>2 DEF Reclaim, TypeInv, TypeOK
    <2> QED
      BY <2>4, <2>5, <2>6
  <1>15. ASSUME NEW t \in Tasks, NEW intent \in Intents, EndStream(t, intent)
         PROVE  TypeInv'
    <2> DEFINE task == [tasks[t] EXCEPT !.pc = "settle", !.intent = intent]
    <2>1. tasks[t].pc = "streaming" /\ tasks[t] \in TaskType
      BY <1>15 DEF EndStream, TypeInv, TypeOK
    <2>2. /\ task \in TaskType /\ task.pc = "settle" /\ task.proc = tasks[t].proc
          /\ task.gen = tasks[t].gen /\ task.key = tasks[t].key
      BY <2>1 DEF TaskType, Pcs
    <2>3. tasks' = [tasks EXCEPT ![t] = task]
      BY <1>15 DEF EndStream, TypeInv, TypeOK
    <2> HIDE DEF task
    <2>4. tasks' \in [Tasks -> TaskType] /\ Placed'
      BY <2>1, <2>2, <2>3, TaskMoved
    <2> QED
      BY <1>15, <2>4 DEF EndStream, TypeInv, TypeOK
  <1>16. ASSUME NEW t \in Tasks, Release(t), tasks[t].pc # "idle"
         PROVE  registry' \in [Processes -> [Generations -> Tasks \union {None}]]
    BY <1>16 DEF Release, TypeInv, TypeOK, Placed
  <1>17. ASSUME NEW t \in Tasks, NEW roll \in 0..MaxRoll, tasks[t].pc # "idle"
         PROVE  Settled(Row(t), tasks[t].intent, roll) \in Snapshot
    <2>1. tasks[t].intent \in Intents /\ Row(t) \in Snapshot
      BY <1>17, RowOfTask DEF TypeInv, TypeOK, Placed, TaskType
    <2>2. roll \in Nat
      BY ConstantsAssumption
    <2> QED
      BY <2>1, <2>2, SettledTyped DEF Snapshot
  <1>18. ASSUME NEW t \in Tasks, Settle(t)
         PROVE  TypeInv'
    <2>1. tasks[t].pc = "settle"
      BY <1>18 DEF Settle
    <2>2. \/ /\ \E roll \in 0..MaxRoll : Write(t, Settled(Row(t), tasks[t].intent, roll))
             /\ Finish(t) /\ Release(t)
          \/ Goto(t, "reread") /\ UNCHANGED <<rows, registry>>
      BY <1>18 DEF Settle
    <2>3. CASE /\ \E roll \in 0..MaxRoll : Write(t, Settled(Row(t), tasks[t].intent, roll))
               /\ Finish(t) /\ Release(t)
      <3>1. rows' \in [Generations -> Snapshot]
        BY <1>17, <2>1, <2>3, RowWritten
      <3>2. tasks' \in [Tasks -> TaskType] /\ Placed'
        BY <1>0, <2>1, <2>3, FinishTyped
      <3> QED
        BY <1>16, <1>18, <2>1, <2>3, <3>1, <3>2 DEF Settle, TypeInv, TypeOK
    <2>4. CASE Goto(t, "reread") /\ UNCHANGED <<rows, registry>>
      <3>1. tasks' \in [Tasks -> TaskType] /\ Placed'
        BY <2>1, <2>4, GotoTyped DEF Pcs
      <3> QED
        BY <1>18, <2>4, <3>1 DEF Settle, TypeInv, TypeOK
    <2> QED
      BY <2>2, <2>3, <2>4
  <1>19. ASSUME NEW t \in Tasks, Reread(t)
         PROVE  TypeInv'
    <2>1. tasks[t].pc = "reread" /\ tasks[t] \in TaskType
      BY <1>19 DEF Reread, TypeInv, TypeOK
    <2> DEFINE ending == IF Row(t).status = "stop_requested" /\ tasks[t].intent # "failed"
                         THEN "stopped" ELSE tasks[t].intent
               task == [tasks[t] EXCEPT !.pc = "retry", !.seen = Row(t), !.intent = ending]
    <2>2. \/ Finish(t) /\ Release(t)
          \/ tasks' = [tasks EXCEPT ![t] = task] /\ UNCHANGED registry
      BY <1>19, <2>1 DEF Reread, TypeInv, TypeOK
    <2>3. Row(t) \in Snapshot
      BY <2>1, RowOfTask DEF TypeInv, Placed
    <2>4. ending \in Intents
      BY <1>0, <2>1 DEF TaskType
    <2> HIDE DEF ending
    <2>5. /\ task \in TaskType /\ task.pc = "retry" /\ task.proc = tasks[t].proc
          /\ task.gen = tasks[t].gen /\ task.key = tasks[t].key
      BY <2>1, <2>3, <2>4 DEF TaskType, Pcs
    <2> HIDE DEF task
    <2>6. tasks' \in [Tasks -> TaskType] /\ Placed'
      BY <1>0, <2>1, <2>2, <2>5, FinishTyped, TaskMoved
    <2>7. registry' \in [Processes -> [Generations -> Tasks \union {None}]]
      BY <1>16, <2>1, <2>2 DEF TypeInv, TypeOK
    <2> QED
      BY <1>19, <2>6, <2>7 DEF Reread, TypeInv, TypeOK
  <1>20. ASSUME NEW t \in Tasks, Retry(t)
         PROVE  TypeInv'
    <2>1. tasks[t].pc = "retry" /\ Finish(t) /\ Release(t)
      BY <1>20 DEF Retry
    <2>2. \/ \E roll \in 0..MaxRoll : Write(t, Settled(Row(t), tasks[t].intent, roll))
          \/ UNCHANGED rows
      BY <1>20 DEF Retry
    <2>3. rows' \in [Generations -> Snapshot]
      BY <1>17, <2>1, <2>2, RowWritten DEF TypeInv, TypeOK
    <2>4. tasks' \in [Tasks -> TaskType] /\ Placed'
      BY <1>0, <2>1, FinishTyped
    <2>5. registry' \in [Processes -> [Generations -> Tasks \union {None}]]
      BY <1>16, <2>1
    <2> QED
      BY <1>20, <2>3, <2>4, <2>5 DEF Retry, TypeInv, TypeOK
  <1>21. ASSUME NEW producers, FailActiveOf(producers)
         PROVE  rows' \in [Generations -> Snapshot]
    <2>1. \A g \in Generations : FailActive(rows[g]) \in Snapshot
      BY ReapedRow DEF Snapshot, TypeInv, TypeOK
    <2> QED
      BY <1>21, <2>1 DEF FailActiveOf, TypeInv, TypeOK
  <1>22. ASSUME NEW p \in Processes, Boot(p)
         PROVE  TypeInv'
    BY <1>22 DEF Boot, TypeInv, TypeOK, Placed
  <1>23. ASSUME NEW p \in Processes, ReclaimOrphans(p) \/ Shutdown(p)
         PROVE  TypeInv'
    <2>1. rows' \in [Generations -> Snapshot]
      BY <1>21, <1>23 DEF ReclaimOrphans, Shutdown
    <2> QED
      BY <1>23, <2>1 DEF ReclaimOrphans, Shutdown, TypeInv, TypeOK, Placed
  <1>24. ASSUME NEW p \in Processes, Exit(p)
         PROVE  TypeInv'
    <2>1. \A t \in Tasks : /\ Over(tasks[t], "dead") \in TaskType
                           /\ Over(tasks[t], "dead").proc = tasks[t].proc
                           /\ Over(tasks[t], "dead").gen = tasks[t].gen
                           /\ Over(tasks[t], "dead").pc = "dead"
      <3>1. "dead" \in Pcs
        BY DEF Pcs
      <3> QED
        BY <3>1, OverTask DEF Over, TypeInv, TypeOK, TaskType
    <2>2. \A t \in Tasks : tasks'[t] = tasks[t] \/ /\ tasks'[t] = Over(tasks[t], "dead")
                                                   /\ tasks[t].proc = p
      BY <1>24 DEF Exit
    <2>3. tasks' \in [Tasks -> TaskType]
      BY <1>24, <2>1 DEF Exit, TypeInv, TypeOK
    <2>4. p # None
      BY ConstantsAssumption
    <2>5. Placed'
      BY <2>1, <2>2, <2>4 DEF TypeInv, Placed
    <2> QED
      BY <1>24, <2>3, <2>5 DEF Exit, TypeInv, TypeOK
  <1>25. CASE UNCHANGED vars
    BY <1>25 DEF vars, TypeInv, TypeOK, Placed
  <1> QED
    BY <1>1, <1>2, <1>4, <1>5, <1>6, <1>7, <1>8, <1>9, <1>10, <1>11, <1>12, <1>13, <1>14,
       <1>15, <1>18, <1>19, <1>20, <1>22, <1>23, <1>24, <1>25
    DEF Next, Arrival, TaskStep, Delivery, ProcessStep

(* Every variable keeps its type in every reachable state, for any number   *)
(* of generations, processes, tasks and keys: no transition writes a status *)
(* outside the column's enum and no handler works without a row.            *)
THEOREM TypeCorrect == Spec => []TypeOK
  <1>1. TypeInv => TypeOK
    BY DEF TypeInv
  <1> QED
    BY <1>1, TypeInit, TypeNext, PTL DEF Spec

-----------------------------------------------------------------------------
(* Every write to a row is a step of its lifecycle.                         *)

(* A continuation id is on offer only on a row paused at its budget. *)
OffersAreOpen ==
    \A g \in Generations :
        rows[g].continuation # 0 => rows[g].status = "continuable" /\ rows[g].block = "none"

FreshRows ==
    \A g \in Generations : rows[g].status = "absent" => rows[g].epoch = 0 /\ rows[g].version = 0

(* A snapshot a command or a resume is about to fence on is the row as it   *)
(* was at its version: if the version still matches, so does all the rest.  *)
SnapshotsCurrent ==
    \A t \in Tasks :
        tasks[t].pc \in {"claim", "decide", "reclaim"} =>
            /\ tasks[t].seen.version <= Row(t).version
            /\ tasks[t].seen.version = Row(t).version => tasks[t].seen = Row(t)
            /\ tasks[t].pc = "reclaim" => tasks[t].seen.block = "tool_approval_required"

RowInv == TypeInv /\ OffersAreOpen /\ FreshRows /\ SnapshotsCurrent

(* The writes a step may make to the table, each from the statuses the      *)
(* code's WHERE clause allows. *)
Changes(g, row) == rows' = [rows EXCEPT ![g] = row]

Opens(g) == /\ rows[g].status = "absent" /\ IndexAdmits(g)
            /\ \E p \in Processes : Changes(g, Create(p))

Runs(g) == rows[g].status = "starting" /\ Changes(g, MarkRunning(rows[g]))

AsksToStop(g) == rows[g].status \in Stoppable /\ Changes(g, RequestWorkerStop(rows[g]))

Accepts(g) == rows[g].status = "continuable" /\ Changes(g, AcceptPartial(rows[g]))

Leases(g) == /\ rows[g].status = "continuable" /\ rows[g].block = "none" /\ IndexAdmits(g)
             /\ \E p \in Processes : Changes(g, LeaseEpoch(rows[g], p))

Resumes(g) == /\ rows[g].status = "continuable" /\ rows[g].block = "tool_approval_required"
              /\ IndexAdmits(g)
              /\ \E p \in Processes : Changes(g, MarkResumedAfterApproval(rows[g], p))

Settles(g) == \E i \in Intents, roll \in 0..MaxRoll :
                 /\ rows[g].status \in LegalFrom(i)
                 /\ Changes(g, Settled(rows[g], i, roll))

Reaps == \E producers \in SUBSET Processes : FailActiveOf(producers)

RowStep(g) == \/ Opens(g) \/ Runs(g) \/ AsksToStop(g) \/ Accepts(g)
              \/ Leases(g) \/ Resumes(g) \/ Settles(g)

(* No step of the specification writes the table in any other way. *)
LEMMA RowSteps ==
    ASSUME RowInv, [Next]_vars
    PROVE  UNCHANGED rows \/ Reaps \/ \E g \in Generations : RowStep(g)
  <1> USE DEF RowInv
  <1>a. ASSUME NEW t \in Tasks, tasks[t].pc # "idle"
        PROVE  /\ tasks[t].gen \in Generations /\ tasks[t].proc \in Processes
               /\ tasks[t] \in TaskType /\ rows[tasks[t].gen] = Row(t)
               /\ \A row : Write(t, row) <=> Changes(tasks[t].gen, row)
    BY <1>a DEF TypeInv, TypeOK, Placed, Row, Write, Changes
  <1>1. ASSUME NEW t \in Tasks, NEW p \in Processes, NEW g \in Generations, StartTurn(t, p, g)
        PROVE  RowStep(g)
    BY <1>1 DEF StartTurn, RowStep, Opens, Changes
  <1>2. ASSUME NEW t \in Tasks, EnterRunning(t)
        PROVE  UNCHANGED rows \/ RowStep(tasks[t].gen)
    <2>1. tasks[t].pc # "idle"
      BY <1>2 DEF EnterRunning
    <2>2. CASE Matches(Row(t), tasks[t].seen.version, {"starting"})
      BY <1>2, <1>a, <2>1, <2>2 DEF EnterRunning, Matches, RowStep, Runs
    <2>3. CASE ~Matches(Row(t), tasks[t].seen.version, {"starting"})
      <3>1. Write(t, Row(t))
        BY <1>2, <2>3 DEF EnterRunning
      <3> QED
        BY <3>1, <2>1, <1>a DEF Write, Row, TypeInv, TypeOK
    <2> QED
      BY <2>2, <2>3
  <1>3. ASSUME NEW t \in Tasks, DecideStop(t)
        PROVE  UNCHANGED rows \/ RowStep(tasks[t].gen)
    <2>1. tasks[t].pc # "idle"
      BY <1>3 DEF DecideStop
    <2>2. \/ UNCHANGED rows
          \/ Row(t).status = "continuable" /\ Write(t, AcceptPartial(Row(t)))
          \/ Row(t).status \in Stoppable /\ Write(t, RequestWorkerStop(Row(t)))
      BY <1>3 DEF DecideStop, Matches, Refuse
    <2> QED
      BY <1>a, <2>1, <2>2 DEF RowStep, Accepts, AsksToStop
  <1>4. ASSUME NEW t \in Tasks, Lease(t)
        PROVE  UNCHANGED rows \/ RowStep(tasks[t].gen)
    <2>1. tasks[t].pc = "decide"
      BY <1>4 DEF Lease
    <2>2. \/ UNCHANGED rows
          \/ /\ tasks[t].seen.continuation # 0 /\ Row(t).version = tasks[t].seen.version
             /\ IndexAdmits(tasks[t].gen)
             /\ Write(t, LeaseEpoch(Row(t), tasks[t].proc))
      BY <1>4 DEF Lease, Matches, Refuse
    <2>3. Row(t).version = tasks[t].seen.version => tasks[t].seen = Row(t)
      BY <2>1 DEF SnapshotsCurrent
    <2>4. rows[tasks[t].gen].continuation # 0 =>
            rows[tasks[t].gen].status = "continuable" /\ rows[tasks[t].gen].block = "none"
      BY <1>a, <2>1 DEF OffersAreOpen
    <2> QED
      BY <1>a, <2>1, <2>2, <2>3, <2>4 DEF RowStep, Leases
  <1>5. ASSUME NEW t \in Tasks, Reclaim(t)
        PROVE  UNCHANGED rows \/ RowStep(tasks[t].gen)
    <2>1. tasks[t].pc = "reclaim"
      BY <1>5 DEF Reclaim
    <2>2. \/ UNCHANGED rows
          \/ /\ Row(t).status = "continuable" /\ Row(t).version = tasks[t].seen.version
             /\ IndexAdmits(tasks[t].gen)
             /\ Write(t, MarkResumedAfterApproval(Row(t), tasks[t].proc))
      BY <1>5 DEF Reclaim, Matches
    <2>3. Row(t).version = tasks[t].seen.version => Row(t).block = "tool_approval_required"
      BY <2>1 DEF SnapshotsCurrent
    <2> QED
      BY <1>a, <2>1, <2>2, <2>3 DEF RowStep, Resumes
  <1>6. ASSUME NEW t \in Tasks, Settle(t) \/ Retry(t)
        PROVE  UNCHANGED rows \/ RowStep(tasks[t].gen)
    <2>1. tasks[t].pc # "idle"
      BY <1>6 DEF Settle, Retry
    <2>2. \/ UNCHANGED rows
          \/ /\ Row(t).status \in LegalFrom(tasks[t].intent)
             /\ \E roll \in 0..MaxRoll : Write(t, Settled(Row(t), tasks[t].intent, roll))
      BY <1>6 DEF Settle, Retry, Matches
    <2>3. tasks[t].intent \in Intents
      BY <1>a, <2>1 DEF TaskType
    <2> QED
      BY <1>a, <2>1, <2>2, <2>3 DEF RowStep, Settles
  <1>7. ASSUME NEW p \in Processes, ReclaimOrphans(p) \/ Shutdown(p)
        PROVE  Reaps
    <2>1. reap[p] \in SUBSET Processes /\ {p} \in SUBSET Processes
      BY DEF TypeInv, TypeOK
    <2> QED
      BY <1>7, <2>1 DEF ReclaimOrphans, Shutdown, Reaps
  <1>8. ASSUME NEW t \in Tasks, tasks[t].pc # "idle", RowStep(tasks[t].gen)
        PROVE  \E g \in Generations : RowStep(g)
    BY <1>8, <1>a
  <1>9. ASSUME NEW t \in Tasks, TaskStep(t)
        PROVE  UNCHANGED rows \/ \E g \in Generations : RowStep(g)
    <2>1. \/ EnterRunning(t) \/ DecideStop(t) \/ Lease(t) \/ Reclaim(t) \/ Settle(t) \/ Retry(t)
          \/ UNCHANGED rows
      BY <1>9 DEF TaskStep, ClaimCommand, PublishStop, RecordResult, CancelLocally, EndStream,
                  Reread
    <2>2. (EnterRunning(t) \/ DecideStop(t) \/ Lease(t) \/ Reclaim(t) \/ Settle(t) \/ Retry(t))
             => tasks[t].pc # "idle"
      BY DEF EnterRunning, DecideStop, Lease, Reclaim, Settle, Retry
    <2> QED
      BY <1>2, <1>3, <1>4, <1>5, <1>6, <1>8, <2>1, <2>2
  <1>10. ASSUME NEW t \in Tasks, NEW p \in Processes, NEW g \in Generations,
                \/ SendResume(t, p, g)
                \/ \E k \in Keys : SendStop(t, p, g, k) \/ SendContinue(t, p, g, k)
         PROVE  UNCHANGED rows
    BY <1>10 DEF SendResume, SendStop, SendContinue, SendCommand
  <1>11. ASSUME NEW p \in Processes, NEW g \in Generations,
                HandleStopSignal(p, g) \/ ExpireEntry(p, g)
         PROVE  UNCHANGED rows
    BY <1>11 DEF HandleStopSignal, ExpireEntry
  <1>12. ASSUME NEW p \in Processes, Boot(p) \/ Exit(p)
         PROVE  UNCHANGED rows
    BY <1>12 DEF Boot, Exit
  <1>13. CASE UNCHANGED vars
    BY <1>13 DEF vars
  <1> QED
    BY <1>1, <1>7, <1>9, <1>10, <1>11, <1>12, <1>13 DEF Next, Arrival, Delivery, ProcessStep

(* Every step that writes a row advances it. *)
LEMMA RowStepAdvances ==
    ASSUME RowInv, NEW g \in Generations, RowStep(g)
    PROVE  \E new : Changes(g, new) /\ Advances(rows[g], new)
  <1>0. rows[g] \in Snapshot /\ rows[g].version \in Nat
    BY DEF RowInv, TypeInv, TypeOK, Snapshot, RowType
  <1>a. rows[g].continuation # 0 => rows[g].status = "continuable" /\ rows[g].block = "none"
    BY DEF RowInv, OffersAreOpen
  <1>b. "continuable" \notin ActiveStatuses /\ "absent" \notin ActiveStatuses
    BY DEF ActiveStatuses
  <1>1. CASE Opens(g)
    <2>1. PICK p \in Processes : Changes(g, Create(p))
      BY <1>1 DEF Opens
    <2>2. Create(p).status = "starting" /\ Create(p).version = 1 /\ Create(p).continuation = 0
      BY CreatedRow
    <2>3. rows[g].version = 0
      BY <1>1 DEF Opens, RowInv, FreshRows
    <2> QED
      BY <2>1, <2>2, <2>3 DEF Advances
  <1>2. CASE Runs(g)
    <2>1. rows[g].status = "starting" /\ Changes(g, MarkRunning(rows[g]))
      BY <1>2 DEF Runs
    <2>2. /\ MarkRunning(rows[g]).status = "running"
          /\ MarkRunning(rows[g]).version = rows[g].version + 1
          /\ MarkRunning(rows[g]).continuation = rows[g].continuation
      BY <1>0, RunningRow DEF Snapshot
    <2> QED
      BY <1>a, <2>1, <2>2 DEF Advances
  <1>3. CASE AsksToStop(g)
    <2>1. rows[g].status \in ActiveStatuses /\ Changes(g, RequestWorkerStop(rows[g]))
      BY <1>3 DEF AsksToStop, Stoppable
    <2>2. /\ RequestWorkerStop(rows[g]).status = "stop_requested"
          /\ RequestWorkerStop(rows[g]).version = rows[g].version + 1
          /\ RequestWorkerStop(rows[g]).continuation = rows[g].continuation
      BY <1>0, StoppingRow DEF Snapshot
    <2> QED
      BY <1>a, <1>b, <2>1, <2>2 DEF Advances
  <1>4. CASE Accepts(g)
    <2>1. Changes(g, AcceptPartial(rows[g]))
      BY <1>4 DEF Accepts
    <2>2. /\ AcceptPartial(rows[g]).status = "completed_partial"
          /\ AcceptPartial(rows[g]).version = rows[g].version + 1
          /\ AcceptPartial(rows[g]).continuation = 0
      BY <1>0, AcceptedRow DEF Snapshot
    <2> QED
      BY <2>1, <2>2 DEF Advances
  <1>5. CASE Leases(g)
    <2>1. PICK p \in Processes : Changes(g, LeaseEpoch(rows[g], p))
      BY <1>5 DEF Leases
    <2>2. /\ LeaseEpoch(rows[g], p).status = "continuing"
          /\ LeaseEpoch(rows[g], p).version = rows[g].version + 1
          /\ LeaseEpoch(rows[g], p).continuation = 0
      BY <1>0, LeasedRow DEF Snapshot
    <2> QED
      BY <2>1, <2>2 DEF Advances
  <1>6. CASE Resumes(g)
    <2>1. PICK p \in Processes : Changes(g, MarkResumedAfterApproval(rows[g], p))
      BY <1>6 DEF Resumes
    <2>2. /\ MarkResumedAfterApproval(rows[g], p).status = "running"
          /\ MarkResumedAfterApproval(rows[g], p).version = rows[g].version + 1
          /\ MarkResumedAfterApproval(rows[g], p).continuation = rows[g].continuation
      BY <1>0, ResumedRow DEF Snapshot
    <2>3. rows[g].continuation = 0
      BY <1>6, <1>a DEF Resumes
    <2> QED
      BY <2>1, <2>2, <2>3 DEF Advances
  <1>7. CASE Settles(g)
    <2>1. PICK i \in Intents, roll \in 0..MaxRoll :
            rows[g].status \in LegalFrom(i) /\ Changes(g, Settled(rows[g], i, roll))
      BY <1>7 DEF Settles
    <2>2. roll \in Nat
      BY ConstantsAssumption
    <2>3. Advances(rows[g], Settled(rows[g], i, roll))
      BY <1>0, <2>1, <2>2, SettledRow DEF Snapshot
    <2> QED
      BY <2>1, <2>3
  <1> QED
    BY <1>1, <1>2, <1>3, <1>4, <1>5, <1>6, <1>7 DEF RowStep

(* The same of every row in every step. *)
LEMMA RowsAdvance ==
    ASSUME RowInv, [Next]_vars, NEW g \in Generations
    PROVE  Advances(rows[g], rows'[g])
  <1>1. CASE UNCHANGED rows
    BY <1>1 DEF Advances
  <1>2. CASE Reaps
    <2>1. rows'[g] = rows[g] \/ (IsActive(rows[g]) /\ rows'[g] = FailActive(rows[g]))
      BY <1>2 DEF Reaps, FailActiveOf
    <2>2. CASE IsActive(rows[g]) /\ rows'[g] = FailActive(rows[g])
      <3>1. rows[g] \in Snapshot
        BY DEF RowInv, TypeInv, TypeOK
      <3>2. /\ FailActive(rows[g]).status = "failed"
            /\ FailActive(rows[g]).version = rows[g].version + 1
            /\ FailActive(rows[g]).continuation = rows[g].continuation
        BY <3>1, ReapedRow DEF Snapshot
      <3>3. rows[g].continuation = 0
        BY <2>2 DEF RowInv, OffersAreOpen, IsActive, ActiveStatuses
      <3> QED
        BY <2>2, <3>2, <3>3 DEF Advances
    <2> QED
      BY <2>1, <2>2 DEF Advances
  <1>3. ASSUME NEW h \in Generations, RowStep(h)
        PROVE  Advances(rows[g], rows'[g])
    <2>1. PICK new : Changes(h, new) /\ Advances(rows[h], new)
      BY <1>3, RowStepAdvances
    <2> QED
      BY <2>1 DEF Changes, Advances, RowInv, TypeInv, TypeOK
  <1> QED
    BY <1>1, <1>2, <1>3, RowSteps

(* The task still holds the snapshot it held. *)
Holds(t) ==
    /\ tasks'[t].seen = tasks[t].seen /\ tasks'[t].gen = tasks[t].gen
    /\ tasks[t].pc \in {"claim", "decide", "reclaim"}
    /\ tasks'[t].pc = "reclaim" <=> tasks[t].pc = "reclaim"

(* The task has just read the row, and nothing was written meanwhile. *)
HasRead(t) ==
    /\ UNCHANGED rows
    /\ tasks'[t].gen \in Generations /\ tasks'[t].seen = rows[tasks'[t].gen]
    /\ tasks'[t].pc = "reclaim" => tasks'[t].seen.block = "tool_approval_required"

(* Cancelling moves no task and touches no snapshot. *)
LEMMA CancelKeeps ==
    ASSUME TypeInv, NEW p \in Processes, NEW g \in Generations, NEW ts \in [Tasks -> TaskType],
           NEW t \in Tasks
    PROVE  /\ Cancelled(p, g, ts)[t].pc = ts[t].pc
           /\ Cancelled(p, g, ts)[t].gen = ts[t].gen
           /\ Cancelled(p, g, ts)[t].seen = ts[t].seen
  <1>1. CASE registry[p][g] = None
    BY <1>1 DEF Cancelled
  <1>2. CASE registry[p][g] # None
    <2> DEFINE u == registry[p][g]
               task == [ts[u] EXCEPT !.cancelled = TRUE]
    <2>1. u \in Tasks
      BY <1>2 DEF TypeInv, TypeOK
    <2>2. Cancelled(p, g, ts) = [ts EXCEPT ![u] = task]
      BY <1>2 DEF Cancelled
    <2> HIDE DEF u
    <2>3. task.pc = ts[u].pc /\ task.gen = ts[u].gen /\ task.seen = ts[u].seen
      BY <2>1 DEF TaskType
    <2> HIDE DEF task
    <2> QED
      BY <2>1, <2>2, <2>3
  <1> QED
    BY <1>1, <1>2

(* The task goes on to a step that fences on no earlier snapshot. *)
MovesOn(u) ==
    /\ \A v \in Tasks \ {u} : tasks'[v] = tasks[v]
    /\ tasks'[u].pc \notin {"claim", "decide", "reclaim"}

(* The ways a task leaves the points at which it holds a snapshot. *)
LEMMA MovingOn ==
    ASSUME TypeInv, NEW u \in Tasks
    PROVE  /\ \A pc \in Pcs \ {"claim", "decide", "reclaim"} : Goto(u, pc) => MovesOn(u)
           /\ \A pc \in Pcs \ {"claim", "decide", "reclaim"} :
                 \A answer : Answered(u, answer, pc) => MovesOn(u)
           /\ Finish(u) => MovesOn(u)
           /\ \A answer : FinishWith(u, answer) => MovesOn(u)
           /\ \A snapshot : Attach(u, snapshot) => MovesOn(u)
           /\ \A snapshot, i : Abandon(u, snapshot, i) => MovesOn(u)
  <1>0. tasks \in [Tasks -> TaskType]
    BY DEF TypeInv, TypeOK
  <1>1. ASSUME NEW pc \in Pcs \ {"claim", "decide", "reclaim"}, Goto(u, pc)
        PROVE  MovesOn(u)
    BY <1>0, <1>1 DEF Goto, MovesOn, TaskType
  <1>2. ASSUME NEW pc \in Pcs \ {"claim", "decide", "reclaim"}, NEW answer, Answered(u, answer, pc)
        PROVE  MovesOn(u)
    BY <1>0, <1>2 DEF Answered, MovesOn, TaskType
  <1>3. Over(tasks[u], "done").pc = "done"
    BY <1>0 DEF Over, TaskType
  <1>4. ASSUME Finish(u)
        PROVE  MovesOn(u)
    BY <1>0, <1>3, <1>4 DEF Finish, MovesOn
  <1>5. ASSUME NEW answer, FinishWith(u, answer)
        PROVE  MovesOn(u)
    <2>1. [Over(tasks[u], "done") EXCEPT !.answer = answer].pc = "done"
      BY <1>0 DEF Over, TaskType
    <2> QED
      BY <1>0, <1>5, <2>1 DEF FinishWith, MovesOn
  <1>6. ASSUME NEW snapshot, Attach(u, snapshot)
        PROVE  MovesOn(u)
    BY <1>0, <1>6 DEF Attach, MovesOn, TaskType
  <1>7. ASSUME NEW snapshot, NEW i, Abandon(u, snapshot, i)
        PROVE  MovesOn(u)
    BY <1>0, <1>7 DEF Abandon, MovesOn, TaskType
  <1> QED
    BY <1>1, <1>2, <1>4, <1>5, <1>6, <1>7

(* A task that still holds a snapshot after a step held it before or has just read it. *)
LEMMA SnapshotsKept ==
    ASSUME RowInv, [Next]_vars, NEW t \in Tasks,
           tasks'[t].pc \in {"claim", "decide", "reclaim"}
    PROVE  Holds(t) \/ HasRead(t)
  <1> USE DEF RowInv
  <1>0. tasks \in [Tasks -> TaskType] /\ \A g \in Generations : rows[g] \in Snapshot
    BY DEF TypeInv, TypeOK
  <1>1. ASSUME tasks'[t] = tasks[t]
        PROVE  Holds(t)
    BY <1>1 DEF Holds
  <1>2. ASSUME NEW u \in Tasks, NEW p \in Processes, NEW g \in Generations, StartTurn(u, p, g)
        PROVE  Holds(t)
    <2>1. CASE t = u
      BY <1>0, <1>2, <2>1, IdleTask DEF StartTurn, TaskType
    <2> QED
      BY <1>0, <1>1, <1>2, <2>1 DEF StartTurn
  <1>3. ASSUME NEW u \in Tasks, NEW p \in Processes, NEW g \in Generations,
               NEW kind, NEW k, NEW fence, NEW cont,
               SendCommand(u, p, g, kind, k, fence, cont)
        PROVE  Holds(t) \/ HasRead(t)
    <2>1. CASE t = u
      BY <1>0, <1>3, <2>1 DEF SendCommand, HasRead, Idle
    <2> QED
      BY <1>0, <1>1, <1>3, <2>1 DEF SendCommand
  <1>4. ASSUME NEW u \in Tasks, NEW p \in Processes, NEW g \in Generations, SendResume(u, p, g)
        PROVE  Holds(t) \/ HasRead(t)
    <2>1. CASE t = u
      BY <1>0, <1>4, <2>1 DEF SendResume, HasRead, Idle
    <2> QED
      BY <1>0, <1>1, <1>4, <2>1 DEF SendResume
  <1>5. ASSUME NEW u \in Tasks,
               \/ EnterRunning(u) \/ DecideStop(u) \/ PublishStop(u) \/ Lease(u)
               \/ RecordResult(u) \/ Reclaim(u) \/ Settle(u) \/ Reread(u) \/ Retry(u)
               \/ \E i \in Intents : EndStream(u, i)
        PROVE  MovesOn(u)
    <2>1. CASE EnterRunning(u)
      BY <2>1, MovingOn DEF EnterRunning
    <2>2. CASE DecideStop(u)
      BY <2>2, MovingOn DEF DecideStop, Refuse, Pcs
    <2>3. CASE PublishStop(u)
      BY <2>3, MovingOn DEF PublishStop, Pcs
    <2>4. CASE Lease(u)
      <3>1. \/ \E answer \in {"stale", "unavailable"} : Answered(u, answer, "record")
            \/ FinishWith(u, "error")
            \/ tasks' = [tasks EXCEPT
                  ![u].answer = "leased", ![u].pc = "record",
                  ![u].seen = LeaseEpoch(Row(u), tasks[u].proc),
                  ![u].leased = LeaseEpoch(Row(u), tasks[u].proc).epoch]
        BY <2>4 DEF Lease, Refuse
      <3> HIDE DEF LeaseEpoch
      <3>2. CASE tasks' = [tasks EXCEPT
                  ![u].answer = "leased", ![u].pc = "record",
                  ![u].seen = LeaseEpoch(Row(u), tasks[u].proc),
                  ![u].leased = LeaseEpoch(Row(u), tasks[u].proc).epoch]
        BY <1>0, <3>2 DEF MovesOn, TaskType
      <3> QED
        BY <3>1, <3>2, MovingOn DEF Pcs
    <2>5. CASE RecordResult(u)
      BY <2>5, MovingOn DEF RecordResult, Pcs
    <2>6. CASE Reclaim(u)
      BY <2>6, MovingOn DEF Reclaim
    <2>7. CASE Settle(u)
      BY <2>7, MovingOn DEF Settle, Pcs
    <2>8. CASE Reread(u)
      <3>1. CASE Finish(u)
        BY <3>1, MovingOn
      <3>2. CASE ~Finish(u)
        BY <1>0, <2>8, <3>2 DEF Reread, MovesOn, TaskType
      <3> QED
        BY <3>1, <3>2
    <2>9. CASE Retry(u)
      BY <2>9, MovingOn DEF Retry
    <2>10. CASE \E i \in Intents : EndStream(u, i)
      BY <1>0, <2>10 DEF EndStream, MovesOn, TaskType
    <2> QED
      BY <1>5, <2>1, <2>2, <2>3, <2>4, <2>5, <2>6, <2>7, <2>8, <2>9, <2>10
  <1>6. ASSUME NEW u \in Tasks, MovesOn(u)
        PROVE  Holds(t)
    BY <1>1, <1>6 DEF MovesOn
  <1>7. ASSUME NEW u \in Tasks, ClaimCommand(u)
        PROVE  Holds(t)
    <2>1. CASE Goto(u, "decide")
      BY <1>0, <1>7, <2>1 DEF ClaimCommand, Goto, Holds, TaskType
    <2>2. CASE ~Goto(u, "decide")
      <3>1. Answered(u, Replayed(u), "cancel") \/ FinishWith(u, Replayed(u))
        BY <1>7, <2>2 DEF ClaimCommand
      <3>2. MovesOn(u)
        BY <3>1, MovingOn DEF Pcs
      <3> QED
        BY <1>6, <3>2
    <2> QED
      BY <2>1, <2>2
  <1>8. ASSUME NEW u \in Tasks, CancelLocally(u)
        PROVE  Holds(t)
    <2> DEFINE finished == [tasks EXCEPT ![u] = Over(tasks[u], "done")]
    <2>1. tasks[u].proc \in Processes /\ tasks[u].gen \in Generations
      BY <1>8 DEF CancelLocally, TypeInv, Placed
    <2>2. Over(tasks[u], "done") \in TaskType /\ Over(tasks[u], "done").pc = "done"
      <3>1. "done" \in Pcs
        BY DEF Pcs
      <3>2. Over(tasks[u], "done") \in TaskType
        BY <1>0, <3>1, OverTask
      <3> QED
        BY <1>0, <3>2 DEF Over, TaskType
    <2>3. finished \in [Tasks -> TaskType]
      BY <1>0, <2>2
    <2>4. tasks' = finished \/ tasks' = Cancelled(tasks[u].proc, tasks[u].gen, finished)
      BY <1>8 DEF CancelLocally
    <2>5. t # u => finished[t] = tasks[t]
      BY <1>0
    <2>6. t = u => finished[t].pc = "done"
      BY <1>0, <2>2
    <2> HIDE DEF finished
    <2>7. /\ tasks'[t].pc = finished[t].pc /\ tasks'[t].gen = finished[t].gen
          /\ tasks'[t].seen = finished[t].seen
      BY <2>1, <2>3, <2>4, CancelKeeps
    <2> QED
      BY <2>5, <2>6, <2>7 DEF Holds
  <1>9. ASSUME NEW p \in Processes, NEW g \in Generations, HandleStopSignal(p, g)
        PROVE  Holds(t)
    <2>1. tasks' = Cancelled(p, g, tasks)
      BY <1>9 DEF HandleStopSignal
    <2>2. /\ tasks'[t].pc = tasks[t].pc /\ tasks'[t].gen = tasks[t].gen
          /\ tasks'[t].seen = tasks[t].seen
      BY <1>0, <2>1, CancelKeeps
    <2> QED
      BY <2>2 DEF Holds
  <1>10. ASSUME NEW p \in Processes, Exit(p)
         PROVE  Holds(t)
    <2>1. tasks'[t] = tasks[t] \/ tasks'[t] = Over(tasks[t], "dead")
      BY <1>10 DEF Exit
    <2>2. Over(tasks[t], "dead").pc = "dead"
      BY <1>0 DEF Over, TaskType
    <2> QED
      BY <1>1, <2>1, <2>2
  <1>11. ASSUME NEW p \in Processes, NEW g \in Generations,
                ExpireEntry(p, g) \/ Boot(p) \/ ReclaimOrphans(p) \/ Shutdown(p)
         PROVE  Holds(t)
    BY <1>1, <1>11 DEF ExpireEntry, Boot, ReclaimOrphans, Shutdown
  <1>12. CASE UNCHANGED vars
    BY <1>1, <1>12 DEF vars
  <1>13. ASSUME NEW u \in Tasks, TaskStep(u)
         PROVE  Holds(t)
    BY <1>5, <1>6, <1>7, <1>8, <1>13 DEF TaskStep
  <1>14. CASE Arrival
    BY <1>2, <1>3, <1>4, <1>14 DEF Arrival, SendStop, SendContinue
  <1>15. CASE Delivery
    BY <1>9, <1>11, <1>15 DEF Delivery
  <1>16. CASE ProcessStep
    <2>1. PICK p \in Processes : Boot(p) \/ ReclaimOrphans(p) \/ Shutdown(p) \/ Exit(p)
      BY <1>16 DEF ProcessStep
    <2>2. CASE Boot(p) \/ ReclaimOrphans(p) \/ Shutdown(p)
      BY <1>1, <2>2 DEF Boot, ReclaimOrphans, Shutdown
    <2> QED
      BY <1>10, <2>1, <2>2
  <1> QED
    BY <1>12, <1>13, <1>14, <1>15, <1>16 DEF Next

(* Every step keeps RowInv. *)
LEMMA RowInvNext == RowInv /\ [Next]_vars => RowInv'
  <1> SUFFICES ASSUME RowInv, [Next]_vars PROVE RowInv'
    OBVIOUS
  <1>1. TypeInv'
    BY TypeNext DEF RowInv
  <1>2. \A g \in Generations : Advances(rows[g], rows'[g])
    BY RowsAdvance
  <1>3. OffersAreOpen'
    BY <1>2 DEF RowInv, OffersAreOpen, Advances
  <1>4. FreshRows'
    BY <1>2 DEF RowInv, FreshRows, Advances
  <1>5. SnapshotsCurrent'
    <2> SUFFICES ASSUME NEW t \in Tasks, tasks'[t].pc \in {"claim", "decide", "reclaim"}
                 PROVE  /\ tasks'[t].seen.version <= rows'[tasks'[t].gen].version
                        /\ tasks'[t].seen.version = rows'[tasks'[t].gen].version =>
                             tasks'[t].seen = rows'[tasks'[t].gen]
                        /\ tasks'[t].pc = "reclaim" =>
                             tasks'[t].seen.block = "tool_approval_required"
      BY DEF SnapshotsCurrent, Row
    <2>1. CASE Holds(t)
      <3>1. /\ tasks[t].gen \in Generations /\ rows[tasks[t].gen].version \in Nat
            /\ tasks[t].seen.version \in Nat
        BY <2>1 DEF Holds, RowInv, TypeInv, TypeOK, Placed, Snapshot, RowType, TaskType
      <3>2. /\ tasks[t].seen.version <= rows[tasks[t].gen].version
            /\ tasks[t].seen.version = rows[tasks[t].gen].version =>
                 tasks[t].seen = rows[tasks[t].gen]
            /\ tasks[t].pc = "reclaim" => tasks[t].seen.block = "tool_approval_required"
        BY <2>1 DEF Holds, RowInv, SnapshotsCurrent, Row
      <3>3. \/ rows'[tasks[t].gen] = rows[tasks[t].gen]
            \/ rows'[tasks[t].gen].version = rows[tasks[t].gen].version + 1
        BY <1>2, <3>1 DEF Advances
      <3> QED
        BY <2>1, <3>1, <3>2, <3>3 DEF Holds
    <2>2. CASE HasRead(t)
      <3>1. tasks'[t].seen = rows'[tasks'[t].gen] /\ rows'[tasks'[t].gen].version \in Nat
        BY <2>2 DEF HasRead, RowInv, TypeInv, TypeOK, Snapshot, RowType
      <3> QED
        BY <2>2, <3>1 DEF HasRead
    <2> QED
      BY <2>1, <2>2, SnapshotsKept
  <1> QED
    BY <1>1, <1>3, <1>4, <1>5 DEF RowInv

(* RowInv holds initially. *)
LEMMA RowInvInit == Init => RowInv
  <1> SUFFICES ASSUME Init PROVE RowInv
    OBVIOUS
  <1>1. TypeInv
    BY TypeInit
  <1>2. OffersAreOpen /\ FreshRows
    BY DEF Init, OffersAreOpen, FreshRows, NoRow
  <1>3. SnapshotsCurrent
    BY DEF Init, SnapshotsCurrent, Idle
  <1> QED
    BY <1>1, <1>2, <1>3 DEF RowInv

(* The refinement mapping, by status. *)
LEMMA Phases ==
    ASSUME NEW row \in Snapshot
    PROVE  /\ row.status = "absent" => PhaseOf(row) = "none"
           /\ row.status = "stop_requested" => PhaseOf(row) = "stopping"
           /\ row.status \in ActiveStatuses \ {"stop_requested"} => PhaseOf(row) = "live"
           /\ row.status \in TerminalStatuses => PhaseOf(row) = "ended"
           /\ row.status = "continuable" =>
                PhaseOf(row) = IF row.block = "none" THEN "offered"
                               ELSE IF row.block = "tool_approval_required" THEN "asking"
                               ELSE "blocked"
           /\ PhaseOf(row) \in {"live", "stopping"} <=> IsActive(row)
  <1>0. /\ row.status \in ActiveStatuses \union TerminalStatuses \union {"continuable", "absent"}
        /\ row.block \in {"none", "mutation_outcome_unknown", "tool_approval_required"}
    BY DEF Snapshot, RowType, RowStatus, GenerationStatus, BlockReason
  <1>1. CASE row.status = "absent"
    <2>1. /\ row.status # "stop_requested" /\ row.status # "continuable"
          /\ row.status \notin ActiveStatuses /\ row.status \notin TerminalStatuses
      BY <1>1 DEF ActiveStatuses, TerminalStatuses
    <2>2. PhaseOf(row) = "none"
      BY <1>1, <2>1 DEF PhaseOf, IsActive
    <2> QED
      BY <1>1, <2>1, <2>2 DEF IsActive
  <1>2. CASE row.status = "stop_requested"
    <2>1. /\ row.status # "absent" /\ row.status # "continuable"
          /\ row.status \in ActiveStatuses /\ row.status \notin TerminalStatuses
      BY <1>2 DEF ActiveStatuses, TerminalStatuses
    <2>2. PhaseOf(row) = "stopping"
      BY <1>2, <2>1 DEF PhaseOf, IsActive
    <2> QED
      BY <1>2, <2>1, <2>2 DEF IsActive
  <1>3. CASE row.status \in ActiveStatuses \ {"stop_requested"}
    <2>1. /\ row.status # "absent" /\ row.status # "stop_requested"
          /\ row.status # "continuable" /\ row.status \notin TerminalStatuses
      BY <1>3 DEF ActiveStatuses, TerminalStatuses
    <2>2. PhaseOf(row) = "live"
      BY <1>3, <2>1 DEF PhaseOf, IsActive
    <2> QED
      BY <1>3, <2>1, <2>2 DEF IsActive
  <1>4. CASE row.status \in TerminalStatuses
    <2>1. /\ row.status # "absent" /\ row.status # "stop_requested"
          /\ row.status # "continuable" /\ row.status \notin ActiveStatuses
      BY <1>4 DEF ActiveStatuses, TerminalStatuses
    <2>2. PhaseOf(row) = "ended"
      BY <1>4, <2>1 DEF PhaseOf, IsActive
    <2> QED
      BY <1>4, <2>1, <2>2 DEF IsActive
  <1>5. CASE row.status = "continuable"
    <2>1. /\ row.status # "absent" /\ row.status # "stop_requested"
          /\ row.status \notin ActiveStatuses /\ row.status \notin TerminalStatuses
      BY <1>5 DEF ActiveStatuses, TerminalStatuses
    <2>2. PhaseOf(row) = IF row.block = "none" THEN "offered"
                         ELSE IF row.block = "tool_approval_required" THEN "asking"
                         ELSE "blocked"
      BY <1>0, <2>1 DEF PhaseOf, IsActive
    <2> QED
      BY <1>5, <2>1, <2>2 DEF IsActive
  <1> QED
    BY <1>0, <1>1, <1>2, <1>3, <1>4, <1>5

PhaseMap == [g \in Generations |-> PhaseOf(rows[g])]
EpochMap == [g \in Generations |-> rows[g].epoch]

(* One row's write changes one phase and one epoch. *)
LEMMA MapChanges ==
    ASSUME TypeInv, NEW g \in Generations, NEW new, Changes(g, new)
    PROVE  /\ PhaseMap' = [PhaseMap EXCEPT ![g] = PhaseOf(new)]
           /\ EpochMap' = [EpochMap EXCEPT ![g] = new.epoch]
           /\ PhaseMap[g] = PhaseOf(rows[g]) /\ EpochMap[g] = rows[g].epoch
  BY DEF PhaseMap, EpochMap, Changes, TypeInv, TypeOK

(* What the lifecycle calls a change of phase, read off the mapping. *)
LEMMA Becomes ==
    ASSUME NEW g \in Generations, NEW from, NEW to,
           PhaseMap[g] \in from, PhaseMap' = [PhaseMap EXCEPT ![g] = to]
    PROVE  Lifecycle!Become(g, from, to)
  BY DEF Lifecycle!Become, PhaseMap

(* A row's write that keeps its epoch keeps them all. *)
LEMMA EpochsKept ==
    ASSUME TypeInv, NEW g \in Generations, NEW new, Changes(g, new), new.epoch = rows[g].epoch
    PROVE  EpochMap' = EpochMap
  BY DEF EpochMap, Changes, TypeInv, TypeOK

(* A row the unique index admits is free to start in the abstract lifecycle. *)
LEMMA FreeWhenAdmitted ==
    ASSUME TypeInv, NEW g \in Generations, IndexAdmits(g)
    PROVE  Lifecycle!Free(g)
  <1> SUFFICES ASSUME NEW h \in Generations \ {g}, ConversationOf[h] = ConversationOf[g]
               PROVE  ~Lifecycle!Busy(h)
    BY DEF Lifecycle!Free
  <1>1. ~IsActive(rows[h]) /\ rows[h] \in Snapshot
    BY DEF IndexAdmits, TypeInv, TypeOK
  <1> QED
    BY <1>1, Phases DEF Lifecycle!Busy

(* A step that writes a row is a step of the abstract lifecycle, or a stutter. *)
LEMMA RowStepRefines ==
    ASSUME RowInv, NEW g \in Generations, RowStep(g)
    PROVE  Lifecycle!Next \/ UNCHANGED <<PhaseMap, EpochMap>>
  <1>0. TypeInv /\ rows[g] \in Snapshot /\ rows[g].epoch \in Nat
    BY DEF RowInv, TypeInv, TypeOK, Snapshot, RowType
  <1>a. ASSUME NEW new, Changes(g, new), PhaseOf(new) = PhaseOf(rows[g]), new.epoch = rows[g].epoch
        PROVE  UNCHANGED <<PhaseMap, EpochMap>>
    <2>1. EpochMap' = EpochMap
      BY <1>0, <1>a, EpochsKept
    <2>2. \A h \in Generations : PhaseOf(rows'[h]) = PhaseOf(rows[h])
      BY <1>0, <1>a DEF Changes, TypeInv, TypeOK
    <2>3. PhaseMap' = PhaseMap
      BY <2>2 DEF PhaseMap
    <2> QED
      BY <2>1, <2>3
  <1>b. ASSUME NEW new, Changes(g, new), PhaseOf(rows[g]) \notin {"none", "ended"},
               PhaseOf(new) = "ended", new.epoch = rows[g].epoch
        PROVE  Lifecycle!Next
    <2>1. EpochMap' = EpochMap
      BY <1>0, <1>b, EpochsKept
    <2>2. \A h \in Generations : PhaseOf(rows'[h]) = IF h \in {g} THEN "ended" ELSE PhaseOf(rows[h])
      BY <1>0, <1>b DEF Changes, TypeInv, TypeOK
    <2>3. \A h \in {g} : PhaseOf(rows[h]) \notin {"none", "ended"}
      BY <1>b
    <2>4. Lifecycle!End({g})
      BY <2>1, <2>2, <2>3 DEF Lifecycle!End, EpochMap
    <2> QED
      BY <2>4 DEF Lifecycle!Next
  <1>c. ASSUME NEW new, Changes(g, new)
        PROVE  /\ PhaseMap' = [PhaseMap EXCEPT ![g] = PhaseOf(new)]
               /\ EpochMap' = [EpochMap EXCEPT ![g] = new.epoch]
               /\ PhaseMap[g] = PhaseOf(rows[g]) /\ EpochMap[g] = rows[g].epoch
    BY <1>0, <1>c, MapChanges
  <1>1. CASE Opens(g)
    <2>1. PICK p \in Processes : Changes(g, Create(p))
      BY <1>1 DEF Opens
    <2>2. Create(p) \in Snapshot /\ Create(p).status = "starting" /\ Create(p).epoch = 0
      BY CreatedRow DEF Snapshot
    <2>3. PhaseOf(Create(p)) = "live" /\ PhaseOf(rows[g]) = "none" /\ rows[g].epoch = 0
      BY <1>0, <1>1, <2>2, Phases DEF Opens, ActiveStatuses, RowInv, FreshRows
    <2>4. Lifecycle!Open(g)
      <3>1. Lifecycle!Become(g, {"none"}, "live")
        BY <1>c, <2>1, <2>3, Becomes
      <3>2. EpochMap' = EpochMap
        BY <1>0, <2>1, <2>2, <2>3, EpochsKept
      <3>3. Lifecycle!Free(g)
        BY <1>0, <1>1, FreeWhenAdmitted DEF Opens
      <3> QED
        BY <3>1, <3>2, <3>3 DEF Lifecycle!Open, EpochMap
    <2> QED
      BY <2>4 DEF Lifecycle!Next
  <1>2. CASE Runs(g)
    <2> DEFINE new == MarkRunning(rows[g])
    <2>1. new \in Snapshot /\ new.status = "running" /\ new.epoch = rows[g].epoch /\ Changes(g, new)
      BY <1>0, <1>2, RunningRow DEF Snapshot, Runs
    <2> HIDE DEF new
    <2>2. PhaseOf(new) = "live" /\ PhaseOf(rows[g]) = "live"
      BY <1>0, <1>2, <2>1, Phases DEF Runs, ActiveStatuses
    <2> QED
      BY <1>a, <2>1, <2>2
  <1>3. CASE AsksToStop(g)
    <2> DEFINE new == RequestWorkerStop(rows[g])
    <2>1. /\ new \in Snapshot /\ new.status = "stop_requested" /\ new.epoch = rows[g].epoch
          /\ Changes(g, new)
      BY <1>0, <1>3, StoppingRow DEF Snapshot, AsksToStop
    <2> HIDE DEF new
    <2>2. PhaseOf(new) = "stopping" /\ PhaseOf(rows[g]) \in {"live", "stopping"}
      BY <1>0, <1>3, <2>1, Phases DEF AsksToStop, Stoppable, IsActive
    <2>3. CASE PhaseOf(rows[g]) = "stopping"
      BY <1>a, <2>1, <2>2, <2>3
    <2>4. CASE PhaseOf(rows[g]) = "live"
      <3>1. Lifecycle!AskToStop(g)
        <4>1. Lifecycle!Become(g, {"live"}, "stopping")
          BY <1>c, <2>1, <2>2, <2>4, Becomes
        <4>2. EpochMap' = EpochMap
          BY <1>0, <2>1, EpochsKept
        <4> QED
          BY <4>1, <4>2 DEF Lifecycle!AskToStop, EpochMap
      <3> QED
        BY <3>1 DEF Lifecycle!Next
    <2> QED
      BY <2>2, <2>3, <2>4
  <1>4. CASE Accepts(g)
    <2> DEFINE new == AcceptPartial(rows[g])
    <2>1. /\ new \in Snapshot /\ new.status = "completed_partial" /\ new.epoch = rows[g].epoch
          /\ Changes(g, new)
      BY <1>0, <1>4, AcceptedRow DEF Snapshot, Accepts
    <2> HIDE DEF new
    <2>2. PhaseOf(new) = "ended" /\ PhaseOf(rows[g]) \notin {"none", "ended"}
      BY <1>0, <1>4, <2>1, Phases DEF Accepts, TerminalStatuses
    <2> QED
      BY <1>b, <2>1, <2>2
  <1>5. CASE Leases(g)
    <2>1. PICK p \in Processes : Changes(g, LeaseEpoch(rows[g], p))
      BY <1>5 DEF Leases
    <2> DEFINE new == LeaseEpoch(rows[g], p)
    <2>2. new \in Snapshot /\ new.status = "continuing" /\ new.epoch = rows[g].epoch + 1
      BY <1>0, LeasedRow DEF Snapshot
    <2>3. Changes(g, new)
      BY <2>1
    <2> HIDE DEF new
    <2>4. PhaseOf(new) = "live" /\ PhaseOf(rows[g]) = "offered"
      BY <1>0, <1>5, <2>2, Phases DEF Leases, ActiveStatuses
    <2>5. Lifecycle!Continue(g)
      <3>1. Lifecycle!Become(g, {"offered"}, "live")
        BY <1>c, <2>3, <2>4, Becomes
      <3>2. EpochMap' = [EpochMap EXCEPT ![g] = @ + 1]
        BY <1>c, <2>2, <2>3
      <3>3. Lifecycle!Free(g)
        BY <1>0, <1>5, FreeWhenAdmitted DEF Leases
      <3> QED
        BY <3>1, <3>2, <3>3 DEF Lifecycle!Continue, EpochMap
    <2> QED
      BY <2>5 DEF Lifecycle!Next
  <1>6. CASE Resumes(g)
    <2>1. PICK p \in Processes : Changes(g, MarkResumedAfterApproval(rows[g], p))
      BY <1>6 DEF Resumes
    <2> DEFINE new == MarkResumedAfterApproval(rows[g], p)
    <2>2. new \in Snapshot /\ new.status = "running" /\ new.epoch = rows[g].epoch
      BY <1>0, ResumedRow DEF Snapshot
    <2>3. Changes(g, new)
      BY <2>1
    <2> HIDE DEF new
    <2>4. PhaseOf(new) = "live" /\ PhaseOf(rows[g]) = "asking"
      BY <1>0, <1>6, <2>2, Phases DEF Resumes, ActiveStatuses
    <2>5. Lifecycle!ResumeApproved(g)
      <3>1. Lifecycle!Become(g, {"asking"}, "live")
        BY <1>c, <2>3, <2>4, Becomes
      <3>2. EpochMap' = EpochMap
        BY <1>0, <2>2, <2>3, EpochsKept
      <3>3. Lifecycle!Free(g)
        BY <1>0, <1>6, FreeWhenAdmitted DEF Resumes
      <3> QED
        BY <3>1, <3>2, <3>3 DEF Lifecycle!ResumeApproved, EpochMap
    <2> QED
      BY <2>5 DEF Lifecycle!Next
  <1>7. CASE Settles(g)
    <2>1. PICK i \in Intents, roll \in 0..MaxRoll :
            rows[g].status \in LegalFrom(i) /\ Changes(g, Settled(rows[g], i, roll))
      BY <1>7 DEF Settles
    <2>2. roll \in Nat
      BY ConstantsAssumption
    <2> DEFINE new == Settled(rows[g], i, roll)
    <2>3. /\ new \in Snapshot
          /\ i \in {"failed", "stopped", "completed", "completed_partial"} =>
               /\ rows[g].status \in ActiveStatuses /\ new.status \in TerminalStatuses
               /\ new.epoch = rows[g].epoch
          /\ i = "approval" =>
               /\ rows[g].status \in ActiveStatuses \ {"stop_requested"}
               /\ new.status = "continuable" /\ new.block = "tool_approval_required"
               /\ new.epoch = rows[g].epoch
          /\ i \in {"continuable", "blocked"} =>
               /\ rows[g].status \in ActiveStatuses \ {"stop_requested"}
               /\ new.status = "continuable"
               /\ new.block \in {"none", "mutation_outcome_unknown"}
               /\ new.epoch = rows[g].epoch + roll
          /\ i = "none" => new = rows[g]
      BY <1>0, <2>1, <2>2, SettledRow DEF Snapshot
    <2>4. Changes(g, new)
      BY <2>1
    <2> HIDE DEF new
    <2>5. CASE i \in {"failed", "stopped", "completed", "completed_partial"}
      <3>1. PhaseOf(new) = "ended" /\ PhaseOf(rows[g]) \notin {"none", "ended"}
        BY <1>0, <2>3, <2>5, Phases DEF IsActive
      <3> QED
        BY <1>b, <2>3, <2>4, <2>5, <3>1
    <2>6. CASE i = "approval"
      <3>1. PhaseOf(new) = "asking" /\ PhaseOf(rows[g]) = "live"
        BY <1>0, <2>3, <2>6, Phases
      <3>2. Lifecycle!PauseForApproval(g)
        <4>1. Lifecycle!Become(g, {"live"}, "asking")
          BY <1>c, <2>4, <3>1, Becomes
        <4>2. EpochMap' = EpochMap
          BY <1>0, <2>3, <2>4, <2>6, EpochsKept
        <4> QED
          BY <4>1, <4>2 DEF Lifecycle!PauseForApproval, EpochMap
      <3> QED
        BY <3>2 DEF Lifecycle!Next
    <2>7. CASE i \in {"continuable", "blocked"}
      <3>1. PhaseOf(new) \in {"offered", "blocked"} /\ PhaseOf(rows[g]) = "live"
        BY <1>0, <2>3, <2>7, Phases
      <3>2. Lifecycle!PauseAtBudget(g)
        <4>1. \/ Lifecycle!Become(g, {"live"}, "offered")
              \/ Lifecycle!Become(g, {"live"}, "blocked")
          <5>1. CASE PhaseOf(new) = "offered"
            BY <1>c, <2>4, <3>1, <5>1, Becomes
          <5>2. CASE PhaseOf(new) = "blocked"
            BY <1>c, <2>4, <3>1, <5>2, Becomes
          <5> QED
            BY <3>1, <5>1, <5>2
        <4>2. EpochMap' = [EpochMap EXCEPT ![g] = @ + roll]
          BY <1>c, <2>3, <2>4, <2>7
        <4> QED
          BY <2>1, <4>1, <4>2 DEF Lifecycle!PauseAtBudget, EpochMap
      <3> QED
        BY <3>2 DEF Lifecycle!Next
    <2>8. CASE i = "none"
      BY <1>a, <2>3, <2>4, <2>8
    <2> QED
      BY <2>5, <2>6, <2>7, <2>8 DEF Intents
  <1> QED
    BY <1>1, <1>2, <1>3, <1>4, <1>5, <1>6, <1>7 DEF RowStep

(* Reaping orphans is a step of the abstract lifecycle. *)
LEMMA ReapRefines ==
    ASSUME RowInv, Reaps
    PROVE  Lifecycle!Next
  <1>1. PICK producers \in SUBSET Processes : FailActiveOf(producers)
    BY DEF Reaps
  <1> DEFINE over == {g \in Generations : IsActive(rows[g]) /\ rows[g].producer \in producers}
  <1>2. \A g \in Generations : rows[g] \in Snapshot
    BY DEF RowInv, TypeInv, TypeOK
  <1>3. \A g \in Generations : /\ FailActive(rows[g]) \in Snapshot
                               /\ FailActive(rows[g]).status = "failed"
                               /\ FailActive(rows[g]).epoch = rows[g].epoch
    BY <1>2, ReapedRow DEF Snapshot
  <1>4. \A g \in Generations : rows'[g] = IF g \in over THEN FailActive(rows[g]) ELSE rows[g]
    BY <1>1 DEF FailActiveOf
  <1>5. \A g \in over : PhaseOf(rows[g]) \notin {"none", "ended"}
    BY <1>2, Phases
  <1>6. \A g \in Generations : PhaseOf(rows'[g]) = IF g \in over THEN "ended" ELSE PhaseOf(rows[g])
    BY <1>3, <1>4, Phases DEF TerminalStatuses
  <1>7. \A g \in Generations : rows'[g].epoch = rows[g].epoch
    BY <1>3, <1>4
  <1> HIDE DEF over
  <1>8. over \in SUBSET Generations
    BY DEF over
  <1>9. Lifecycle!End(over)
    BY <1>5, <1>6, <1>7, <1>8 DEF Lifecycle!End
  <1> QED
    BY <1>8, <1>9 DEF Lifecycle!Next

(* The concurrent implementation, with its processes, tasks, retries,       *)
(* stale snapshots, crashes and reaping, implements the lifecycle: every    *)
(* step of it is one step of GenerationLifecycle or none, for any number of *)
(* generations, conversations, processes, tasks and keys.                   *)
THEOREM Refinement == Spec => ImplementsLifecycle
  <1>1. Init => Lifecycle!Init
    <2> SUFFICES ASSUME Init PROVE Lifecycle!Init
      OBVIOUS
    <2>1. NoRow(None) \in Snapshot /\ NoRow(None).status = "absent" /\ NoRow(None).epoch = 0
      BY CreatedRow DEF Snapshot, NoRow
    <2>2. PhaseOf(NoRow(None)) = "none"
      BY <2>1, Phases
    <2> QED
      BY <2>1, <2>2 DEF Init, Lifecycle!Init
  <1>2. RowInv /\ [Next]_vars => [Lifecycle!Next]_<<PhaseMap, EpochMap>>
    <2> SUFFICES ASSUME RowInv, [Next]_vars
                 PROVE  Lifecycle!Next \/ UNCHANGED <<PhaseMap, EpochMap>>
      OBVIOUS
    <2>1. CASE UNCHANGED rows
      BY <2>1 DEF PhaseMap, EpochMap
    <2> QED
      BY <2>1, RowSteps, RowStepRefines, ReapRefines
  <1> QED
    BY <1>1, <1>2, RowInvInit, RowInvNext, PTL
    DEF Spec, ImplementsLifecycle, Lifecycle!Spec, PhaseMap, EpochMap
=============================================================================
