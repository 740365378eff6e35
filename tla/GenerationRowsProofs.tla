------------------------- MODULE GenerationRowsProofs -------------------------
(***************************************************************************)
(* What each write of the lifecycle service does to a `generations` row,    *)
(* for every set of producers. The proofs about the components that share   *)
(* the row (GenerationControl, ApprovalResume, TurnStream) cite these.      *)
(***************************************************************************)
EXTENDS GenerationRows, TLAPS

-----------------------------------------------------------------------------
(* Moved sets the status, advances the version and leaves the rest alone. *)
LEMMA MovedRow ==
    ASSUME NEW S, NEW row \in RowType(S), NEW s \in RowStatus
    PROVE  /\ Moved(row, s) \in RowType(S)
           /\ Moved(row, s).status = s
           /\ Moved(row, s).version = row.version + 1
           /\ Moved(row, s).epoch = row.epoch
           /\ Moved(row, s).producer = row.producer
           /\ Moved(row, s).continuation = row.continuation
           /\ Moved(row, s).block = row.block
  <1> DEFINE q == [row EXCEPT !.status = s]
  <1>1. q \in RowType(S) /\ q.version = row.version /\ q.status = s
        /\ q.epoch = row.epoch /\ q.producer = row.producer
        /\ q.continuation = row.continuation /\ q.block = row.block
    BY DEF RowType
  <1>2. Moved(row, s) = [q EXCEPT !.version = row.version + 1]
    BY DEF Moved, RowType
  <1> HIDE DEF q
  <1> QED
    BY <1>1, <1>2 DEF RowType

(* The three kinds of status do not overlap. *)
LEMMA StatusNames ==
    /\ ActiveStatuses \subseteq RowStatus
    /\ TerminalStatuses \subseteq RowStatus
    /\ "continuable" \in RowStatus /\ "absent" \in RowStatus
    /\ ActiveStatuses \intersect TerminalStatuses = {}
    /\ "continuable" \notin ActiveStatuses /\ "continuable" \notin TerminalStatuses
    /\ "absent" \notin ActiveStatuses /\ "absent" \notin TerminalStatuses
  BY DEF RowStatus, GenerationStatus, ActiveStatuses, TerminalStatuses

(* A created row: the first version, nothing offered, nothing blocked. *)
LEMMA CreatedRow ==
    ASSUME NEW S, NEW p \in S
    PROVE  /\ NoRow(p) \in RowType(S)
           /\ Create(p) \in RowType(S)
           /\ Create(p).status = "starting" /\ Create(p).version = 1
           /\ Create(p).epoch = 0 /\ Create(p).producer = p
           /\ Create(p).continuation = 0 /\ Create(p).block = "none"
  <1>1. NoRow(p) \in RowType(S)
    BY DEF NoRow, RowType, RowStatus, BlockReason
  <1>2. "starting" \in RowStatus
    BY StatusNames DEF ActiveStatuses
  <1>3. NoRow(p).version = 0 /\ NoRow(p).epoch = 0 /\ NoRow(p).producer = p
        /\ NoRow(p).continuation = 0 /\ NoRow(p).block = "none"
    BY DEF NoRow
  <1> QED
    BY <1>1, <1>2, <1>3, MovedRow DEF Create

(* mark_running. *)
LEMMA RunningRow ==
    ASSUME NEW S, NEW row \in RowType(S)
    PROVE  /\ MarkRunning(row) \in RowType(S)
           /\ MarkRunning(row).status = "running"
           /\ MarkRunning(row).version = row.version + 1
           /\ MarkRunning(row).epoch = row.epoch
           /\ MarkRunning(row).producer = row.producer
           /\ MarkRunning(row).continuation = row.continuation
           /\ MarkRunning(row).block = row.block
  <1>1. "running" \in RowStatus
    BY StatusNames DEF ActiveStatuses, TerminalStatuses
  <1> QED
    BY <1>1, MovedRow DEF MarkRunning

(* A Stop requested of a worker. *)
LEMMA StoppingRow ==
    ASSUME NEW S, NEW row \in RowType(S)
    PROVE  /\ RequestWorkerStop(row) \in RowType(S)
           /\ RequestWorkerStop(row).status = "stop_requested"
           /\ RequestWorkerStop(row).version = row.version + 1
           /\ RequestWorkerStop(row).epoch = row.epoch
           /\ RequestWorkerStop(row).producer = row.producer
           /\ RequestWorkerStop(row).continuation = row.continuation
           /\ RequestWorkerStop(row).block = row.block
  <1>1. "stop_requested" \in RowStatus
    BY StatusNames DEF ActiveStatuses, TerminalStatuses
  <1> QED
    BY <1>1, MovedRow DEF RequestWorkerStop

(* The reaper's bulk write. *)
LEMMA ReapedRow ==
    ASSUME NEW S, NEW row \in RowType(S)
    PROVE  /\ FailActive(row) \in RowType(S)
           /\ FailActive(row).status = "failed"
           /\ FailActive(row).version = row.version + 1
           /\ FailActive(row).epoch = row.epoch
           /\ FailActive(row).producer = row.producer
           /\ FailActive(row).continuation = row.continuation
           /\ FailActive(row).block = row.block
  <1>1. "failed" \in RowStatus
    BY StatusNames DEF ActiveStatuses, TerminalStatuses
  <1> QED
    BY <1>1, MovedRow DEF FailActive

(* mark_stopped. *)
LEMMA StoppedRow ==
    ASSUME NEW S, NEW row \in RowType(S)
    PROVE  /\ MarkStopped(row) \in RowType(S)
           /\ MarkStopped(row).status = "stopped"
           /\ MarkStopped(row).version = row.version + 1
           /\ MarkStopped(row).epoch = row.epoch
           /\ MarkStopped(row).producer = row.producer
           /\ MarkStopped(row).continuation = 0
           /\ MarkStopped(row).block = "none"
  <1> DEFINE q == Moved(row, "stopped")
  <1>1. "stopped" \in RowStatus
    BY StatusNames DEF ActiveStatuses, TerminalStatuses
  <1>2. /\ q \in RowType(S) /\ q.status = "stopped" /\ q.version = row.version + 1
        /\ q.epoch = row.epoch /\ q.producer = row.producer
        /\ q.continuation = row.continuation /\ q.block = row.block
    BY <1>1, MovedRow
  <1>3. row.version \in Nat /\ row.epoch \in Nat
    BY DEF RowType
  <1> HIDE DEF q
  <1> QED
    BY <1>2, <1>3 DEF MarkStopped, RowType, BlockReason, q

(* mark_failed. *)
LEMMA FailedRow ==
    ASSUME NEW S, NEW row \in RowType(S)
    PROVE  /\ MarkFailed(row) \in RowType(S)
           /\ MarkFailed(row).status = "failed"
           /\ MarkFailed(row).version = row.version + 1
           /\ MarkFailed(row).epoch = row.epoch
           /\ MarkFailed(row).producer = row.producer
           /\ MarkFailed(row).continuation = 0
           /\ MarkFailed(row).block = row.block
  <1> DEFINE q == Moved(row, "failed")
  <1>1. "failed" \in RowStatus
    BY StatusNames DEF ActiveStatuses, TerminalStatuses
  <1>2. /\ q \in RowType(S) /\ q.status = "failed" /\ q.version = row.version + 1
        /\ q.epoch = row.epoch /\ q.producer = row.producer
        /\ q.continuation = row.continuation /\ q.block = row.block
    BY <1>1, MovedRow
  <1>3. row.version \in Nat /\ row.epoch \in Nat
    BY DEF RowType
  <1> HIDE DEF q
  <1> QED
    BY <1>2, <1>3 DEF MarkFailed, RowType, BlockReason, q

(* mark_completed, with either completed status. *)
LEMMA CompletedRow ==
    ASSUME NEW S, NEW row \in RowType(S), NEW s \in {"completed", "completed_partial"}
    PROVE  /\ MarkCompleted(row, s) \in RowType(S)
           /\ MarkCompleted(row, s).status = s
           /\ MarkCompleted(row, s).version = row.version + 1
           /\ MarkCompleted(row, s).epoch = row.epoch
           /\ MarkCompleted(row, s).producer = row.producer
           /\ MarkCompleted(row, s).continuation = 0
           /\ MarkCompleted(row, s).block = row.block
  <1> DEFINE q == Moved(row, s)
  <1>1. s \in RowStatus
    BY StatusNames DEF ActiveStatuses, TerminalStatuses
  <1>2. /\ q \in RowType(S) /\ q.status = s /\ q.version = row.version + 1
        /\ q.epoch = row.epoch /\ q.producer = row.producer
        /\ q.continuation = row.continuation /\ q.block = row.block
    BY <1>1, MovedRow
  <1>3. row.version \in Nat /\ row.epoch \in Nat
    BY DEF RowType
  <1> HIDE DEF q
  <1> QED
    BY <1>2, <1>3 DEF MarkCompleted, RowType, BlockReason, q

(* A paused partial that is kept as it is. *)
LEMMA AcceptedRow ==
    ASSUME NEW S, NEW row \in RowType(S)
    PROVE  /\ AcceptPartial(row) \in RowType(S)
           /\ AcceptPartial(row).status = "completed_partial"
           /\ AcceptPartial(row).version = row.version + 1
           /\ AcceptPartial(row).epoch = row.epoch
           /\ AcceptPartial(row).producer = row.producer
           /\ AcceptPartial(row).continuation = 0
           /\ AcceptPartial(row).block = row.block
  <1> DEFINE q == Moved(row, "completed_partial")
  <1>1. "completed_partial" \in RowStatus
    BY StatusNames DEF ActiveStatuses, TerminalStatuses
  <1>2. /\ q \in RowType(S) /\ q.status = "completed_partial" /\ q.version = row.version + 1
        /\ q.epoch = row.epoch /\ q.producer = row.producer
        /\ q.continuation = row.continuation /\ q.block = row.block
    BY <1>1, MovedRow
  <1>3. row.version \in Nat /\ row.epoch \in Nat
    BY DEF RowType
  <1> HIDE DEF q
  <1> QED
    BY <1>2, <1>3 DEF AcceptPartial, RowType, BlockReason, q

(* mark_resumed_after_approval: a new producer. *)
LEMMA ResumedRow ==
    ASSUME NEW S, NEW row \in RowType(S), NEW p \in S
    PROVE  /\ MarkResumedAfterApproval(row, p) \in RowType(S)
           /\ MarkResumedAfterApproval(row, p).status = "running"
           /\ MarkResumedAfterApproval(row, p).version = row.version + 1
           /\ MarkResumedAfterApproval(row, p).epoch = row.epoch
           /\ MarkResumedAfterApproval(row, p).producer = p
           /\ MarkResumedAfterApproval(row, p).continuation = row.continuation
           /\ MarkResumedAfterApproval(row, p).block = "none"
  <1> DEFINE q == Moved(row, "running")
  <1>1. "running" \in RowStatus
    BY StatusNames DEF ActiveStatuses, TerminalStatuses
  <1>2. /\ q \in RowType(S) /\ q.status = "running" /\ q.version = row.version + 1
        /\ q.epoch = row.epoch /\ q.producer = row.producer
        /\ q.continuation = row.continuation /\ q.block = row.block
    BY <1>1, MovedRow
  <1>3. row.version \in Nat /\ row.epoch \in Nat
    BY DEF RowType
  <1> HIDE DEF q
  <1> QED
    BY <1>2, <1>3 DEF MarkResumedAfterApproval, RowType, BlockReason, q

(* lease_epoch: a new producer and the next epoch. *)
LEMMA LeasedRow ==
    ASSUME NEW S, NEW row \in RowType(S), NEW p \in S
    PROVE  /\ LeaseEpoch(row, p) \in RowType(S)
           /\ LeaseEpoch(row, p).status = "continuing"
           /\ LeaseEpoch(row, p).version = row.version + 1
           /\ LeaseEpoch(row, p).epoch = row.epoch + 1
           /\ LeaseEpoch(row, p).producer = p
           /\ LeaseEpoch(row, p).continuation = 0
           /\ LeaseEpoch(row, p).block = row.block
  <1> DEFINE q == Moved(row, "continuing")
  <1>1. "continuing" \in RowStatus
    BY StatusNames DEF ActiveStatuses, TerminalStatuses
  <1>2. /\ q \in RowType(S) /\ q.status = "continuing" /\ q.version = row.version + 1
        /\ q.epoch = row.epoch /\ q.producer = row.producer
        /\ q.continuation = row.continuation /\ q.block = row.block
    BY <1>1, MovedRow
  <1>3. row.version \in Nat /\ row.epoch \in Nat
    BY DEF RowType
  <1> DEFINE e == row.epoch + 1
  <1>4. e \in Nat
    BY <1>3
  <1> DEFINE r == [q EXCEPT !.epoch = e, !.continuation = 0]
  <1>5. LeaseEpoch(row, p) = [r EXCEPT !.producer = p]
    BY DEF LeaseEpoch, RowType
  <1> HIDE DEF q, e
  <1>6. /\ r \in RowType(S) /\ r.status = "continuing" /\ r.version = row.version + 1
        /\ r.epoch = e /\ r.continuation = 0 /\ r.block = row.block
    BY <1>2, <1>4 DEF RowType
  <1> HIDE DEF r
  <1>7. [r EXCEPT !.producer = p] \in RowType(S)
    BY <1>6 DEF RowType
  <1> QED
    BY <1>5, <1>6, <1>7 DEF RowType, e

(* mark_continuable, for every block reason. *)
LEMMA PausedRow ==
    ASSUME NEW S, NEW row \in RowType(S), NEW b \in BlockReason, NEW e \in Nat
    PROVE  /\ MarkContinuable(row, b, e) \in RowType(S)
           /\ MarkContinuable(row, b, e).status = "continuable"
           /\ MarkContinuable(row, b, e).version = row.version + 1
           /\ MarkContinuable(row, b, e).epoch = e
           /\ MarkContinuable(row, b, e).producer = row.producer
           /\ MarkContinuable(row, b, e).continuation = (IF b = "none" THEN row.version + 1 ELSE 0)
           /\ MarkContinuable(row, b, e).block = b
  <1> DEFINE q == Moved(row, "continuable")
  <1>1. "continuable" \in RowStatus
    BY StatusNames DEF ActiveStatuses, TerminalStatuses
  <1>2. /\ q \in RowType(S) /\ q.status = "continuable" /\ q.version = row.version + 1
        /\ q.epoch = row.epoch /\ q.producer = row.producer
        /\ q.continuation = row.continuation /\ q.block = row.block
    BY <1>1, MovedRow
  <1>3. row.version \in Nat
    BY DEF RowType
  <1> DEFINE c == IF b = "none" THEN row.version + 1 ELSE 0
  <1>4. c \in Nat
    BY <1>3
  <1>5. MarkContinuable(row, b, e) = [q EXCEPT !.epoch = e, !.block = b, !.continuation = c]
    BY DEF MarkContinuable
  <1> HIDE DEF q, c
  <1>6. /\ MarkContinuable(row, b, e) \in RowType(S)
        /\ MarkContinuable(row, b, e).status = "continuable"
        /\ MarkContinuable(row, b, e).version = row.version + 1
        /\ MarkContinuable(row, b, e).epoch = e
        /\ MarkContinuable(row, b, e).producer = row.producer
        /\ MarkContinuable(row, b, e).continuation = c
        /\ MarkContinuable(row, b, e).block = b
    BY <1>2, <1>4, <1>5 DEF RowType
  <1> QED
    BY <1>6 DEF c

-----------------------------------------------------------------------------
(* Every ending is legal from a running row, only two of them after a Stop. *)
LEMMA LegalIntents ==
    ASSUME NEW intent \in Intents
    PROVE  /\ "running" \in LegalFrom(intent)
           /\ "continuing" \in LegalFrom(intent)
           /\ "stop_requested" \in LegalFrom(intent) <=> intent \in {"failed", "stopped"}
           /\ "starting" \in LegalFrom(intent) <=>
                intent \in {"failed", "stopped", "completed", "completed_partial"}
           /\ LegalFrom(intent) \subseteq ActiveStatuses
<1>1. CASE intent \in {"failed", "stopped"}
  <2>1. LegalFrom(intent) = ActiveStatuses
    BY <1>1, Zenon DEF LegalFrom, Stoppable
  <2> QED BY <1>1, <2>1 DEF ActiveStatuses
<1>2. CASE intent \in {"completed", "completed_partial"}
  <2>1. LegalFrom(intent) = ActiveStatuses \ {"stop_requested"}
    <3>1. intent \notin {"failed", "stopped"}
      BY <1>2
    <3> QED BY <1>2, <3>1, Zenon DEF LegalFrom, Completable
  <2> QED BY <1>2, <2>1 DEF ActiveStatuses
<1>3. CASE intent \notin {"failed", "stopped"} /\ intent \notin {"completed", "completed_partial"}
  <2>1. LegalFrom(intent) = {"running", "finalizing_after_limit", "continuing"}
    BY <1>3, Zenon DEF LegalFrom, ContinuableFrom
  <2> QED BY <1>3, <2>1 DEF ActiveStatuses
<1> QED BY <1>1, <1>2, <1>3

(* What a write leaves: the next version, and an offer only where it is     *)
(* open. (`none` is no ending; a worker never settles with it.)             *)
Advances(old, new) ==
    \/ new = old
    \/ /\ new.version = old.version + 1
       /\ new.status # "absent"
       /\ new.continuation # 0 => new.status = "continuable" /\ new.block = "none"

(* What settling a row writes, by the ending asked for. *)
LEMMA SettledRow ==
    ASSUME NEW S, NEW row \in RowType(S), NEW i \in Intents, NEW roll \in Nat,
           row.status \in LegalFrom(i)
    PROVE  LET new == Settled(row, i, roll) IN
           /\ new \in RowType(S)
           /\ new.producer = row.producer
           /\ Advances(row, new)
           /\ i \in {"failed", "stopped", "completed", "completed_partial"} =>
                /\ row.status \in ActiveStatuses
                /\ new.status = i /\ new.status \in TerminalStatuses
                /\ new.epoch = row.epoch
           /\ i = "approval" =>
                /\ row.status \in ActiveStatuses \ {"stop_requested"}
                /\ new.status = "continuable" /\ new.block = "tool_approval_required"
                /\ new.epoch = row.epoch
           /\ i \in {"continuable", "blocked"} =>
                /\ row.status \in ActiveStatuses \ {"stop_requested"}
                /\ new.status = "continuable"
                /\ new.block \in {"none", "mutation_outcome_unknown"}
                /\ new.epoch = row.epoch + roll
           /\ i = "none" => new = row
  <1> DEFINE new == Settled(row, i, roll)
  <1>1. row.epoch \in Nat /\ row.epoch + roll \in Nat
    BY DEF RowType
  <1>2. {"none", "mutation_outcome_unknown", "tool_approval_required"} \subseteq BlockReason
    BY DEF BlockReason
  <1>3. {"completed", "completed_partial", "failed", "stopped"} \subseteq TerminalStatuses
    BY DEF TerminalStatuses
  <1>4. "absent" \notin TerminalStatuses
    BY DEF TerminalStatuses
  <1>5. CASE i = "failed"
    <2>1. new = MarkFailed(row) /\ row.status \in ActiveStatuses
      BY <1>5 DEF Settled, LegalFrom, Stoppable
    <2> QED
      BY <1>3, <1>4, <1>5, <2>1, FailedRow DEF Advances
  <1>6. CASE i = "stopped"
    <2>1. new = MarkStopped(row) /\ row.status \in ActiveStatuses
      BY <1>6 DEF Settled, LegalFrom, Stoppable
    <2> QED
      BY <1>3, <1>4, <1>6, <2>1, StoppedRow DEF Advances
  <1>7. CASE i \in {"completed", "completed_partial"}
    <2>1. new = MarkCompleted(row, i) /\ row.status \in ActiveStatuses
      BY <1>7 DEF Settled, LegalFrom, Completable
    <2> QED
      BY <1>3, <1>4, <1>7, <2>1, CompletedRow DEF Advances
  <1>8. CASE i = "approval"
    <2>1. /\ new = MarkContinuable(row, "tool_approval_required", row.epoch)
          /\ row.status \in ActiveStatuses \ {"stop_requested"}
      BY <1>8 DEF Settled, LegalFrom, ContinuableFrom, ActiveStatuses
    <2>2. /\ new \in RowType(S) /\ new.status = "continuable" /\ new.version = row.version + 1
          /\ new.epoch = row.epoch /\ new.block = "tool_approval_required"
          /\ new.continuation = 0 /\ new.producer = row.producer
      <3> HIDE DEF new
      <3>1. "tool_approval_required" \in BlockReason /\ row.epoch \in Nat
        BY <1>1, <1>2
      <3> QED
        BY <2>1, <3>1, PausedRow
    <2> QED
      BY <1>8, <2>1, <2>2 DEF Advances
  <1>9. CASE i \in {"continuable", "blocked"}
    <2>1. PICK b \in {"none", "mutation_outcome_unknown"} :
            new = MarkContinuable(row, b, row.epoch + roll)
      BY <1>9 DEF Settled
    <2>2. row.status \in ActiveStatuses \ {"stop_requested"}
      BY <1>9 DEF LegalFrom, ContinuableFrom, ActiveStatuses
    <2>3. /\ new \in RowType(S) /\ new.status = "continuable" /\ new.version = row.version + 1
          /\ new.epoch = row.epoch + roll /\ new.block = b /\ new.producer = row.producer
          /\ b # "none" => new.continuation = 0
      <3> DEFINE e == row.epoch + roll
      <3>1. b \in BlockReason /\ e \in Nat /\ new = MarkContinuable(row, b, e)
        BY <1>1, <1>2, <2>1
      <3> HIDE DEF new, e
      <3>2. /\ new \in RowType(S) /\ new.status = "continuable" /\ new.version = row.version + 1
            /\ new.epoch = e /\ new.block = b /\ new.producer = row.producer
            /\ b # "none" => new.continuation = 0
        BY <3>1, PausedRow
      <3> QED
        BY <3>2 DEF e
    <2> QED
      BY <1>9, <2>2, <2>3 DEF Advances
  <1>10. CASE i = "none"
    BY <1>10 DEF Settled, Advances
  <1> QED
    BY <1>5, <1>6, <1>7, <1>8, <1>9, <1>10 DEF Intents

=============================================================================
