---------------------------- MODULE ApprovalResume ----------------------------
(***************************************************************************)
(* One turn that asks its user to approve tool calls, and the requests that *)
(* resume it with a decision.                                               *)
(*                                                                          *)
(* The turn's lifecycle row (GenerationRows) and its approvals, the records *)
(* of hitl_interrupts, live in the same database and are written by         *)
(* separate commits, from several processes: the turn itself, resumes of    *)
(* it (resume_message_creation_stream), a user's Stop, the retention sweep  *)
(* and a reconnecting device.  The conversation's turn lock is a            *)
(* transaction of one database connection and is lost with it, unnoticed by *)
(* its holder (conversation_turn_coordinator.py).                           *)
(*                                                                          *)
(* Approvals are numbered in the order the turn asks for them; all of them  *)
(* share the turn's checkpoint thread.  The in-process registry, the stored *)
(* messages and the Redis timers of the approvals are left out.             *)
(***************************************************************************)
EXTENDS GenerationRows

CONSTANTS
    Resumes,        \* requests that answer an approval
    Turn,           \* the request that started the turn
    Other,          \* any other turn of the conversation
    None,
    MaxInterrupts,  \* how often the turn asks
    MaxFaults       \* crashes and lost lock connections

ASSUME BoundsAssumption == MaxInterrupts \in Nat \ {0} /\ MaxFaults \in Nat

Actors == Resumes \union {Turn}

(* The turn does not resume itself, and nobody is taken for anybody else. *)
ASSUME ActorsAssumption ==
    /\ Turn \notin Resumes
    /\ Other \notin Actors
    /\ None \notin Actors \union {Other}

Interrupts == 1..MaxInterrupts

VARIABLES
    row,            \* the generations row of the turn
    interrupt,      \* the status of each approval; "absent" until asked
    due,            \* approvals whose expires_at has passed
    checkpoint,     \* the turn's checkpoint thread exists
    sweep,          \* the approval the retention sweep is at, and its progress
    stopping,       \* a Stop has closed the paused row, not yet its approvals
    busy,           \* another turn of the conversation is active
    lock,           \* the session that holds the turn lock in the database
    holds,          \* actors that believe they hold it
    pc, target,     \* where each actor is, and the approval it answers
    seen,           \* the row version each actor fences its next write on
    \* history
    ran,            \* resumes that ran the graph, with the approval they used
    deserted,       \* resumes whose client left while they took the row back
    faults

approvals == <<interrupt, due>>
retention == <<checkpoint, sweep>>
locking == <<lock, holds, busy>>
actors == <<pc, target, seen>>
history == <<ran, deserted, faults>>
vars == <<row, approvals, retention, stopping, locking, actors, history>>

InterruptStatus == {"absent", "pending", "resolving", "resolved", "failed", "expired"}
Control == {"idle", "holding", "validated", "abandoned", "reclaimed", "claimed", "running",
            "asked", "pausing", "invalidating", "completing", "offered", "failing", "stopping",
            "over", "crashed"}

(* After these an actor only has writes left that outlive its client. *)
Shielded == {"pausing", "invalidating", "completing", "failing", "stopping"}

TypeOK ==
    /\ row \in RowType(Actors)
    /\ interrupt \in [Interrupts -> InterruptStatus]
    /\ due \subseteq Interrupts
    /\ checkpoint \in BOOLEAN
    /\ sweep \in {None} \union (Interrupts \X {"listed", "marked"})
    /\ stopping \in BOOLEAN
    /\ busy \in BOOLEAN
    /\ lock \in Actors \union {Other, None}
    /\ holds \subseteq Actors \union {Other}
    /\ pc \in [Actors -> Control]
    /\ target \in [Resumes -> Interrupts \union {0}]
    /\ seen \in [Actors -> Nat]
    /\ ran \subseteq Resumes \X Interrupts
    /\ deserted \subseteq Resumes
    /\ faults \in 0..MaxFaults

(* The turn runs, holds the lock and has asked for nothing yet. *)
Init ==
    /\ row = MarkRunning(Create(Turn))
    /\ interrupt = [i \in Interrupts |-> "absent"]
    /\ due = {}
    /\ checkpoint = TRUE
    /\ sweep = None
    /\ stopping = FALSE
    /\ busy = FALSE
    /\ lock = Turn
    /\ holds = {Turn}
    /\ pc = [a \in Actors |-> IF a = Turn THEN "running" ELSE "idle"]
    /\ target = [p \in Resumes |-> 0]
    /\ seen = [a \in Actors |-> IF a = Turn THEN row.version ELSE 0]
    /\ ran = {}
    /\ deserted = {}
    /\ faults = 0

Goes(a, to) == pc' = [pc EXCEPT ![a] = to]

AwaitsApproval == row.status = "continuable" /\ row.block = "tool_approval_required"

-----------------------------------------------------------------------------
(* hitl_interrupts: every write is one UPDATE with the status in its WHERE. *)

(* Mutant: the claim forgets that an approval can run out of time. *)
ClaimableLate(i) == interrupt[i] = "pending"

(* Mutant: any approval that was once asked for can be claimed. *)
ClaimableAgain(i) == interrupt[i] # "absent" /\ i \notin due

(* _require_interrupt_status_resumable, and try_transition_to_resolving. *)
Claimable(i) == interrupt[i] = "pending" /\ i \notin due

(* Mutant: expiring also ends an approval somebody has claimed. *)
ExpiredAlways(i) == [interrupt EXCEPT ![i] = "expired"]

(* mark_expired *)
Expired(i) == [interrupt EXCEPT ![i] = IF @ = "pending" THEN "expired" ELSE @]

(* mark_resolved *)
Resolved(i) == [interrupt EXCEPT ![i] = IF @ \in {"pending", "resolving"} THEN "resolved" ELSE @]

(* Mutant: a resume that ends badly leaves its approval as it is. *)
StillClaimed(i) == interrupt

(* mark_failed, whoever claimed it. *)
Failed(i) == [interrupt EXCEPT ![i] = IF @ = "resolving" THEN "failed" ELSE @]

(* Mutant: closing a turn leaves its open approval standing. *)
NoneExpired == interrupt

(* expire_pending_for_thread *)
AllExpired == [i \in Interrupts |-> IF interrupt[i] = "pending" THEN "expired" ELSE interrupt[i]]

-----------------------------------------------------------------------------
(* The turn lock.  release() pops the session stored under the conversation: *)
(* its own, or the one another turn of the same process stored over it.      *)
Release(a) ==
    IF a \in holds
      THEN /\ holds' = holds \ {a}
           /\ \/ lock' = None
              \/ lock # a /\ lock' = lock
      ELSE UNCHANGED <<holds, lock>>

Ends(a) == Goes(a, "over") /\ Release(a)

(* Mutant: a write refused for a Stop the worker has not seen is given up. *)
ConcludedOnce(a, intent) ==
    IF Matches(row, seen[a], LegalFrom(intent)) THEN Settled(row, intent, 0) ELSE row

(* _aworker_transition: fenced on the version last seen; refused, it reads   *)
(* the row once more and answers a Stop, or tries again.                     *)
Concluded(a, intent) ==
    CASE Matches(row, seen[a], LegalFrom(intent)) -> Settled(row, intent, 0)
      [] row.version # seen[a] /\ row.status \in LegalFrom(intent) -> Settled(row, intent, 0)
      [] row.version # seen[a] /\ row.status = "stop_requested"
            /\ intent \notin {"failed", "stopped"} -> MarkStopped(row)
      [] OTHER -> row

-----------------------------------------------------------------------------
(* A resume, from the request to the running graph.                          *)

(* hold: the client answers an approval it has been shown. *)
Acquire(p) ==
    /\ pc[p] = "idle"
    /\ lock = None
    /\ lock' = p
    /\ holds' = holds \union {p}
    /\ \E i \in Interrupts :
         /\ interrupt[i] # "absent"
         /\ target' = [target EXCEPT ![p] = i]
    /\ Goes(p, "holding")
    /\ UNCHANGED <<row, approvals, retention, stopping, busy, seen, history>>

(* _validate_and_claim_interrupt_resume(claim=False) *)
Validate(p) ==
    /\ pc[p] = "holding"
    /\ Claimable(target[p])
    /\ Goes(p, "validated")
    /\ UNCHANGED <<row, approvals, retention, stopping, locking, target, seen, history>>

(* It is refused: already answered, out of time, or its device, catalog or   *)
(* tool has changed, which expires it.                                       *)
Refuse(p) ==
    /\ pc[p] = "holding"
    /\ interrupt' = Expired(target[p])
    /\ Ends(p)
    /\ UNCHANGED <<row, due, retention, stopping, busy, target, seen, history>>

(* The client leaves: the caller is gone, its lock too, the reclaim goes on. *)
Abandon(p) ==
    /\ pc[p] = "validated"
    /\ deserted' = deserted \union {p}
    /\ Goes(p, "abandoned")
    /\ Release(p)
    /\ UNCHANGED <<row, approvals, retention, stopping, busy, target, seen, ran, faults>>

(* mark_resumed_after_approval, unless another turn is active (the unique    *)
(* index).  on_abandoned then stops the row.                                 *)
Reclaim(p) ==
    /\ pc[p] \in {"validated", "abandoned"}
    /\ AwaitsApproval
    /\ ~busy
    /\ row' = MarkResumedAfterApproval(row, p)
    /\ seen' = [seen EXCEPT ![p] = row'.version]
    /\ Goes(p, IF pc[p] = "abandoned" THEN "stopping" ELSE "reclaimed")
    /\ UNCHANGED <<approvals, retention, stopping, locking, target, history>>

(* The row moved on, the conversation is busy, or the row cannot be read.    *)
ReclaimRefused(p) ==
    /\ pc[p] \in {"validated", "abandoned"}
    /\ Ends(p)
    /\ UNCHANGED <<row, approvals, retention, stopping, busy, target, seen, history>>

Claim(p) ==
    /\ pc[p] = "reclaimed"
    /\ Claimable(target[p])
    /\ interrupt' = [interrupt EXCEPT ![target[p]] = "resolving"]
    /\ Goes(p, "claimed")
    /\ UNCHANGED <<row, due, retention, stopping, locking, target, seen, history>>

(* As Refuse, and what is still claimed is failed whoever claimed it.        *)
ClaimRefused(p) ==
    /\ pc[p] = "reclaimed"
    /\ interrupt' = IF interrupt[target[p]] = "resolving"
                      THEN Failed(target[p]) ELSE Expired(target[p])
    /\ Goes(p, "failing")
    /\ UNCHANGED <<row, due, retention, stopping, locking, target, seen, history>>

(* _aprepare_resume accepts; the graph resumes from its checkpoint. *)
Start(p) ==
    /\ pc[p] = "claimed"
    /\ ran' = ran \union {<<p, target[p]>>}
    /\ Goes(p, "running")
    /\ UNCHANGED <<row, approvals, retention, stopping, locking, target, seen, deserted, faults>>

-----------------------------------------------------------------------------
(* How a run ends.                                                           *)

(* The graph asks (again): the approval is stored before the row is paused.  *)
Ask(a) ==
    /\ pc[a] = "running"
    /\ \E i \in Interrupts :
         /\ interrupt[i] = "absent"
         /\ \A j \in Interrupts : j < i => interrupt[j] # "absent"
         /\ interrupt' = [interrupt EXCEPT ![i] = "pending"]
    /\ Goes(a, IF a = Turn THEN "pausing" ELSE "asked")
    /\ UNCHANGED <<row, due, retention, stopping, locking, target, seen, history>>

(* A first turn pauses also when its approval could not be stored; a resume  *)
(* fails (require_durable_interrupt, see FailResume).                        *)
AskUnrecorded ==
    /\ pc[Turn] = "running"
    /\ Goes(Turn, "pausing")
    /\ UNCHANGED <<row, approvals, retention, stopping, locking, target, seen, history>>

(* _areinterrupt_resume: the approval this resume used is resolved. *)
ResolveUsed(p) ==
    /\ pc[p] = "asked"
    /\ interrupt' = Resolved(target[p])
    /\ Goes(p, "pausing")
    /\ UNCHANGED <<row, due, retention, stopping, locking, target, seen, history>>

(* _amark_generation_awaiting_approval: a Stop that came first is answered,  *)
(* and takes the approval back.                                              *)
PauseRow(a) ==
    /\ pc[a] = "pausing"
    /\ row' = Concluded(a, "approval")
    /\ IF row'.status = "stopped"
         THEN Goes(a, "invalidating") /\ UNCHANGED <<lock, holds>>
         ELSE Ends(a)
    /\ UNCHANGED <<approvals, retention, stopping, busy, target, seen, history>>

Invalidate(a) ==
    /\ pc[a] = "invalidating"
    /\ interrupt' = AllExpired
    /\ Ends(a)
    /\ UNCHANGED <<row, due, retention, stopping, busy, target, seen, history>>

(* _acomplete_resume: the answer is saved and the approval resolved ... *)
Complete(p) ==
    /\ pc[p] = "running"
    /\ interrupt' = Resolved(target[p])
    /\ Goes(p, "completing")
    /\ UNCHANGED <<row, due, retention, stopping, locking, target, seen, history>>

(* ... then the row is closed. *)
CompleteRow(p) ==
    /\ pc[p] = "completing"
    /\ row' = Concluded(p, "completed")
    /\ Ends(p)
    /\ UNCHANGED <<approvals, retention, stopping, busy, target, seen, history>>

(* _apause_resume: out of budget, the row offers Continue first ... *)
Offer(p) ==
    /\ pc[p] = "running"
    /\ \E intent \in {"continuable", "blocked", "failed"} : row' = Concluded(p, intent)
    /\ Goes(p, "offered")
    /\ UNCHANGED <<approvals, retention, stopping, locking, target, seen, history>>

(* ... then the approval is resolved, or failed if the partial was not saved. *)
OfferDone(p) ==
    /\ pc[p] = "offered"
    /\ interrupt' = IF row.status = "failed" THEN Failed(target[p]) ELSE Resolved(target[p])
    /\ Ends(p)
    /\ UNCHANGED <<row, due, retention, stopping, busy, target, seen, history>>

(* An error, a stream that just ends, a detached agent, an approval that     *)
(* cannot be stored: the claim is given up, then the row.                    *)
FailResume(p) ==
    /\ pc[p] \in {"claimed", "running"}
    /\ interrupt' = Failed(target[p])
    /\ Goes(p, "failing")
    /\ UNCHANGED <<row, due, retention, stopping, locking, target, seen, history>>

FailRow(p) ==
    /\ pc[p] = "failing"
    /\ row' = Concluded(p, "failed")
    /\ Ends(p)
    /\ UNCHANGED <<approvals, retention, stopping, busy, target, seen, history>>

(* _apersist_disconnected_resume: a Stop that was noticed, or the client is  *)
(* gone; a pause whose offer was never read is not undone.                   *)
Disconnect(p) ==
    /\ pc[p] \in {"running", "offered"}
    /\ interrupt' = Failed(target[p])
    /\ Goes(p, "stopping")
    /\ UNCHANGED <<row, due, retention, stopping, locking, target, seen, history>>

StopRow(p) ==
    /\ pc[p] = "stopping"
    /\ row' = Concluded(p, "stopped")
    /\ Ends(p)
    /\ UNCHANGED <<approvals, retention, stopping, busy, target, seen, history>>

(* The client leaves while the last writes run shielded: the lock goes first. *)
Detach(a) ==
    /\ pc[a] \in Shielded
    /\ a \in holds
    /\ interrupt' = IF a \in Resumes THEN Failed(target[a]) ELSE interrupt
    /\ Release(a)
    /\ UNCHANGED <<row, due, retention, stopping, busy, actors, history>>

(* The first turn ends without asking (module TurnStream has its endings). *)
FinishTurn ==
    /\ pc[Turn] = "running"
    /\ \E intent \in {"completed", "failed", "stopped"} : row' = Concluded(Turn, intent)
    /\ Ends(Turn)
    /\ UNCHANGED <<approvals, retention, stopping, busy, target, seen, history>>

-----------------------------------------------------------------------------
(* Everyone else.                                                            *)

(* request_stop, on a turn that waits: the row first ... *)
StopPaused ==
    /\ AwaitsApproval
    /\ row' = AcceptPartial(row)
    /\ stopping' = TRUE
    /\ UNCHANGED <<approvals, retention, locking, actors, history>>

(* ... then invalidate_pending_approval. *)
InvalidateStopped ==
    /\ stopping
    /\ interrupt' = AllExpired
    /\ stopping' = FALSE
    /\ UNCHANGED <<row, due, retention, locking, actors, history>>

(* ... and on one that runs. *)
StopRunning ==
    /\ IsActive(row)
    /\ row.status # "stop_requested"
    /\ row' = RequestWorkerStop(row)
    /\ UNCHANGED <<approvals, retention, stopping, locking, actors, history>>

BecomeDue(i) ==
    /\ interrupt[i] = "pending"
    /\ due' = due \union {i}
    /\ UNCHANGED <<row, interrupt, retention, stopping, locking, actors, history>>

(* A status request finds it due, or its device is back in a new session. *)
Expire(i) ==
    /\ interrupt[i] = "pending"
    /\ interrupt' = Expired(i)
    /\ UNCHANGED <<row, due, retention, stopping, locking, actors, history>>

(* cleanup_expired_and_deleted_threads lists what is pending and due ... *)
SweepList(i) ==
    /\ sweep = None
    /\ interrupt[i] = "pending"
    /\ i \in due
    /\ sweep' = <<i, "listed">>
    /\ UNCHANGED <<row, approvals, checkpoint, stopping, locking, actors, history>>

(* ... expires it, without asking whether that changed anything ... *)
SweepMark ==
    /\ sweep # None
    /\ sweep[2] = "listed"
    /\ interrupt' = Expired(sweep[1])
    /\ sweep' = <<sweep[1], "marked">>
    /\ UNCHANGED <<row, due, checkpoint, stopping, locking, actors, history>>

(* ... and deletes its checkpoint thread. *)
SweepDelete ==
    /\ sweep # None
    /\ sweep[2] = "marked"
    /\ checkpoint' = FALSE
    /\ sweep' = None
    /\ UNCHANGED <<row, approvals, stopping, locking, actors, history>>

(* A new message in the conversation while this turn waits or is over. *)
OtherStarts ==
    /\ lock = None
    /\ ~busy
    /\ ~IsActive(row)
    /\ busy' = TRUE
    /\ lock' = Other
    /\ holds' = holds \union {Other}
    /\ UNCHANGED <<row, approvals, retention, stopping, actors, history>>

OtherEnds ==
    /\ busy
    /\ busy' = FALSE
    /\ Release(Other)
    /\ UNCHANGED <<row, approvals, retention, stopping, actors, history>>

-----------------------------------------------------------------------------
Fault ==
    /\ faults < MaxFaults
    /\ faults' = faults + 1
    /\ UNCHANGED <<ran, deserted>>

(* The connection that holds the lock is dropped; its holder goes on. *)
LoseLock ==
    /\ lock # None
    /\ lock' = None
    /\ Fault
    /\ UNCHANGED <<row, approvals, retention, stopping, holds, busy, actors>>

Crash(a) ==
    /\ pc[a] \notin {"idle", "over", "crashed"}
    /\ Goes(a, "crashed")
    /\ lock' = IF lock = a THEN None ELSE lock
    /\ holds' = holds \ {a}
    /\ Fault
    /\ UNCHANGED <<row, approvals, retention, stopping, busy, target, seen>>

(* The process that closed the paused row dies before its approvals expire. *)
CrashStopping ==
    /\ stopping
    /\ stopping' = FALSE
    /\ Fault
    /\ UNCHANGED <<row, approvals, retention, locking, actors>>

(* The orphan reaper: rows a dead process still owns. *)
Reap(a) ==
    /\ pc[a] = "crashed"
    /\ IsActive(row)
    /\ row.producer = a
    /\ row' = FailActive(row)
    /\ UNCHANGED <<approvals, retention, stopping, locking, actors, history>>

-----------------------------------------------------------------------------
ResumeStep(p) ==
    \/ Validate(p) \/ Refuse(p) \/ Reclaim(p) \/ ReclaimRefused(p)
    \/ Claim(p) \/ ClaimRefused(p) \/ Start(p)
    \/ ResolveUsed(p) \/ Complete(p) \/ CompleteRow(p)
    \/ Offer(p) \/ OfferDone(p) \/ FailResume(p) \/ FailRow(p)
    \/ Disconnect(p) \/ StopRow(p)

ActorStep(a) == Ask(a) \/ PauseRow(a) \/ Invalidate(a)

Others ==
    \/ StopPaused \/ InvalidateStopped \/ StopRunning
    \/ \E i \in Interrupts : BecomeDue(i) \/ Expire(i) \/ SweepList(i)
    \/ SweepMark \/ SweepDelete
    \/ OtherStarts \/ OtherEnds

Next ==
    \/ \E p \in Resumes : Acquire(p) \/ Abandon(p) \/ ResumeStep(p)
    \/ \E a \in Actors : ActorStep(a) \/ Detach(a) \/ Crash(a) \/ Reap(a)
    \/ AskUnrecorded \/ FinishTurn
    \/ Others
    \/ LoseLock \/ CrashStopping

Spec == Init /\ [][Next]_vars

(* A living process finishes what it is doing (every await of a resume has a *)
(* deadline or ends with its stream), and a dead one's rows are reaped when  *)
(* a process of its host starts again.                                       *)
Fairness ==
    /\ \A p \in Resumes : WF_vars(ResumeStep(p) \/ ActorStep(p))
    /\ WF_vars(ActorStep(Turn) \/ AskUnrecorded \/ FinishTurn)
    /\ \A a \in Actors : WF_vars(Reap(a))

FairSpec == Spec /\ Fairness

-----------------------------------------------------------------------------
InFlight == {"claimed", "running", "asked"}

(* A decision is used once: no approval runs the graph twice, and no two     *)
(* resumes run it at the same time, also when the turn lock is lost and two  *)
(* of them believe they hold it.                                             *)
DecisionRunsOnce ==
    /\ \A x, y \in ran : x[2] = y[2] => x = y
    /\ \A p, q \in Resumes : pc[p] \in InFlight /\ pc[q] \in InFlight => p = q

(* While a resume runs, the approval it uses stays claimed and the row stays *)
(* active and its own: no expiry, Stop, refused rival or reaper ends either  *)
(* under it.                                                                 *)
RunsUnderItsClaim ==
    \A p \in Resumes :
        pc[p] \in InFlight =>
            /\ interrupt[target[p]] = "resolving"
            /\ IsActive(row)
            /\ row.producer = p

(* The retention sweep deletes the checkpoint thread of an approval it       *)
(* listed as pending and overdue whatever happened to it since; it never     *)
(* deletes the thread of a turn that has been resumed.                       *)
CheckpointOutlivesTheRun ==
    \A p \in Resumes : pc[p] \in {"claimed", "running"} => checkpoint

(* An approval the user can still answer belongs to a row that waits for it. *)
(* The exceptions are known: the turn or a resume is on its way to the row,  *)
(* a Stop to the approval, a client left while its resume took the row back, *)
(* or a process or the lock was lost.                                        *)
PendingIsAnswerable ==
    \A i \in Interrupts :
        interrupt[i] = "pending" /\ i \notin due =>
            \/ AwaitsApproval
            \/ IsActive(row)
            \/ stopping
            \/ \E a \in Actors : pc[a] = "invalidating"
            \/ deserted # {}
            \/ faults > 0

(* A claimed approval reaches an end, unless the process that claimed it     *)
(* dies.                                                                     *)
ClaimSettles ==
    \A i \in Interrupts :
        (interrupt[i] = "resolving") ~>
            \/ interrupt[i] \in {"resolved", "failed"}
            \/ \E p \in Resumes : pc[p] = "crashed" /\ target[p] = i

(* However a turn or a resume ends, its row stops blocking the conversation. *)
RowSettles == IsActive(row) ~> ~IsActive(row)

=============================================================================
