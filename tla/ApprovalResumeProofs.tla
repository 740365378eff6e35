------------------------- MODULE ApprovalResumeProofs -------------------------
(***************************************************************************)
(* What ApprovalResume promises, for every number of resumes, approvals and *)
(* faults.                                                                  *)
(*                                                                          *)
(* The argument: the row, not the turn lock, makes a run exclusive.  A      *)
(* resume takes the row back with one conditional UPDATE before it claims   *)
(* an approval, so whoever works is the row's producer and nobody else can  *)
(* be; once the row is closed nobody takes it back again.  A running turn   *)
(* leaves no approval pending, so there is never more than one, and an      *)
(* overdue one leaves nothing to claim.                                     *)
(***************************************************************************)
EXTENDS ApprovalResume, GenerationRowsProofs, TLAPS

(* From taking the row back to the last write to it. *)
Working == {"reclaimed", "claimed", "running", "asked", "pausing", "completing", "failing"}

(* The row is a's, and a Stop is all that can have moved it past what a saw. *)
Owned(a) ==
    /\ row.producer = a
    /\ \/ row.status = "running" /\ seen[a] = row.version
       \/ row.status = "stop_requested" /\ seen[a] # row.version

(* No step leaves this: the row neither runs nor waits for an approval. *)
Closed == ~IsActive(row) /\ ~AwaitsApproval

Ownership ==
    \A a \in Actors :
        /\ pc[a] \in Working => Owned(a)
        /\ pc[a] = "stopping" => Owned(a) \/ Closed
        /\ pc[a] \in {"offered", "invalidating"} => Closed

TargetChosen == \A p \in Resumes : pc[p] # "idle" => target[p] \in Interrupts

(* What is in use is claimed; what was used is never offered again. *)
ClaimsHold ==
    /\ \A p \in Resumes : pc[p] \in InFlight => interrupt[target[p]] = "resolving"
    /\ \A x \in ran : interrupt[x[2]] \notin {"absent", "pending"}
    /\ \A p \in Resumes : pc[p] = "claimed" => \A x \in ran : x[2] # target[p]

UsedOnce == \A x, y \in ran : x[2] = y[2] => x = y

NonePending == \A i \in Interrupts : interrupt[i] # "pending"

(* The approval is used up before the run, and the next one asked in it. *)
OnePending ==
    /\ \A i, j \in Interrupts : interrupt[i] = "pending" /\ interrupt[j] = "pending" => i = j
    /\ \A a \in Actors : pc[a] \in {"claimed", "running", "completing", "offered"} => NonePending

(* Once the sweep has listed an approval nothing can be claimed any more. *)
SweptIsIdle ==
    sweep # None \/ ~checkpoint =>
        /\ \A i \in Interrupts : interrupt[i] = "pending" => i \in due
        /\ \A a \in Actors : pc[a] \notin {"claimed", "running"}

(* Nothing was lost and no client left during a reclaim. *)
Calm == faults = 0 /\ deserted = {}

(* Then the lock is exclusive, from the request to the end of the run. *)
LockIsHeld ==
    /\ faults = 0 => \A a \in holds : lock = a
    /\ Calm =>
         \A a \in Actors :
           pc[a] \in {"holding", "validated", "reclaimed", "claimed", "running", "asked"} =>
             a \in holds
    /\ \A a \in Actors : pc[a] = "crashed" => faults > 0
    /\ \A a \in Actors : pc[a] = "abandoned" => deserted # {}

(* Then a resume that is let in answers the approval that is open. *)
OpenIsTarget ==
    Calm =>
        /\ \A p \in Resumes :
             pc[p] \in {"validated", "reclaimed"} =>
               \A i \in Interrupts : interrupt[i] = "pending" => i = target[p]
        /\ \A a \in Actors : pc[a] \in {"failing", "stopping"} => NonePending

IInv ==
    /\ TypeOK /\ TargetChosen /\ Ownership /\ ClaimsHold /\ UsedOnce /\ OnePending
    /\ SweptIsIdle /\ LockIsHeld /\ OpenIsTarget /\ PendingIsAnswerable

-----------------------------------------------------------------------------
(* What a worker's last write leaves of the row. *)
LEMMA ConcludedRow ==
    ASSUME TypeOK, NEW a \in Actors, NEW intent \in Intents \ {"none"}
    PROVE  LET new == Concluded(a, intent) IN
           /\ new \in RowType(Actors)
           /\ new.producer = row.producer
           /\ ~IsActive(row) => new = row
           /\ Owned(a) =>
                /\ ~IsActive(new)
                /\ new.status = "continuable" /\ new.block = "tool_approval_required" =>
                     intent = "approval"
                /\ intent = "approval" =>
                     \/ new.status = "stopped"
                     \/ new.status = "continuable" /\ new.block = "tool_approval_required"
<1> DEFINE new == Concluded(a, intent)
<1>1. row \in RowType(Actors) /\ 0 \in Nat
  BY DEF TypeOK
<1>2. LegalFrom(intent) \subseteq ActiveStatuses
  BY LegalIntents
<1>3. CASE row.status \in LegalFrom(intent)
  <2>1. new = Settled(row, intent, 0)
    <3>1. ~(row.status = "stop_requested" /\ intent \notin {"failed", "stopped"})
      BY <1>3, LegalIntents
    <3> QED
      BY <1>3, <3>1, Zenon DEF Concluded, Matches
  <2>2. IsActive(row)
    BY <1>2, <1>3 DEF IsActive
  <2>3. /\ new \in RowType(Actors)
        /\ new.producer = row.producer
        /\ new.status \in TerminalStatuses \union {"continuable"}
        /\ intent = "approval" =>
             new.status = "continuable" /\ new.block = "tool_approval_required"
        /\ new.status = "continuable" /\ new.block = "tool_approval_required" =>
             intent = "approval"
    BY <1>1, <1>3, <2>1, SettledRow, StatusNames DEF Intents
  <2> QED
    BY <2>2, <2>3, StatusNames DEF IsActive
<1>4. CASE row.status \notin LegalFrom(intent) /\ IsActive(row) /\ row.version # seen[a]
            /\ row.status = "stop_requested" /\ intent \notin {"failed", "stopped"}
  <2>1. new = MarkStopped(row)
    BY <1>4, Zenon DEF Concluded, Matches
  <2>2. new \in RowType(Actors) /\ new.producer = row.producer /\ new.status = "stopped"
    BY <1>1, <2>1, StoppedRow
  <2> QED
    BY <1>4, <2>2 DEF IsActive, ActiveStatuses
<1>5. CASE /\ row.status \notin LegalFrom(intent)
           /\ ~(IsActive(row) /\ row.version # seen[a]
                  /\ row.status = "stop_requested" /\ intent \notin {"failed", "stopped"})
  <2>1. new = row
    <3>1. ~(row.version # seen[a] /\ row.status = "stop_requested"
              /\ intent \notin {"failed", "stopped"})
      BY <1>5 DEF IsActive, ActiveStatuses
    <3> QED
      BY <1>5, <3>1, Zenon DEF Concluded, Matches
  <2>2. ~Owned(a)
    <3>1. "running" \in LegalFrom(intent)
      BY LegalIntents
    <3>2. intent \in {"failed", "stopped"} => "stop_requested" \in LegalFrom(intent)
      BY LegalIntents
    <3> QED
      BY <1>5, <3>1, <3>2 DEF Owned, IsActive, ActiveStatuses
  <2> QED
    BY <1>1, <2>1, <2>2
<1> QED
  BY <1>3, <1>4, <1>5

(* The invariant holds when the turn starts. *)
LEMMA InitIInv == Init => IInv
<1> SUFFICES ASSUME Init PROVE IInv
  OBVIOUS
<1> USE BoundsAssumption, ActorsAssumption
<1>1. /\ row \in RowType(Actors) /\ row.status = "running" /\ row.producer = Turn
      /\ row.version \in Nat
  <2>1. Create(Turn) \in RowType(Actors) /\ Create(Turn).producer = Turn
    BY CreatedRow DEF Actors
  <2>2. row = MarkRunning(Create(Turn))
    BY DEF Init
  <2>3. row \in RowType(Actors) /\ row.status = "running" /\ row.producer = Turn
    BY <2>1, <2>2, RunningRow
  <2> QED BY <2>3 DEF RowType
<1>2. IsActive(row)
  BY <1>1 DEF IsActive, ActiveStatuses
<1>3. TypeOK
  <2>1. faults \in 0..MaxFaults /\ seen \in [Actors -> Nat]
    BY <1>1 DEF Init
  <2>2. pc \in [Actors -> Control] /\ interrupt \in [Interrupts -> InterruptStatus]
    BY DEF Init, Control, InterruptStatus
  <2> QED BY <1>1, <2>1, <2>2 DEF Init, TypeOK, Actors
<1>4. TargetChosen /\ Ownership /\ PendingIsAnswerable
  BY <1>1, <1>2 DEF Init, TargetChosen, Ownership, Working, Owned, PendingIsAnswerable, Actors
<1>5. ClaimsHold /\ UsedOnce /\ OnePending /\ SweptIsIdle /\ LockIsHeld /\ OpenIsTarget
  BY DEF Init, ClaimsHold, InFlight, UsedOnce, OnePending, NonePending, SweptIsIdle, Calm,
         LockIsHeld, OpenIsTarget, Actors
<1> QED BY <1>3, <1>4, <1>5 DEF IInv

-----------------------------------------------------------------------------
(* Types, one action at a time. *)
LEMMA TypeStep ==
    ASSUME TypeOK, TargetChosen, [Next]_vars PROVE TypeOK'
<1> USE BoundsAssumption
      DEF TypeOK, approvals, retention, locking, actors, history, InterruptStatus, Control,
          Actors
<1>1. ASSUME NEW p \in Resumes, Acquire(p) \/ Abandon(p) \/ ResumeStep(p) PROVE TypeOK'
  <2>1. CASE Acquire(p)
    BY <2>1 DEF Acquire, Goes
  <2>2. CASE Abandon(p)
    BY <2>2 DEF Abandon, Goes, Release
  <2>3. CASE Validate(p)
    BY <2>3 DEF Validate, Goes, Claimable
  <2>4. CASE Refuse(p)
    BY <2>4 DEF Refuse, Ends, Expired, Goes, Release
  <2>5. CASE Reclaim(p)
    <3>1. row' \in RowType(Actors) /\ row'.version \in Nat
      BY <2>5, ResumedRow DEF Reclaim, RowType
    <3> QED BY <2>5, <3>1 DEF Reclaim, Goes
  <2>6. CASE ReclaimRefused(p)
    BY <2>6 DEF ReclaimRefused, Ends, Goes, Release
  <2>7. CASE Claim(p)
    BY <2>7 DEF Claim, Goes, Claimable
  <2>8. CASE ClaimRefused(p)
    BY <2>8 DEF ClaimRefused, Goes, Expired, Failed
  <2>9. CASE Start(p)
    BY <2>9 DEF Start, Goes, TargetChosen
  <2>10. CASE ResolveUsed(p)
    BY <2>10 DEF ResolveUsed, Goes, Resolved
  <2>11. CASE Complete(p)
    BY <2>11 DEF Complete, Goes, Resolved
  <2>12. CASE CompleteRow(p)
    BY <2>12, ConcludedRow DEF CompleteRow, Ends, Goes, Release, Intents, Actors
  <2>13. CASE Offer(p)
    <3>1. PICK intent \in Intents \ {"none"} : row' = Concluded(p, intent)
      BY <2>13 DEF Offer, Intents
    <3> QED BY <2>13, <3>1, ConcludedRow DEF Offer, Goes
  <2>14. CASE OfferDone(p)
    BY <2>14 DEF OfferDone, Ends, Resolved, Failed, Goes, Release
  <2>15. CASE FailResume(p)
    BY <2>15 DEF FailResume, Goes, Failed
  <2>16. CASE FailRow(p)
    BY <2>16, ConcludedRow DEF FailRow, Ends, Goes, Release, Intents, Actors
  <2>17. CASE Disconnect(p)
    BY <2>17 DEF Disconnect, Goes, Failed
  <2>18. CASE StopRow(p)
    BY <2>18, ConcludedRow DEF StopRow, Ends, Goes, Release, Intents, Actors
  <2> QED
    BY <1>1, <2>1, <2>2, <2>3, <2>4, <2>5, <2>6, <2>7, <2>8, <2>9, <2>10, <2>11, <2>12,
       <2>13, <2>14, <2>15, <2>16, <2>17, <2>18 DEF ResumeStep, ActorStep
<1>2. ASSUME NEW a \in Actors, ActorStep(a) \/ Detach(a) \/ Crash(a) \/ Reap(a)
      PROVE TypeOK'
  <2>1. CASE Ask(a)
    BY <2>1 DEF Ask, Goes
  <2>2. CASE PauseRow(a)
    BY <2>2, ConcludedRow DEF PauseRow, Goes, Ends, Release, Intents, Actors
  <2>3. CASE Invalidate(a)
    BY <2>3 DEF Invalidate, Ends, AllExpired, Goes, Release
  <2>4. CASE Detach(a)
    BY <2>4 DEF Detach, Release, Failed, Shielded
  <2>5. CASE Crash(a)
    BY <2>5 DEF Crash, Goes, Fault
  <2>6. CASE Reap(a)
    BY <2>6, ReapedRow DEF Reap
  <2> QED BY <1>2, <2>1, <2>2, <2>3, <2>4, <2>5, <2>6 DEF ResumeStep, ActorStep
<1>3. ASSUME NEW i \in Interrupts, BecomeDue(i) \/ Expire(i) \/ SweepList(i)
      PROVE TypeOK'
  <2>1. CASE BecomeDue(i)
    BY <2>1 DEF BecomeDue
  <2>2. CASE Expire(i)
    BY <2>2 DEF Expire, Expired
  <2>3. CASE SweepList(i)
    BY <2>3 DEF SweepList
  <2> QED BY <1>3, <2>1, <2>2, <2>3 DEF ResumeStep, ActorStep
<1>4. CASE AskUnrecorded
  BY <1>4 DEF AskUnrecorded, Goes
<1>5. CASE FinishTurn
  <2>1. PICK intent \in Intents \ {"none"} : row' = Concluded(Turn, intent)
    BY <1>5 DEF FinishTurn, Intents
  <2> QED BY <1>5, <2>1, ConcludedRow DEF FinishTurn, Ends, Goes, Release
<1>6. CASE StopPaused
  BY <1>6, AcceptedRow DEF StopPaused
<1>7. CASE InvalidateStopped
  BY <1>7 DEF InvalidateStopped, AllExpired
<1>8. CASE StopRunning
  BY <1>8, StoppingRow DEF StopRunning
<1>9. CASE SweepMark
  BY <1>9 DEF SweepMark, Expired
<1>10. CASE SweepDelete
  BY <1>10 DEF SweepDelete
<1>11. CASE OtherStarts
  BY <1>11 DEF OtherStarts
<1>12. CASE OtherEnds
  BY <1>12 DEF OtherEnds, Release
<1>13. CASE LoseLock
  BY <1>13 DEF LoseLock, Fault
<1>14. CASE CrashStopping
  <2>1. faults' \in 0..MaxFaults
    BY <1>14 DEF CrashStopping, Fault
  <2> QED BY <1>14, <2>1 DEF CrashStopping, Fault
<1>15. CASE UNCHANGED vars
  BY <1>15 DEF vars
<1> QED
  BY <1>1, <1>2, <1>3, <1>4, <1>5, <1>6, <1>7, <1>8, <1>9, <1>10, <1>11, <1>12, <1>13,
     <1>14, <1>15 DEF Next, Others

(* An approval is chosen before anything is done with it. *)
LEMMA TargetStep ==
    ASSUME TypeOK, TargetChosen, [Next]_vars PROVE TargetChosen'
<1> USE DEF TypeOK, approvals, retention, locking, actors, history, TargetChosen, Actors
<1>1. ASSUME NEW p \in Resumes, Acquire(p) \/ Abandon(p) \/ ResumeStep(p) PROVE TargetChosen'
  <2>1. CASE Acquire(p)
    BY <2>1 DEF Acquire, Goes
  <2>2. CASE Abandon(p)
    BY <2>2 DEF Abandon, Goes, Release
  <2>3. CASE Validate(p)
    BY <2>3 DEF Validate, Goes, Claimable
  <2>4. CASE Refuse(p)
    BY <2>4 DEF Refuse, Ends, Expired, Goes, Release
  <2>5. CASE Reclaim(p)
    BY <2>5 DEF Reclaim, Goes
  <2>6. CASE ReclaimRefused(p)
    BY <2>6 DEF ReclaimRefused, Ends, Goes, Release
  <2>7. CASE Claim(p)
    BY <2>7 DEF Claim, Goes, Claimable
  <2>8. CASE ClaimRefused(p)
    BY <2>8 DEF ClaimRefused, Goes, Expired, Failed
  <2>9. CASE Start(p)
    BY <2>9 DEF Start, Goes
  <2>10. CASE ResolveUsed(p)
    BY <2>10 DEF ResolveUsed, Goes, Resolved
  <2>11. CASE Complete(p)
    BY <2>11 DEF Complete, Goes, Resolved
  <2>12. CASE CompleteRow(p)
    BY <2>12 DEF CompleteRow, Ends, Goes, Release
  <2>13. CASE Offer(p)
    BY <2>13 DEF Offer, Goes
  <2>14. CASE OfferDone(p)
    BY <2>14 DEF OfferDone, Ends, Resolved, Failed, Goes, Release
  <2>15. CASE FailResume(p)
    BY <2>15 DEF FailResume, Goes, Failed
  <2>16. CASE FailRow(p)
    BY <2>16 DEF FailRow, Ends, Goes, Release
  <2>17. CASE Disconnect(p)
    BY <2>17 DEF Disconnect, Goes, Failed
  <2>18. CASE StopRow(p)
    BY <2>18 DEF StopRow, Ends, Goes, Release
  <2> QED
    BY <1>1, <2>1, <2>2, <2>3, <2>4, <2>5, <2>6, <2>7, <2>8, <2>9, <2>10, <2>11, <2>12,
       <2>13, <2>14, <2>15, <2>16, <2>17, <2>18 DEF ResumeStep, ActorStep
<1>2. ASSUME NEW a \in Actors, ActorStep(a) \/ Detach(a) \/ Crash(a) \/ Reap(a)
      PROVE TargetChosen'
  <2>1. CASE Ask(a)
    BY <2>1 DEF Ask, Goes
  <2>2. CASE PauseRow(a)
    BY <2>2 DEF PauseRow, Goes, Ends, Release
  <2>3. CASE Invalidate(a)
    BY <2>3 DEF Invalidate, Ends, AllExpired, Goes, Release
  <2>4. CASE Detach(a)
    BY <2>4 DEF Detach, Release, Failed, Shielded
  <2>5. CASE Crash(a)
    BY <2>5 DEF Crash, Goes, Fault
  <2>6. CASE Reap(a)
    BY <2>6 DEF Reap
  <2> QED BY <1>2, <2>1, <2>2, <2>3, <2>4, <2>5, <2>6 DEF ResumeStep, ActorStep
<1>3. ASSUME NEW i \in Interrupts, BecomeDue(i) \/ Expire(i) \/ SweepList(i)
      PROVE TargetChosen'
  <2>1. CASE BecomeDue(i)
    BY <2>1 DEF BecomeDue
  <2>2. CASE Expire(i)
    BY <2>2 DEF Expire, Expired
  <2>3. CASE SweepList(i)
    BY <2>3 DEF SweepList
  <2> QED BY <1>3, <2>1, <2>2, <2>3 DEF ResumeStep, ActorStep
<1>4. CASE AskUnrecorded
  BY <1>4 DEF AskUnrecorded, Goes
<1>5. CASE FinishTurn
  BY <1>5 DEF FinishTurn, Ends, Goes, Release
<1>6. CASE StopPaused
  BY <1>6 DEF StopPaused
<1>7. CASE InvalidateStopped
  BY <1>7 DEF InvalidateStopped, AllExpired
<1>8. CASE StopRunning
  BY <1>8 DEF StopRunning
<1>9. CASE SweepMark
  BY <1>9 DEF SweepMark, Expired
<1>10. CASE SweepDelete
  BY <1>10 DEF SweepDelete
<1>11. CASE OtherStarts
  BY <1>11 DEF OtherStarts
<1>12. CASE OtherEnds
  BY <1>12 DEF OtherEnds, Release
<1>13. CASE LoseLock
  BY <1>13 DEF LoseLock, Fault
<1>14. CASE CrashStopping
  BY <1>14 DEF CrashStopping, Fault
<1>15. CASE UNCHANGED vars
  BY <1>15 DEF vars
<1> QED
  BY <1>1, <1>2, <1>3, <1>4, <1>5, <1>6, <1>7, <1>8, <1>9, <1>10, <1>11, <1>12, <1>13,
     <1>14, <1>15 DEF Next, Others

(* Whoever works owns the row: it is taken back only while nobody works, its *)
(* owner closes or pauses it, and a dead owner works no more.                *)
LEMMA OwnershipStep ==
    ASSUME TypeOK, Ownership, [Next]_vars PROVE Ownership'
<1> USE ActorsAssumption
      DEF TypeOK, approvals, retention, locking, actors, history, Ownership, Working, Owned,
          Closed, IsActive,
        ActiveStatuses, AwaitsApproval, Control, Actors
<1>1. ASSUME NEW p \in Resumes, Acquire(p) \/ Abandon(p) \/ ResumeStep(p) PROVE Ownership'
  <2>1. CASE Acquire(p)
    BY <2>1 DEF Acquire, Goes
  <2>2. CASE Abandon(p)
    BY <2>2 DEF Abandon, Goes, Release
  <2>3. CASE Validate(p)
    BY <2>3 DEF Validate, Goes, Claimable
  <2>4. CASE Refuse(p)
    BY <2>4 DEF Refuse, Ends, Expired, Goes, Release
  <2>5. CASE Reclaim(p)
    <3>1. /\ row'.status = "running" /\ row'.producer = p
        /\ row'.version \in Nat
      BY <2>5, ResumedRow DEF Reclaim, RowType
    <3> QED BY <2>5, <3>1 DEF Reclaim, Goes
  <2>6. CASE ReclaimRefused(p)
    BY <2>6 DEF ReclaimRefused, Ends, Goes, Release
  <2>7. CASE Claim(p)
    BY <2>7 DEF Claim, Goes, Claimable
  <2>8. CASE ClaimRefused(p)
    BY <2>8 DEF ClaimRefused, Goes, Expired, Failed
  <2>9. CASE Start(p)
    BY <2>9 DEF Start, Goes
  <2>10. CASE ResolveUsed(p)
    BY <2>10 DEF ResolveUsed, Goes, Resolved
  <2>11. CASE Complete(p)
    BY <2>11 DEF Complete, Goes, Resolved
  <2>12. CASE CompleteRow(p)
    <3>1. /\ Owned(p)
        /\ row'.producer = row.producer /\ ~IsActive(row')
        /\ ~(row'.status = "continuable" /\ row'.block = "tool_approval_required")
      BY <2>12, ConcludedRow DEF CompleteRow, Intents
    <3> QED BY <2>12, <3>1 DEF CompleteRow, Ends, Goes, Release
  <2>13. CASE Offer(p)
    <3>1. /\ Owned(p)
        /\ row'.producer = row.producer /\ ~IsActive(row')
        /\ ~(row'.status = "continuable" /\ row'.block = "tool_approval_required")
      <4>1. PICK intent \in Intents \ {"none", "approval"} : row' = Concluded(p, intent)
        BY <2>13 DEF Offer, Intents
      <4> QED BY <2>13, <4>1, ConcludedRow DEF Offer
    <3> QED BY <2>13, <3>1 DEF Offer, Goes
  <2>14. CASE OfferDone(p)
    BY <2>14 DEF OfferDone, Ends, Resolved, Failed, Goes, Release
  <2>15. CASE FailResume(p)
    BY <2>15 DEF FailResume, Goes, Failed
  <2>16. CASE FailRow(p)
    <3>1. /\ Owned(p)
        /\ row'.producer = row.producer /\ ~IsActive(row')
        /\ ~(row'.status = "continuable" /\ row'.block = "tool_approval_required")
      BY <2>16, ConcludedRow DEF FailRow, Intents
    <3> QED BY <2>16, <3>1 DEF FailRow, Ends, Goes, Release
  <2>17. CASE Disconnect(p)
    BY <2>17 DEF Disconnect, Goes, Failed
  <2>18. CASE StopRow(p)
    <3>1. CASE Closed
      <4>1. row' = row
        BY <2>18, <3>1, ConcludedRow DEF StopRow, Intents
      <4> QED BY <2>18, <4>1 DEF StopRow, Ends, Goes, Release
    <3>2. CASE Owned(p)
      <4>1. /\ row'.producer = row.producer /\ ~IsActive(row')
          /\ ~(row'.status = "continuable" /\ row'.block = "tool_approval_required")
        BY <2>18, <3>2, ConcludedRow DEF StopRow, Intents
      <4> QED BY <2>18, <3>2, <4>1 DEF StopRow, Ends, Goes, Release
    <3> QED BY <2>18, <3>1, <3>2 DEF StopRow
  <2> QED
    BY <1>1, <2>1, <2>2, <2>3, <2>4, <2>5, <2>6, <2>7, <2>8, <2>9, <2>10, <2>11, <2>12,
       <2>13, <2>14, <2>15, <2>16, <2>17, <2>18 DEF ResumeStep, ActorStep
<1>2. ASSUME NEW a \in Actors, ActorStep(a) \/ Detach(a) \/ Crash(a) \/ Reap(a)
      PROVE Ownership'
  <2>1. CASE Ask(a)
    BY <2>1 DEF Ask, Goes
  <2>2. CASE PauseRow(a)
    <3>1. Owned(a) /\ row'.producer = row.producer /\ ~IsActive(row')
      BY <2>2, ConcludedRow DEF PauseRow, Intents
    <3> QED BY <2>2, <3>1 DEF PauseRow, Goes, Ends, Release
  <2>3. CASE Invalidate(a)
    BY <2>3 DEF Invalidate, Ends, AllExpired, Goes, Release
  <2>4. CASE Detach(a)
    BY <2>4 DEF Detach, Release, Failed, Shielded
  <2>5. CASE Crash(a)
    BY <2>5 DEF Crash, Goes, Fault
  <2>6. CASE Reap(a)
    <3>1. row'.status = "failed"
      BY <2>6, ReapedRow DEF Reap
    <3> QED BY <2>6, <3>1 DEF Reap
  <2> QED BY <1>2, <2>1, <2>2, <2>3, <2>4, <2>5, <2>6 DEF ResumeStep, ActorStep
<1>3. ASSUME NEW i \in Interrupts, BecomeDue(i) \/ Expire(i) \/ SweepList(i)
      PROVE Ownership'
  <2>1. CASE BecomeDue(i)
    BY <2>1 DEF BecomeDue
  <2>2. CASE Expire(i)
    BY <2>2 DEF Expire, Expired
  <2>3. CASE SweepList(i)
    BY <2>3 DEF SweepList
  <2> QED BY <1>3, <2>1, <2>2, <2>3 DEF ResumeStep, ActorStep
<1>4. CASE AskUnrecorded
  BY <1>4 DEF AskUnrecorded, Goes
<1>5. CASE FinishTurn
  <2>1. /\ Owned(Turn)
      /\ row'.producer = row.producer /\ ~IsActive(row')
      /\ ~(row'.status = "continuable" /\ row'.block = "tool_approval_required")
    <3>1. PICK intent \in Intents \ {"none", "approval"} : row' = Concluded(Turn, intent)
      BY <1>5 DEF FinishTurn, Intents
    <3> QED BY <1>5, <3>1, ConcludedRow DEF FinishTurn
  <2> QED BY <1>5, <2>1 DEF FinishTurn, Ends, Goes, Release
<1>6. CASE StopPaused
  <2>1. row'.status = "completed_partial"
    BY <1>6, AcceptedRow DEF StopPaused
  <2> QED BY <1>6, <2>1 DEF StopPaused
<1>7. CASE InvalidateStopped
  BY <1>7 DEF InvalidateStopped, AllExpired
<1>8. CASE StopRunning
  <2>1. /\ row'.status = "stop_requested" /\ row'.producer = row.producer
      /\ row'.version = row.version + 1 /\ row.version \in Nat
    BY <1>8, StoppingRow DEF StopRunning, RowType
  <2> QED BY <1>8, <2>1 DEF StopRunning
<1>9. CASE SweepMark
  BY <1>9 DEF SweepMark, Expired
<1>10. CASE SweepDelete
  BY <1>10 DEF SweepDelete
<1>11. CASE OtherStarts
  BY <1>11 DEF OtherStarts
<1>12. CASE OtherEnds
  BY <1>12 DEF OtherEnds, Release
<1>13. CASE LoseLock
  BY <1>13 DEF LoseLock, Fault
<1>14. CASE CrashStopping
  BY <1>14 DEF CrashStopping, Fault
<1>15. CASE UNCHANGED vars
  BY <1>15 DEF vars
<1> QED
  BY <1>1, <1>2, <1>3, <1>4, <1>5, <1>6, <1>7, <1>8, <1>9, <1>10, <1>11, <1>12, <1>13,
     <1>14, <1>15 DEF Next, Others

(* A claim is given up only by its claimant, or when nobody runs. *)
LEMMA ClaimsStep ==
    ASSUME TypeOK, TargetChosen, Ownership, ClaimsHold, UsedOnce, [Next]_vars
    PROVE  ClaimsHold' /\ UsedOnce'
<1> USE ActorsAssumption
      DEF TypeOK, approvals, retention, locking, actors, history, TargetChosen, Ownership,
          Working, Owned, Closed, IsActive,
        ActiveStatuses, AwaitsApproval, InterruptStatus, Control, Actors, ClaimsHold,
        UsedOnce, InFlight
<1>1. ASSUME NEW p \in Resumes, Acquire(p) \/ Abandon(p) \/ ResumeStep(p)
      PROVE ClaimsHold' /\ UsedOnce'
  <2>1. CASE Acquire(p)
    BY <2>1 DEF Acquire, Goes
  <2>2. CASE Abandon(p)
    BY <2>2 DEF Abandon, Goes, Release
  <2>3. CASE Validate(p)
    BY <2>3 DEF Validate, Goes, Claimable
  <2>4. CASE Refuse(p)
    BY <2>4 DEF Refuse, Ends, Expired, Goes, Release
  <2>5. CASE Reclaim(p)
    BY <2>5 DEF Reclaim, Goes
  <2>6. CASE ReclaimRefused(p)
    BY <2>6 DEF ReclaimRefused, Ends, Goes, Release
  <2>7. CASE Claim(p)
    BY <2>7 DEF Claim, Goes, Claimable
  <2>8. CASE ClaimRefused(p)
    BY <2>8 DEF ClaimRefused, Goes, Expired, Failed
  <2>9. CASE Start(p)
    BY <2>9 DEF Start, Goes
  <2>10. CASE ResolveUsed(p)
    BY <2>10 DEF ResolveUsed, Goes, Resolved
  <2>11. CASE Complete(p)
    BY <2>11 DEF Complete, Goes, Resolved
  <2>12. CASE CompleteRow(p)
    BY <2>12 DEF CompleteRow, Ends, Goes, Release
  <2>13. CASE Offer(p)
    BY <2>13 DEF Offer, Goes
  <2>14. CASE OfferDone(p)
    BY <2>14 DEF OfferDone, Ends, Resolved, Failed, Goes, Release
  <2>15. CASE FailResume(p)
    BY <2>15 DEF FailResume, Goes, Failed
  <2>16. CASE FailRow(p)
    BY <2>16 DEF FailRow, Ends, Goes, Release
  <2>17. CASE Disconnect(p)
    BY <2>17 DEF Disconnect, Goes, Failed
  <2>18. CASE StopRow(p)
    BY <2>18 DEF StopRow, Ends, Goes, Release
  <2> QED
    BY <1>1, <2>1, <2>2, <2>3, <2>4, <2>5, <2>6, <2>7, <2>8, <2>9, <2>10, <2>11, <2>12,
       <2>13, <2>14, <2>15, <2>16, <2>17, <2>18 DEF ResumeStep, ActorStep
<1>2. ASSUME NEW a \in Actors, ActorStep(a) \/ Detach(a) \/ Crash(a) \/ Reap(a)
      PROVE ClaimsHold' /\ UsedOnce'
  <2>1. CASE Ask(a)
    BY <2>1 DEF Ask, Goes
  <2>2. CASE PauseRow(a)
    BY <2>2 DEF PauseRow, Goes, Ends, Release
  <2>3. CASE Invalidate(a)
    BY <2>3 DEF Invalidate, Ends, AllExpired, Goes, Release
  <2>4. CASE Detach(a)
    BY <2>4 DEF Detach, Release, Failed, Shielded
  <2>5. CASE Crash(a)
    BY <2>5 DEF Crash, Goes, Fault
  <2>6. CASE Reap(a)
    BY <2>6 DEF Reap
  <2> QED BY <1>2, <2>1, <2>2, <2>3, <2>4, <2>5, <2>6 DEF ResumeStep, ActorStep
<1>3. ASSUME NEW i \in Interrupts, BecomeDue(i) \/ Expire(i) \/ SweepList(i)
      PROVE ClaimsHold' /\ UsedOnce'
  <2>1. CASE BecomeDue(i)
    BY <2>1 DEF BecomeDue
  <2>2. CASE Expire(i)
    BY <2>2 DEF Expire, Expired
  <2>3. CASE SweepList(i)
    BY <2>3 DEF SweepList
  <2> QED BY <1>3, <2>1, <2>2, <2>3 DEF ResumeStep, ActorStep
<1>4. CASE AskUnrecorded
  BY <1>4 DEF AskUnrecorded, Goes
<1>5. CASE FinishTurn
  BY <1>5 DEF FinishTurn, Ends, Goes, Release
<1>6. CASE StopPaused
  BY <1>6 DEF StopPaused
<1>7. CASE InvalidateStopped
  BY <1>7 DEF InvalidateStopped, AllExpired
<1>8. CASE StopRunning
  BY <1>8 DEF StopRunning
<1>9. CASE SweepMark
  BY <1>9 DEF SweepMark, Expired
<1>10. CASE SweepDelete
  BY <1>10 DEF SweepDelete
<1>11. CASE OtherStarts
  BY <1>11 DEF OtherStarts
<1>12. CASE OtherEnds
  BY <1>12 DEF OtherEnds, Release
<1>13. CASE LoseLock
  BY <1>13 DEF LoseLock, Fault
<1>14. CASE CrashStopping
  BY <1>14 DEF CrashStopping, Fault
<1>15. CASE UNCHANGED vars
  BY <1>15 DEF vars
<1> QED
  BY <1>1, <1>2, <1>3, <1>4, <1>5, <1>6, <1>7, <1>8, <1>9, <1>10, <1>11, <1>12, <1>13,
     <1>14, <1>15 DEF Next, Others

(* The one that asks is the only one that runs, and it runs with none pending. *)
LEMMA PendingStep ==
    ASSUME TypeOK, TargetChosen, Ownership, OnePending, [Next]_vars
    PROVE  OnePending'
<1> USE ActorsAssumption
      DEF TypeOK, approvals, retention, locking, actors, history, TargetChosen, Ownership,
          Working, Owned, Closed,
        IsActive, ActiveStatuses, AwaitsApproval, InterruptStatus, Control, Actors, OnePending,
        NonePending
<1>1. ASSUME NEW p \in Resumes, Acquire(p) \/ Abandon(p) \/ ResumeStep(p) PROVE OnePending'
  <2>1. CASE Acquire(p)
    BY <2>1 DEF Acquire, Goes
  <2>2. CASE Abandon(p)
    BY <2>2 DEF Abandon, Goes, Release
  <2>3. CASE Validate(p)
    BY <2>3 DEF Validate, Goes, Claimable
  <2>4. CASE Refuse(p)
    BY <2>4 DEF Refuse, Ends, Expired, Goes, Release
  <2>5. CASE Reclaim(p)
    BY <2>5 DEF Reclaim, Goes
  <2>6. CASE ReclaimRefused(p)
    BY <2>6 DEF ReclaimRefused, Ends, Goes, Release
  <2>7. CASE Claim(p)
    BY <2>7 DEF Claim, Goes, Claimable
  <2>8. CASE ClaimRefused(p)
    BY <2>8 DEF ClaimRefused, Goes, Expired, Failed
  <2>9. CASE Start(p)
    BY <2>9 DEF Start, Goes
  <2>10. CASE ResolveUsed(p)
    BY <2>10 DEF ResolveUsed, Goes, Resolved
  <2>11. CASE Complete(p)
    BY <2>11 DEF Complete, Goes, Resolved
  <2>12. CASE CompleteRow(p)
    BY <2>12 DEF CompleteRow, Ends, Goes, Release
  <2>13. CASE Offer(p)
    BY <2>13 DEF Offer, Goes
  <2>14. CASE OfferDone(p)
    BY <2>14 DEF OfferDone, Ends, Resolved, Failed, Goes, Release
  <2>15. CASE FailResume(p)
    BY <2>15 DEF FailResume, Goes, Failed
  <2>16. CASE FailRow(p)
    BY <2>16 DEF FailRow, Ends, Goes, Release
  <2>17. CASE Disconnect(p)
    BY <2>17 DEF Disconnect, Goes, Failed
  <2>18. CASE StopRow(p)
    BY <2>18 DEF StopRow, Ends, Goes, Release
  <2> QED
    BY <1>1, <2>1, <2>2, <2>3, <2>4, <2>5, <2>6, <2>7, <2>8, <2>9, <2>10, <2>11, <2>12,
       <2>13, <2>14, <2>15, <2>16, <2>17, <2>18 DEF ResumeStep, ActorStep
<1>2. ASSUME NEW a \in Actors, ActorStep(a) \/ Detach(a) \/ Crash(a) \/ Reap(a)
      PROVE OnePending'
  <2>1. CASE Ask(a)
    BY <2>1 DEF Ask, Goes
  <2>2. CASE PauseRow(a)
    BY <2>2 DEF PauseRow, Goes, Ends, Release
  <2>3. CASE Invalidate(a)
    BY <2>3 DEF Invalidate, Ends, AllExpired, Goes, Release
  <2>4. CASE Detach(a)
    BY <2>4 DEF Detach, Release, Failed, Shielded
  <2>5. CASE Crash(a)
    BY <2>5 DEF Crash, Goes, Fault
  <2>6. CASE Reap(a)
    BY <2>6 DEF Reap
  <2> QED BY <1>2, <2>1, <2>2, <2>3, <2>4, <2>5, <2>6 DEF ResumeStep, ActorStep
<1>3. ASSUME NEW i \in Interrupts, BecomeDue(i) \/ Expire(i) \/ SweepList(i)
      PROVE OnePending'
  <2>1. CASE BecomeDue(i)
    BY <2>1 DEF BecomeDue
  <2>2. CASE Expire(i)
    BY <2>2 DEF Expire, Expired
  <2>3. CASE SweepList(i)
    BY <2>3 DEF SweepList
  <2> QED BY <1>3, <2>1, <2>2, <2>3 DEF ResumeStep, ActorStep
<1>4. CASE AskUnrecorded
  BY <1>4 DEF AskUnrecorded, Goes
<1>5. CASE FinishTurn
  BY <1>5 DEF FinishTurn, Ends, Goes, Release
<1>6. CASE StopPaused
  BY <1>6 DEF StopPaused
<1>7. CASE InvalidateStopped
  BY <1>7 DEF InvalidateStopped, AllExpired
<1>8. CASE StopRunning
  BY <1>8 DEF StopRunning
<1>9. CASE SweepMark
  BY <1>9 DEF SweepMark, Expired
<1>10. CASE SweepDelete
  BY <1>10 DEF SweepDelete
<1>11. CASE OtherStarts
  BY <1>11 DEF OtherStarts
<1>12. CASE OtherEnds
  BY <1>12 DEF OtherEnds, Release
<1>13. CASE LoseLock
  BY <1>13 DEF LoseLock, Fault
<1>14. CASE CrashStopping
  BY <1>14 DEF CrashStopping, Fault
<1>15. CASE UNCHANGED vars
  BY <1>15 DEF vars
<1> QED
  BY <1>1, <1>2, <1>3, <1>4, <1>5, <1>6, <1>7, <1>8, <1>9, <1>10, <1>11, <1>12, <1>13,
     <1>14, <1>15 DEF Next, Others

(* The sweep lists an approval only when it is the one that is open. *)
LEMMA SweptStep ==
    ASSUME TypeOK, TargetChosen, OnePending, SweptIsIdle, [Next]_vars
    PROVE  SweptIsIdle'
<1> USE ActorsAssumption
      DEF TypeOK, approvals, retention, locking, actors, history, InterruptStatus, Control,
          Actors, OnePending, NonePending,
        SweptIsIdle
<1>1. ASSUME NEW p \in Resumes, Acquire(p) \/ Abandon(p) \/ ResumeStep(p) PROVE SweptIsIdle'
  <2>1. CASE Acquire(p)
    BY <2>1 DEF Acquire, Goes
  <2>2. CASE Abandon(p)
    BY <2>2 DEF Abandon, Goes, Release
  <2>3. CASE Validate(p)
    BY <2>3 DEF Validate, Goes, Claimable
  <2>4. CASE Refuse(p)
    BY <2>4 DEF Refuse, Ends, Expired, Goes, Release
  <2>5. CASE Reclaim(p)
    BY <2>5 DEF Reclaim, Goes
  <2>6. CASE ReclaimRefused(p)
    BY <2>6 DEF ReclaimRefused, Ends, Goes, Release
  <2>7. CASE Claim(p)
    BY <2>7 DEF Claim, Goes, Claimable, TargetChosen
  <2>8. CASE ClaimRefused(p)
    BY <2>8 DEF ClaimRefused, Goes, Expired, Failed
  <2>9. CASE Start(p)
    BY <2>9 DEF Start, Goes
  <2>10. CASE ResolveUsed(p)
    BY <2>10 DEF ResolveUsed, Goes, Resolved
  <2>11. CASE Complete(p)
    BY <2>11 DEF Complete, Goes, Resolved
  <2>12. CASE CompleteRow(p)
    BY <2>12 DEF CompleteRow, Ends, Goes, Release
  <2>13. CASE Offer(p)
    BY <2>13 DEF Offer, Goes
  <2>14. CASE OfferDone(p)
    BY <2>14 DEF OfferDone, Ends, Resolved, Failed, Goes, Release
  <2>15. CASE FailResume(p)
    BY <2>15 DEF FailResume, Goes, Failed
  <2>16. CASE FailRow(p)
    BY <2>16 DEF FailRow, Ends, Goes, Release
  <2>17. CASE Disconnect(p)
    BY <2>17 DEF Disconnect, Goes, Failed
  <2>18. CASE StopRow(p)
    BY <2>18 DEF StopRow, Ends, Goes, Release
  <2> QED
    BY <1>1, <2>1, <2>2, <2>3, <2>4, <2>5, <2>6, <2>7, <2>8, <2>9, <2>10, <2>11, <2>12,
       <2>13, <2>14, <2>15, <2>16, <2>17, <2>18 DEF ResumeStep, ActorStep
<1>2. ASSUME NEW a \in Actors, ActorStep(a) \/ Detach(a) \/ Crash(a) \/ Reap(a)
      PROVE SweptIsIdle'
  <2>1. CASE Ask(a)
    BY <2>1 DEF Ask, Goes
  <2>2. CASE PauseRow(a)
    BY <2>2 DEF PauseRow, Goes, Ends, Release
  <2>3. CASE Invalidate(a)
    BY <2>3 DEF Invalidate, Ends, AllExpired, Goes, Release
  <2>4. CASE Detach(a)
    BY <2>4 DEF Detach, Release, Failed, Shielded
  <2>5. CASE Crash(a)
    BY <2>5 DEF Crash, Goes, Fault
  <2>6. CASE Reap(a)
    BY <2>6 DEF Reap
  <2> QED BY <1>2, <2>1, <2>2, <2>3, <2>4, <2>5, <2>6 DEF ResumeStep, ActorStep
<1>3. ASSUME NEW i \in Interrupts, BecomeDue(i) \/ Expire(i) \/ SweepList(i)
      PROVE SweptIsIdle'
  <2>1. CASE BecomeDue(i)
    BY <2>1 DEF BecomeDue
  <2>2. CASE Expire(i)
    BY <2>2 DEF Expire, Expired
  <2>3. CASE SweepList(i)
    BY <2>3 DEF SweepList
  <2> QED BY <1>3, <2>1, <2>2, <2>3 DEF ResumeStep, ActorStep
<1>4. CASE AskUnrecorded
  BY <1>4 DEF AskUnrecorded, Goes
<1>5. CASE FinishTurn
  BY <1>5 DEF FinishTurn, Ends, Goes, Release
<1>6. CASE StopPaused
  BY <1>6 DEF StopPaused
<1>7. CASE InvalidateStopped
  BY <1>7 DEF InvalidateStopped, AllExpired
<1>8. CASE StopRunning
  BY <1>8 DEF StopRunning
<1>9. CASE SweepMark
  BY <1>9 DEF SweepMark, Expired
<1>10. CASE SweepDelete
  BY <1>10 DEF SweepDelete
<1>11. CASE OtherStarts
  BY <1>11 DEF OtherStarts
<1>12. CASE OtherEnds
  BY <1>12 DEF OtherEnds, Release
<1>13. CASE LoseLock
  BY <1>13 DEF LoseLock, Fault
<1>14. CASE CrashStopping
  BY <1>14 DEF CrashStopping, Fault
<1>15. CASE UNCHANGED vars
  BY <1>15 DEF vars
<1> QED
  BY <1>1, <1>2, <1>3, <1>4, <1>5, <1>6, <1>7, <1>8, <1>9, <1>10, <1>11, <1>12, <1>13,
     <1>14, <1>15 DEF Next, Others

(* While nothing is lost the database and the holder agree on the lock. *)
LEMMA LockStep ==
    ASSUME TypeOK, LockIsHeld, [Next]_vars
    PROVE  LockIsHeld'
<1> USE ActorsAssumption, BoundsAssumption
      DEF TypeOK, approvals, retention, locking, actors, history, Control, Actors,
          LockIsHeld, Calm
<1>1. ASSUME NEW p \in Resumes, Acquire(p) \/ Abandon(p) \/ ResumeStep(p) PROVE LockIsHeld'
  <2>1. CASE Acquire(p)
    BY <2>1 DEF Acquire, Goes
  <2>2. CASE Abandon(p)
    BY <2>2 DEF Abandon, Goes, Release
  <2>3. CASE Validate(p)
    BY <2>3 DEF Validate, Goes, Claimable
  <2>4. CASE Refuse(p)
    BY <2>4 DEF Refuse, Ends, Expired, Goes, Release
  <2>5. CASE Reclaim(p)
    BY <2>5 DEF Reclaim, Goes
  <2>6. CASE ReclaimRefused(p)
    BY <2>6 DEF ReclaimRefused, Ends, Goes, Release
  <2>7. CASE Claim(p)
    BY <2>7 DEF Claim, Goes, Claimable
  <2>8. CASE ClaimRefused(p)
    BY <2>8 DEF ClaimRefused, Goes, Expired, Failed
  <2>9. CASE Start(p)
    BY <2>9 DEF Start, Goes
  <2>10. CASE ResolveUsed(p)
    BY <2>10 DEF ResolveUsed, Goes, Resolved
  <2>11. CASE Complete(p)
    BY <2>11 DEF Complete, Goes, Resolved
  <2>12. CASE CompleteRow(p)
    BY <2>12 DEF CompleteRow, Ends, Goes, Release
  <2>13. CASE Offer(p)
    BY <2>13 DEF Offer, Goes
  <2>14. CASE OfferDone(p)
    BY <2>14 DEF OfferDone, Ends, Resolved, Failed, Goes, Release
  <2>15. CASE FailResume(p)
    BY <2>15 DEF FailResume, Goes, Failed
  <2>16. CASE FailRow(p)
    BY <2>16 DEF FailRow, Ends, Goes, Release
  <2>17. CASE Disconnect(p)
    BY <2>17 DEF Disconnect, Goes, Failed
  <2>18. CASE StopRow(p)
    BY <2>18 DEF StopRow, Ends, Goes, Release
  <2> QED
    BY <1>1, <2>1, <2>2, <2>3, <2>4, <2>5, <2>6, <2>7, <2>8, <2>9, <2>10, <2>11, <2>12,
       <2>13, <2>14, <2>15, <2>16, <2>17, <2>18 DEF ResumeStep, ActorStep
<1>2. ASSUME NEW a \in Actors, ActorStep(a) \/ Detach(a) \/ Crash(a) \/ Reap(a)
      PROVE LockIsHeld'
  <2>1. CASE Ask(a)
    BY <2>1 DEF Ask, Goes
  <2>2. CASE PauseRow(a)
    BY <2>2 DEF PauseRow, Goes, Ends, Release
  <2>3. CASE Invalidate(a)
    BY <2>3 DEF Invalidate, Ends, AllExpired, Goes, Release
  <2>4. CASE Detach(a)
    BY <2>4 DEF Detach, Release, Failed, Shielded
  <2>5. CASE Crash(a)
    BY <2>5 DEF Crash, Goes, Fault
  <2>6. CASE Reap(a)
    BY <2>6 DEF Reap
  <2> QED BY <1>2, <2>1, <2>2, <2>3, <2>4, <2>5, <2>6 DEF ResumeStep, ActorStep
<1>3. ASSUME NEW i \in Interrupts, BecomeDue(i) \/ Expire(i) \/ SweepList(i)
      PROVE LockIsHeld'
  <2>1. CASE BecomeDue(i)
    BY <2>1 DEF BecomeDue
  <2>2. CASE Expire(i)
    BY <2>2 DEF Expire, Expired
  <2>3. CASE SweepList(i)
    BY <2>3 DEF SweepList
  <2> QED BY <1>3, <2>1, <2>2, <2>3 DEF ResumeStep, ActorStep
<1>4. CASE AskUnrecorded
  BY <1>4 DEF AskUnrecorded, Goes
<1>5. CASE FinishTurn
  BY <1>5 DEF FinishTurn, Ends, Goes, Release
<1>6. CASE StopPaused
  BY <1>6 DEF StopPaused
<1>7. CASE InvalidateStopped
  BY <1>7 DEF InvalidateStopped, AllExpired
<1>8. CASE StopRunning
  BY <1>8 DEF StopRunning
<1>9. CASE SweepMark
  BY <1>9 DEF SweepMark, Expired
<1>10. CASE SweepDelete
  BY <1>10 DEF SweepDelete
<1>11. CASE OtherStarts
  BY <1>11 DEF OtherStarts
<1>12. CASE OtherEnds
  BY <1>12 DEF OtherEnds, Release
<1>13. CASE LoseLock
  BY <1>13 DEF LoseLock, Fault
<1>14. CASE CrashStopping
  BY <1>14 DEF CrashStopping, Fault
<1>15. CASE UNCHANGED vars
  BY <1>15 DEF vars
<1> QED
  BY <1>1, <1>2, <1>3, <1>4, <1>5, <1>6, <1>7, <1>8, <1>9, <1>10, <1>11, <1>12, <1>13,
     <1>14, <1>15 DEF Next, Others

(* Under the lock, what a resume was let in for is what is open. *)
LEMMA OpenStep ==
    ASSUME TypeOK, TargetChosen, Ownership, OnePending, LockIsHeld, OpenIsTarget, [Next]_vars
    PROVE  OpenIsTarget'
<1> USE ActorsAssumption, BoundsAssumption
      DEF TypeOK, approvals, retention, locking, actors, history, TargetChosen, Ownership,
          Working, Owned,
        Closed, IsActive, ActiveStatuses, AwaitsApproval, InterruptStatus, Control, Actors,
        OnePending, NonePending, LockIsHeld, Calm, OpenIsTarget
<1>1. ASSUME NEW p \in Resumes, Acquire(p) \/ Abandon(p) \/ ResumeStep(p) PROVE OpenIsTarget'
  <2>1. CASE Acquire(p)
    BY <2>1 DEF Acquire, Goes
  <2>2. CASE Abandon(p)
    BY <2>2 DEF Abandon, Goes, Release
  <2>3. CASE Validate(p)
    BY <2>3 DEF Validate, Goes, Claimable
  <2>4. CASE Refuse(p)
    BY <2>4 DEF Refuse, Ends, Expired, Goes, Release
  <2>5. CASE Reclaim(p)
    BY <2>5 DEF Reclaim, Goes
  <2>6. CASE ReclaimRefused(p)
    BY <2>6 DEF ReclaimRefused, Ends, Goes, Release
  <2>7. CASE Claim(p)
    BY <2>7 DEF Claim, Goes, Claimable
  <2>8. CASE ClaimRefused(p)
    BY <2>8 DEF ClaimRefused, Goes, Expired, Failed
  <2>9. CASE Start(p)
    BY <2>9 DEF Start, Goes
  <2>10. CASE ResolveUsed(p)
    BY <2>10 DEF ResolveUsed, Goes, Resolved
  <2>11. CASE Complete(p)
    BY <2>11 DEF Complete, Goes, Resolved
  <2>12. CASE CompleteRow(p)
    BY <2>12 DEF CompleteRow, Ends, Goes, Release
  <2>13. CASE Offer(p)
    BY <2>13 DEF Offer, Goes
  <2>14. CASE OfferDone(p)
    BY <2>14 DEF OfferDone, Ends, Resolved, Failed, Goes, Release
  <2>15. CASE FailResume(p)
    BY <2>15 DEF FailResume, Goes, Failed
  <2>16. CASE FailRow(p)
    BY <2>16 DEF FailRow, Ends, Goes, Release
  <2>17. CASE Disconnect(p)
    BY <2>17 DEF Disconnect, Goes, Failed
  <2>18. CASE StopRow(p)
    BY <2>18 DEF StopRow, Ends, Goes, Release
  <2> QED
    BY <1>1, <2>1, <2>2, <2>3, <2>4, <2>5, <2>6, <2>7, <2>8, <2>9, <2>10, <2>11, <2>12,
       <2>13, <2>14, <2>15, <2>16, <2>17, <2>18 DEF ResumeStep, ActorStep
<1>2. ASSUME NEW a \in Actors, ActorStep(a) \/ Detach(a) \/ Crash(a) \/ Reap(a)
      PROVE OpenIsTarget'
  <2>1. CASE Ask(a)
    BY <2>1 DEF Ask, Goes
  <2>2. CASE PauseRow(a)
    BY <2>2 DEF PauseRow, Goes, Ends, Release
  <2>3. CASE Invalidate(a)
    BY <2>3 DEF Invalidate, Ends, AllExpired, Goes, Release
  <2>4. CASE Detach(a)
    BY <2>4 DEF Detach, Release, Failed, Shielded
  <2>5. CASE Crash(a)
    BY <2>5 DEF Crash, Goes, Fault
  <2>6. CASE Reap(a)
    BY <2>6 DEF Reap
  <2> QED BY <1>2, <2>1, <2>2, <2>3, <2>4, <2>5, <2>6 DEF ResumeStep, ActorStep
<1>3. ASSUME NEW i \in Interrupts, BecomeDue(i) \/ Expire(i) \/ SweepList(i)
      PROVE OpenIsTarget'
  <2>1. CASE BecomeDue(i)
    BY <2>1 DEF BecomeDue
  <2>2. CASE Expire(i)
    BY <2>2 DEF Expire, Expired
  <2>3. CASE SweepList(i)
    BY <2>3 DEF SweepList
  <2> QED BY <1>3, <2>1, <2>2, <2>3 DEF ResumeStep, ActorStep
<1>4. CASE AskUnrecorded
  BY <1>4 DEF AskUnrecorded, Goes
<1>5. CASE FinishTurn
  BY <1>5 DEF FinishTurn, Ends, Goes, Release
<1>6. CASE StopPaused
  BY <1>6 DEF StopPaused
<1>7. CASE InvalidateStopped
  BY <1>7 DEF InvalidateStopped, AllExpired
<1>8. CASE StopRunning
  BY <1>8 DEF StopRunning
<1>9. CASE SweepMark
  BY <1>9 DEF SweepMark, Expired
<1>10. CASE SweepDelete
  BY <1>10 DEF SweepDelete
<1>11. CASE OtherStarts
  BY <1>11 DEF OtherStarts
<1>12. CASE OtherEnds
  BY <1>12 DEF OtherEnds, Release
<1>13. CASE LoseLock
  BY <1>13 DEF LoseLock, Fault
<1>14. CASE CrashStopping
  BY <1>14 DEF CrashStopping, Fault
<1>15. CASE UNCHANGED vars
  BY <1>15 DEF vars
<1> QED
  BY <1>1, <1>2, <1>3, <1>4, <1>5, <1>6, <1>7, <1>8, <1>9, <1>10, <1>11, <1>12, <1>13,
     <1>14, <1>15 DEF Next, Others

(* Whoever closes the row leaves no approval open, or is on its way to them. *)
LEMMA AnswerableStep ==
    ASSUME TypeOK, TargetChosen, Ownership, OnePending, LockIsHeld, OpenIsTarget,
           PendingIsAnswerable, [Next]_vars
    PROVE  PendingIsAnswerable'
<1> USE ActorsAssumption, BoundsAssumption
      DEF TypeOK, approvals, retention, locking, actors, history, InterruptStatus, Control,
          Actors,
        OnePending, NonePending, LockIsHeld, Calm, OpenIsTarget, PendingIsAnswerable,
        IsActive, ActiveStatuses, AwaitsApproval
<1>1. ASSUME NEW p \in Resumes, Acquire(p) \/ Abandon(p) \/ ResumeStep(p) PROVE PendingIsAnswerable'
  <2>1. CASE Acquire(p)
    BY <2>1 DEF Acquire, Goes
  <2>2. CASE Abandon(p)
    BY <2>2 DEF Abandon, Goes, Release
  <2>3. CASE Validate(p)
    BY <2>3 DEF Validate, Goes, Claimable
  <2>4. CASE Refuse(p)
    BY <2>4 DEF Refuse, Ends, Expired, Goes, Release
  <2>5. CASE Reclaim(p)
    <3>1. row'.status = "running"
      BY <2>5, ResumedRow, SMTT(30) DEF Reclaim
    <3> QED BY <2>5, <3>1 DEF Reclaim, Goes
  <2>6. CASE ReclaimRefused(p)
    BY <2>6 DEF ReclaimRefused, Ends, Goes, Release
  <2>7. CASE Claim(p)
    BY <2>7 DEF Claim, Goes, Claimable
  <2>8. CASE ClaimRefused(p)
    BY <2>8 DEF ClaimRefused, Goes, Expired, Failed
  <2>9. CASE Start(p)
    BY <2>9 DEF Start, Goes
  <2>10. CASE ResolveUsed(p)
    BY <2>10 DEF ResolveUsed, Goes, Resolved
  <2>11. CASE Complete(p)
    BY <2>11 DEF Complete, Goes, Resolved
  <2>12. CASE CompleteRow(p)
    BY <2>12 DEF CompleteRow, Ends, Goes, Release
  <2>13. CASE Offer(p)
    BY <2>13 DEF Offer, Goes
  <2>14. CASE OfferDone(p)
    BY <2>14 DEF OfferDone, Ends, Resolved, Failed, Goes, Release
  <2>15. CASE FailResume(p)
    BY <2>15 DEF FailResume, Goes, Failed
  <2>16. CASE FailRow(p)
    BY <2>16 DEF FailRow, Ends, Goes, Release
  <2>17. CASE Disconnect(p)
    BY <2>17 DEF Disconnect, Goes, Failed
  <2>18. CASE StopRow(p)
    BY <2>18 DEF StopRow, Ends, Goes, Release
  <2> QED
    BY <1>1, <2>1, <2>2, <2>3, <2>4, <2>5, <2>6, <2>7, <2>8, <2>9, <2>10, <2>11, <2>12,
       <2>13, <2>14, <2>15, <2>16, <2>17, <2>18 DEF ResumeStep, ActorStep
<1>2. ASSUME NEW a \in Actors, ActorStep(a) \/ Detach(a) \/ Crash(a) \/ Reap(a)
      PROVE PendingIsAnswerable'
  <2>1. CASE Ask(a)
    BY <2>1 DEF Ask, Goes, Ownership, Working, Owned
  <2>2. CASE PauseRow(a)
    <3>1. row'.status = "stopped" \/ AwaitsApproval'
      BY <2>2, ConcludedRow DEF PauseRow, Intents, Ownership, Working
    <3> QED BY <2>2, <3>1 DEF PauseRow, Goes, Ends, Release
  <2>3. CASE Invalidate(a)
    BY <2>3 DEF Invalidate, Ends, AllExpired, Goes, Release
  <2>4. CASE Detach(a)
    BY <2>4 DEF Detach, Release, Failed, Shielded
  <2>5. CASE Crash(a)
    BY <2>5 DEF Crash, Goes, Fault
  <2>6. CASE Reap(a)
    BY <2>6 DEF Reap
  <2> QED BY <1>2, <2>1, <2>2, <2>3, <2>4, <2>5, <2>6 DEF ResumeStep, ActorStep
<1>3. ASSUME NEW i \in Interrupts, BecomeDue(i) \/ Expire(i) \/ SweepList(i)
      PROVE PendingIsAnswerable'
  <2>1. CASE BecomeDue(i)
    BY <2>1 DEF BecomeDue
  <2>2. CASE Expire(i)
    BY <2>2 DEF Expire, Expired
  <2>3. CASE SweepList(i)
    BY <2>3 DEF SweepList
  <2> QED BY <1>3, <2>1, <2>2, <2>3 DEF ResumeStep, ActorStep
<1>4. CASE AskUnrecorded
  BY <1>4 DEF AskUnrecorded, Goes
<1>5. CASE FinishTurn
  BY <1>5 DEF FinishTurn, Ends, Goes, Release
<1>6. CASE StopPaused
  BY <1>6 DEF StopPaused
<1>7. CASE InvalidateStopped
  BY <1>7 DEF InvalidateStopped, AllExpired
<1>8. CASE StopRunning
  <2>1. row'.status = "stop_requested"
    BY <1>8, StoppingRow DEF StopRunning
  <2> QED BY <1>8, <2>1 DEF StopRunning
<1>9. CASE SweepMark
  BY <1>9 DEF SweepMark, Expired
<1>10. CASE SweepDelete
  BY <1>10 DEF SweepDelete
<1>11. CASE OtherStarts
  BY <1>11 DEF OtherStarts
<1>12. CASE OtherEnds
  BY <1>12 DEF OtherEnds, Release
<1>13. CASE LoseLock
  BY <1>13 DEF LoseLock, Fault
<1>14. CASE CrashStopping
  BY <1>14 DEF CrashStopping, Fault
<1>15. CASE UNCHANGED vars
  BY <1>15 DEF vars
<1> QED
  BY <1>1, <1>2, <1>3, <1>4, <1>5, <1>6, <1>7, <1>8, <1>9, <1>10, <1>11, <1>12, <1>13,
     <1>14, <1>15 DEF Next, Others

-----------------------------------------------------------------------------
(* The invariant is inductive. *)
LEMMA StepIInv == IInv /\ [Next]_vars => IInv'
<1> SUFFICES ASSUME IInv, [Next]_vars PROVE IInv'
  OBVIOUS
<1>1. TypeOK' /\ TargetChosen'
  BY TypeStep, TargetStep DEF IInv
<1>2. Ownership' /\ ClaimsHold' /\ UsedOnce'
  BY OwnershipStep, ClaimsStep DEF IInv
<1>3. OnePending' /\ SweptIsIdle'
  BY PendingStep, SweptStep DEF IInv
<1>4. LockIsHeld' /\ OpenIsTarget' /\ PendingIsAnswerable'
  BY LockStep, OpenStep, AnswerableStep DEF IInv
<1> QED BY <1>1, <1>2, <1>3, <1>4 DEF IInv

(* IInv is an invariant of the specification. *)
LEMMA Invariance == Spec => []IInv
BY InitIInv, StepIInv, PTL DEF Spec

(* The row, the approvals and every actor keep the values the code knows. *)
THEOREM TypeCorrect == Spec => []TypeOK
<1>1. IInv => TypeOK
  BY DEF IInv
<1> QED BY <1>1, Invariance, PTL

(* While a resume runs, its approval stays claimed and the row stays active  *)
(* and its own, however many rivals believe they hold the turn lock          *)
(* (mark_resumed_after_approval before try_transition_to_resolving).         *)
THEOREM RunIsOwned == Spec => []RunsUnderItsClaim
<1>1. IInv => RunsUnderItsClaim
  BY DEF IInv, RunsUnderItsClaim, Ownership, Working, Owned, IsActive, ActiveStatuses, InFlight,
         ClaimsHold, Actors
<1> QED BY <1>1, Invariance, PTL

(* A decision runs the graph once, and one resume at a time runs it.         *)
THEOREM OneRunPerDecision == Spec => []DecisionRunsOnce
<1>1. IInv => DecisionRunsOnce
  BY DEF IInv, DecisionRunsOnce, Ownership, Working, Owned, InFlight, UsedOnce, Actors
<1> QED BY <1>1, Invariance, PTL

(* The retention sweep never deletes the checkpoint of a run                 *)
(* (cleanup_expired_and_deleted_threads does not look again after listing).  *)
THEOREM CheckpointKept == Spec => []CheckpointOutlivesTheRun
<1>1. IInv => CheckpointOutlivesTheRun
  BY DEF IInv, CheckpointOutlivesTheRun, SweptIsIdle, Actors
<1> QED BY <1>1, Invariance, PTL

(* An approval a user can still answer has a row that waits for the answer,  *)
(* but for the known exceptions.                                             *)
THEOREM OpenApprovalIsAnswerable == Spec => []PendingIsAnswerable
<1>1. IInv => PendingIsAnswerable
  BY DEF IInv
<1> QED BY <1>1, Invariance, PTL

=============================================================================
