-------------------------- MODULE TurnStreamProofs --------------------------
(***************************************************************************)
(* Proofs about TurnStream, for every set of failures: the type invariant,  *)
(* and that a turn settles its row, stores before it offers, keeps the text *)
(* it streamed and tells of a failed run, however it is cancelled.          *)
(*                                                                          *)
(* These properties speak of the end of a turn, so the invariant says   *)
(* what is true at every step on the way: where the row and its snapshot    *)
(* stand (RowByStep), who waits for the step (CallerByStep), what is stored *)
(* (SavedByStep), what the ending being written rests on (IntentIsBacked),  *)
(* and what has become of the text (TextByStep) and of a failure of the     *)
(* graph (FailureByStep).                                                   *)
(***************************************************************************)
EXTENDS TurnStream, GenerationRowsProofs, TLAPS

(* The statuses the row can have here: its own, a Stop's, and the endings. *)
RowShape ==
    row.status \in {"absent", "starting", "running", "stop_requested"}
                     \union TerminalStatuses \union {"continuable"}

(* The snapshot lags the row by at most one write, a Stop's or an ending.   *)
RowIsTied ==
    \/ row = held
    \/ /\ row.version = held.version + 1
       /\ row.status \in {"stop_requested"} \union TerminalStatuses \union {"continuable"}

(* Where the row stands at each step: absent before it is created, active   *)
(* until it is settled; `starting` past mark_running only if that failed.   *)
RowByStep ==
    /\ pc = "create" => row.status = "absent" /\ row = held
    /\ row.status = "absent" => pc \in {"create", "over"}
    /\ pc = "run" => held.status = "starting"
    /\ pc \notin {"create", "keep_partial", "apply", "reread", "retry", "tail", "over"} =>
         IsActive(row)
    /\ row.status = "starting" /\ pc # "run" => "running" \in faults
    /\ held.status = "stop_requested" =>
         \/ pc \in {"keep_partial", "tail", "over"}
         \/ pc \in {"apply", "reread", "retry"} /\ intent \in {"failed", "stopped"}

(* A terminal path or an except clause has the turn in hand. *)
Taken == turn.persisted \/ turn.settling \/ turn.handled

(* Whose step it is, and which exits are still open to it. *)
CallerByStep ==
    /\ caller = "inline" =>
         \/ pc \in {"opened", "graph", "stop_save", "tail", "over"}
         \/ pc \in {"apply", "reread", "retry"} /\ ~turn.persisted /\ ~turn.settling
    /\ caller = "inline" /\ pc # "over" => ~turn.handled
    /\ pc \in {"pause_save", "pause_images", "finish_save", "finish_images", "fail_inner"} =>
         turn.settling
    /\ pc \in {"fail_save", "keep_partial"} => turn.handled
    /\ pc \in {"create", "run"} => turn.entry = "none"
    /\ pc \in {"create", "run", "opened", "graph", "stop_save"} =>
         ~turn.persisted /\ ~turn.settling /\ ~turn.handled
    /\ pc \in {"opened", "graph", "stop_save"} => caller = "inline"
    /\ pc = "tail" => caller = "inline"

(* What is stored under the reserved id at each step. *)
SavedByStep ==
    /\ pc \in {"create", "run", "opened", "graph", "stop_save", "pause_save", "finish_save"} =>
         saved = "none"
    /\ pc = "pause_images" => saved = "paused"
    /\ pc = "finish_images" => saved \in {"answer", "failure"}
    /\ pc \in {"fail_inner", "fail_save"} =>
         saved = "none" \/ (saved \in {"answer", "failure"} /\ "images" \in faults)
    /\ pc = "keep_partial" => saved \in {"none", "partial"}
    /\ pc \in {"apply", "reread", "retry", "tail"} /\ ~Taken => saved \in {"none", "partial"}
    /\ saved = "failure" => "graph" \in faults

(* The ending being written stands for a message already stored. *)
IntentIsBacked ==
    /\ pc \in {"apply", "reread", "retry"} =>
         /\ intent \in {"failed", "stopped", "completed", "continuable", "blocked", "approval"}
         /\ intent = "completed" /\ turn.replies => saved \in {"answer", "failure"}
         /\ intent \in {"continuable", "blocked"} => saved = "paused"
         /\ intent = "approval" => saved = "interrupt"
    /\ pc = "reread" /\ row.version = held.version => row.status \notin LegalFrom(intent)
    /\ pc = "retry" =>
         /\ row = held
         /\ row.status \in {"stop_requested"} \union TerminalStatuses \union {"continuable"}

(* The steps at which a message is stored, if the turn stores one at all. *)
Stored == {"apply", "reread", "retry", "tail", "over", "pause_images", "finish_images"}

(* Text is streamed by the graph alone, and every way on from it that none  *)
(* of its own failures takes stores it.                                     *)
TextByStep ==
    /\ pc \in {"create", "run", "opened"} => ~turn.text /\ ~turn.replies
    /\ turn.text /\ faults \intersect LosesText = {} =>
         /\ pc \in Stored => saved \in {"answer", "partial", "paused", "interrupt"}
         /\ pc \in {"fail_inner", "fail_save"} => saved = "answer"

(* A graph that failed leads to the two ways of telling it, out of reach of *)
(* the clean-up that keeps a partial.                                       *)
FailureByStep ==
    "graph" \in faults =>
      /\ pc \in Stored \union {"finish_save", "fail_inner", "fail_save"}
      /\ pc # "pause_images"
      /\ Taken
      /\ saved \in {"none", "failure", "error"}
      /\ pc \in Stored /\ "error" \notin faults => saved # "none"

(* A turn past its last write has settled, or a write it needs has failed. *)
EndIsSettled ==
    pc \in {"tail", "over"} /\ ~Unrecoverable => ~IsActive(row) /\ turn.entry # "live"

(* The inductive invariant. *)
IInv ==
    /\ TypeOK
    /\ RowShape
    /\ RowIsTied
    /\ RowByStep
    /\ CallerByStep
    /\ SavedByStep
    /\ IntentIsBacked
    /\ TextByStep
    /\ FailureByStep
    /\ EndIsSettled
    /\ StoredBeforeSettled

-----------------------------------------------------------------------------
(* The names of the steps that need them. *)
Settling == {"apply", "reread", "retry"}

(* The writes of this turn that do not touch the row or its snapshot. *)
RowUntouched == row' = row /\ held' = held

(* Failures accumulate, and the graph fails only while it runs. *)
FaultsGrow ==
    /\ faults \subseteq faults'
    /\ faults' \subseteq FaultPoints
    /\ "graph" \in faults' => "graph" \in faults \/ pc = "graph"

(* A fault is recorded. *)
LEMMA FaultsGrowing ==
    ASSUME faults \subseteq FaultPoints, NEW p, Fails(p), p = "graph" => pc = "graph"
    PROVE  FaultsGrow /\ p \in faults'
  BY DEF Fails, FaultsGrow

(* A step that works records no fault. *)
LEMMA FaultsKept ==
    ASSUME faults \subseteq FaultPoints, Works
    PROVE  FaultsGrow /\ faults' = faults
  BY DEF Works, FaultsGrow

(* The initial states satisfy the invariant. *)
LEMMA InvInit == Init => IInv
  <1> SUFFICES ASSUME Init PROVE IInv
    OBVIOUS
  <1>1. NoRow(Worker) \in RowType({Worker}) /\ NoRow(Worker).status = "absent"
    BY CreatedRow DEF NoRow
  <1>2. row.status = "absent" /\ row = held /\ row \in RowType({Worker})
    BY <1>1 DEF Init
  <1>3. ~IsActive(row)
    BY <1>2 DEF IsActive, ActiveStatuses
  <1>4. TypeOK
    BY <1>2 DEF Init, TypeOK, Messages, Pcs, Turn, Intents
  <1>5. RowShape /\ RowIsTied /\ RowByStep
    BY <1>2 DEF Init, RowShape, RowIsTied, RowByStep
  <1>6. CallerByStep /\ SavedByStep /\ IntentIsBacked /\ TextByStep /\ FailureByStep
    BY DEF Init, CallerByStep, SavedByStep, IntentIsBacked, TextByStep, FailureByStep
  <1>7. EndIsSettled /\ StoredBeforeSettled
    BY <1>2 DEF Init, EndIsSettled, StoredBeforeSettled
  <1> QED
    BY <1>4, <1>5, <1>6, <1>7 DEF IInv

(* An exception that reaches the generator: stored as the answer, or the    *)
(* end of the turn after a failure it cannot recover from.                  *)
LEMMA RaiseKeeps ==
    ASSUME IInv, Raise, FaultsGrow,
           pc \in {"opened", "graph", "stop_save", "fail_inner", "fail_save"},
           pc \in {"fail_inner", "fail_save"} => "error" \in faults' \/ saved # "none",
           pc \in {"graph", "stop_save"} => faults' \intersect LosesText # {}
    PROVE  IInv'
  <1> USE DEF IInv, FaultsGrow
  <1>1. RowUntouched /\ saved' = saved /\ intent' = intent
    BY DEF Raise, RowUntouched
  <1>2. TypeOK'
    BY <1>1 DEF Raise, TypeOK, RowUntouched, Pcs, Turn
  <1>3. pc' \in {"over", "fail_save"}
    BY DEF Raise
  <1>4. RowShape' /\ RowIsTied'
    BY <1>1 DEF RowUntouched, RowShape, RowIsTied
  <1>5. RowByStep'
    BY <1>1, <1>3 DEF RowUntouched, RowByStep, IsActive, ActiveStatuses, RowShape
  <1>6. CallerByStep'
    BY DEF Raise, CallerByStep, TypeOK, Turn
  <1>7. SavedByStep'
    BY <1>1, <1>3 DEF SavedByStep
  <1>8. IntentIsBacked' /\ StoredBeforeSettled'
    BY <1>1, <1>3 DEF IntentIsBacked, StoredBeforeSettled, RowUntouched, Raise, TypeOK, Turn
  <1>9. TextByStep'
    BY <1>1, <1>3 DEF TextByStep, Raise, TypeOK, Turn, Stored
  <1>10. EndIsSettled'
    BY <1>1, <1>3 DEF EndIsSettled, Unrecoverable, Raise, CallerByStep, SavedByStep
  <1>11. FailureByStep'
    BY <1>1, <1>3 DEF FailureByStep, Stored, Taken, Raise, CallerByStep, SavedByStep, TypeOK, Turn
  <1> QED
    BY <1>2, <1>4, <1>5, <1>6, <1>7, <1>8, <1>9, <1>10, <1>11

(* The row an ending leaves: the next version, inactive, and saying only    *)
(* what IntentIsBacked has stored.                                          *)
LEMMA SettledTurn ==
    ASSUME IInv, pc \in Settling,
           Matches(row, held.version, LegalFrom(intent)),
           row' = Settled(row, intent, 0), saved' = saved, turn'.replies = turn.replies
    PROVE  /\ row' \in RowType({Worker})
           /\ row'.version = held.version + 1
           /\ row'.status \in TerminalStatuses \union {"continuable"}
           /\ StoredBeforeSettled'
  <1> USE DEF IInv
  <1>1. row \in RowType({Worker}) /\ intent \in Intents /\ row.status \in LegalFrom(intent)
    BY DEF TypeOK, Matches
  <1>2. intent \in {"failed", "stopped", "completed", "continuable", "blocked", "approval"}
    BY DEF IntentIsBacked, Settling
  <1> DEFINE new == Settled(row, intent, 0)
  <1>3. /\ new \in RowType({Worker})
        /\ Advances(row, new)
        /\ intent \in {"failed", "stopped", "completed"} =>
             new.status = intent /\ new.status \in TerminalStatuses
        /\ intent = "approval" =>
             new.status = "continuable" /\ new.block = "tool_approval_required"
        /\ intent \in {"continuable", "blocked"} =>
             new.status = "continuable" /\ new.block # "tool_approval_required"
        /\ row.status \in ActiveStatuses
    BY <1>1, <1>2, SettledRow
  <1> HIDE DEF new
  <1>4. row' = new
    BY DEF new
  <1>5. new.status \in TerminalStatuses \union {"continuable"} /\ new # row
    BY <1>2, <1>3, StatusNames
  <1>6. new.version = held.version + 1
    BY <1>3, <1>5 DEF Advances, Matches
  <1>7. new.status = "completed" => intent = "completed"
    BY <1>2, <1>3
  <1>8. new.status = "continuable" =>
          saved = IF new.block = "tool_approval_required" THEN "interrupt" ELSE "paused"
    BY <1>2, <1>3 DEF IntentIsBacked, Settling, TerminalStatuses
  <1>9. new.status = "completed" /\ turn.replies => saved \in {"answer", "failure"}
    BY <1>7 DEF IntentIsBacked, Settling
  <1> QED
    BY <1>3, <1>4, <1>5, <1>6, <1>8, <1>9 DEF StoredBeforeSettled

(* The work is over: the row is settled, or a write it needs has failed.    *)
LEMMA LeaveKeeps ==
    ASSUME IInv, pc \in Settling, Leave, FaultsGrow,
           held' = held, saved' = saved, intent' = intent,
           \/ row' = row
           \/ row'.version = held.version + 1
              /\ row'.status \in TerminalStatuses \union {"continuable"},
           row' \in RowType({Worker}), StoredBeforeSettled',
           IsActive(row') => Unrecoverable'
    PROVE  IInv'
  <1> USE DEF IInv, FaultsGrow, Settling
  <1>1. /\ turn' \in Turn /\ turn'.entry # "live"
        /\ turn'.text = turn.text /\ turn'.replies = turn.replies
        /\ turn'.persisted = turn.persisted /\ turn'.settling = turn.settling
        /\ turn'.handled = turn.handled
    BY DEF Leave, TypeOK, Turn
  <1>2. \/ pc' = "over" /\ caller' = caller
        \/ pc' = "tail" /\ caller' = "inline" /\ ~turn.handled
    BY DEF Leave
  <1>3. TypeOK'
    BY <1>1, <1>2 DEF TypeOK, Pcs
  <1>4. RowShape' /\ RowIsTied'
    BY DEF RowShape, RowIsTied
  <1>5. RowByStep'
    BY <1>2, StatusNames DEF RowByStep, IsActive, ActiveStatuses, TerminalStatuses
  <1>6. CallerByStep'
    BY <1>1, <1>2 DEF CallerByStep
  <1>7. SavedByStep' /\ IntentIsBacked'
    BY <1>1, <1>2 DEF SavedByStep, IntentIsBacked, Taken
  <1>8. TextByStep' /\ FailureByStep'
    BY <1>1, <1>2 DEF TextByStep, FailureByStep, Stored, Taken
  <1>9. EndIsSettled'
    BY <1>1 DEF EndIsSettled
  <1> QED
    BY <1>3, <1>4, <1>5, <1>6, <1>7, <1>8, <1>9

(* Cancellation, wherever it lands. *)
LEMMA InterruptKeeps ==
    ASSUME IInv, NEW flag \in BOOLEAN, Interrupt(flag)
    PROVE  IInv'
  <1> USE DEF IInv
  <1>1. row' = row /\ held' = held /\ saved' = saved /\ intent' = intent /\ faults' = faults
    BY DEF Interrupt
  <1>2. /\ turn' \in Turn /\ turn'.entry = turn.entry
        /\ turn'.text = turn.text /\ turn'.replies = turn.replies
        /\ turn'.persisted = turn.persisted /\ turn'.settling = turn.settling
        /\ turn.handled => turn'.handled
    BY DEF Interrupt, TypeOK, Turn
  <1>3. \/ caller = "waiting" /\ caller' = "gone" /\ pc' = pc /\ turn'.handled = turn.handled
        \/ pc = "tail" /\ pc' = "over" /\ caller' = caller
        \/ /\ caller = "inline" /\ pc # "over" /\ pc' = "keep_partial" /\ caller' = "waiting"
           /\ ~Taken /\ turn'.handled
    BY DEF Interrupt, CallerByStep, Taken, TypeOK, Turn
  <1>4. TypeOK'
    BY <1>1, <1>2, <1>3 DEF TypeOK, Pcs
  <1>5. RowShape' /\ RowIsTied'
    BY <1>1 DEF RowShape, RowIsTied
  <1>6. RowByStep'
    BY <1>1, <1>3 DEF RowByStep, CallerByStep
  <1>7. CallerByStep' /\ SavedByStep'
    BY <1>1, <1>2, <1>3 DEF CallerByStep, SavedByStep, Taken
  <1>8. IntentIsBacked' /\ StoredBeforeSettled'
    BY <1>1, <1>2, <1>3 DEF IntentIsBacked, StoredBeforeSettled
  <1>9. TextByStep' /\ FailureByStep'
    BY <1>1, <1>2, <1>3 DEF TextByStep, FailureByStep, Stored, CallerByStep, Taken
  <1>10. EndIsSettled'
    BY <1>1, <1>2, <1>3 DEF EndIsSettled, Unrecoverable
  <1> QED
    BY <1>4, <1>5, <1>6, <1>7, <1>8, <1>9, <1>10

(* A Stop takes an active row one version on. *)
LEMMA RequestStopKeeps ==
    ASSUME IInv, RequestStop
    PROVE  IInv'
  <1> USE DEF IInv
  <1>1. UNCHANGED <<held, saved, pc, caller, intent, turn, faults>>
    BY DEF RequestStop
  <1>2. row.status \in {"starting", "running"}
    BY DEF RequestStop, RowShape, ActiveStatuses, TerminalStatuses
  <1>3. row = held
    BY <1>2 DEF RowIsTied, TerminalStatuses
  <1>4. /\ row' \in RowType({Worker}) /\ row'.status = "stop_requested"
        /\ row'.version = row.version + 1
    BY StoppingRow DEF RequestStop, TypeOK
  <1>5. IsActive(row) /\ IsActive(row')
    BY <1>2, <1>4 DEF IsActive, ActiveStatuses
  <1>6. TypeOK'
    BY <1>1, <1>4 DEF TypeOK
  <1>7. RowShape' /\ RowIsTied'
    BY <1>1, <1>3, <1>4 DEF RowShape, RowIsTied
  <1>8. RowByStep'
    BY <1>1, <1>2, <1>3, <1>4, <1>5 DEF RowByStep
  <1>9. CallerByStep' /\ SavedByStep' /\ TextByStep' /\ FailureByStep'
    BY <1>1 DEF CallerByStep, SavedByStep, Taken, TextByStep, FailureByStep
  <1>10. IntentIsBacked'
    <2>1. pc # "retry"
      BY <1>2 DEF IntentIsBacked, TerminalStatuses
    <2>2. row'.version # held.version
      BY <1>3, <1>4 DEF TypeOK, RowType
    <2> QED
      BY <1>1, <2>1, <2>2 DEF IntentIsBacked
  <1>11. EndIsSettled' /\ StoredBeforeSettled'
    BY <1>1, <1>4, <1>5 DEF EndIsSettled, Unrecoverable, StoredBeforeSettled
  <1> QED
    BY <1>6, <1>7, <1>8, <1>9, <1>10, <1>11

-----------------------------------------------------------------------------
(* The steps that touch neither the row nor the snapshot of it.             *)


(* A turn that gets no reply is closed at once: it has streamed nothing. *)
LEMMA CloseWithoutReplyKeeps ==
    ASSUME IInv, CloseWithoutReply
    PROVE  IInv'
  <1> USE DEF IInv, CloseWithoutReply, Insert, Become, Works, Fails
  <1>1. row' = row /\ held' = held /\ FaultsGrow
    BY DEF TypeOK, FaultsGrow
  <1> USE DEF FaultsGrow
  <1>2. TypeOK'
    BY <1>1 DEF TypeOK, Pcs, Messages, Intents, Turn
  <1>3. RowShape' /\ RowIsTied' /\ RowByStep'
    BY <1>1 DEF RowShape, RowIsTied, RowByStep
  <1>4. CallerByStep'
    BY <1>1 DEF CallerByStep, TypeOK, Turn
  <1>5. SavedByStep'
    BY <1>1 DEF SavedByStep, CallerByStep, Taken, TypeOK, Turn
  <1>6. IntentIsBacked'
    BY <1>1 DEF IntentIsBacked, TextByStep, SavedByStep, TypeOK, Turn
  <1>7. TextByStep' /\ FailureByStep'
    BY <1>1 DEF TextByStep, FailureByStep, Stored, Taken, LosesText, CallerByStep, SavedByStep,
                TypeOK, Turn
  <1>8. EndIsSettled' /\ StoredBeforeSettled'
    BY <1>1 DEF EndIsSettled, StoredBeforeSettled, RowByStep, IsActive, ActiveStatuses,
                TypeOK, Turn
  <1> QED
    BY <1>2, <1>3, <1>4, <1>5, <1>6, <1>7, <1>8

(* The reply is prepared; a failure is RaiseKeeps. *)
LEMMA PrepareKeeps ==
    ASSUME IInv, Prepare, ~Raise
    PROVE  IInv'
  <1> USE DEF IInv, Prepare, Insert, Become, Works, Fails
  <1>1. row' = row /\ held' = held /\ FaultsGrow
    BY DEF TypeOK, FaultsGrow
  <1> USE DEF FaultsGrow
  <1>2. TypeOK'
    BY <1>1 DEF TypeOK, Pcs, Messages, Intents, Turn
  <1>3. RowShape' /\ RowIsTied' /\ RowByStep'
    BY <1>1 DEF RowShape, RowIsTied, RowByStep
  <1>4. CallerByStep'
    BY <1>1 DEF CallerByStep, TypeOK, Turn
  <1>5. SavedByStep'
    BY <1>1 DEF SavedByStep, CallerByStep, Taken, TypeOK, Turn
  <1>6. IntentIsBacked'
    BY <1>1 DEF IntentIsBacked, TextByStep, SavedByStep, TypeOK, Turn
  <1>7. TextByStep' /\ FailureByStep'
    BY <1>1 DEF TextByStep, FailureByStep, Stored, Taken, LosesText, CallerByStep, SavedByStep,
                TypeOK, Turn
  <1>8. EndIsSettled' /\ StoredBeforeSettled'
    BY <1>1 DEF EndIsSettled, StoredBeforeSettled, RowByStep, IsActive, ActiveStatuses,
                TypeOK, Turn
  <1> QED
    BY <1>2, <1>3, <1>4, <1>5, <1>6, <1>7, <1>8

(* Text is only ever streamed while the graph runs. *)
LEMMA StreamTextKeeps ==
    ASSUME IInv, StreamText
    PROVE  IInv'
  <1> USE DEF IInv, StreamText, Insert, Become, Works, Fails
  <1>1. row' = row /\ held' = held /\ FaultsGrow
    BY DEF TypeOK, FaultsGrow
  <1> USE DEF FaultsGrow
  <1>2. TypeOK'
    BY <1>1 DEF TypeOK, Pcs, Messages, Intents, Turn
  <1>3. RowShape' /\ RowIsTied' /\ RowByStep'
    BY <1>1 DEF RowShape, RowIsTied, RowByStep
  <1>4. CallerByStep'
    BY <1>1 DEF CallerByStep, TypeOK, Turn
  <1>5. SavedByStep'
    BY <1>1 DEF SavedByStep, CallerByStep, Taken, TypeOK, Turn
  <1>6. IntentIsBacked'
    BY <1>1 DEF IntentIsBacked, TextByStep, SavedByStep, TypeOK, Turn
  <1>7. TextByStep' /\ FailureByStep'
    BY <1>1 DEF TextByStep, FailureByStep, Stored, Taken, LosesText, CallerByStep, SavedByStep,
                TypeOK, Turn
  <1>8. EndIsSettled' /\ StoredBeforeSettled'
    BY <1>1 DEF EndIsSettled, StoredBeforeSettled, RowByStep, IsActive, ActiveStatuses,
                TypeOK, Turn
  <1> QED
    BY <1>2, <1>3, <1>4, <1>5, <1>6, <1>7, <1>8

(* The durable stop watch leaves the graph with nothing stored yet. *)
LEMMA SeeStopKeeps ==
    ASSUME IInv, SeeStop
    PROVE  IInv'
  <1> USE DEF IInv, SeeStop, Insert, Become, Works, Fails
  <1>1. row' = row /\ held' = held /\ FaultsGrow
    BY DEF TypeOK, FaultsGrow
  <1> USE DEF FaultsGrow
  <1>2. TypeOK'
    BY <1>1 DEF TypeOK, Pcs, Messages, Intents, Turn
  <1>3. RowShape' /\ RowIsTied' /\ RowByStep'
    BY <1>1 DEF RowShape, RowIsTied, RowByStep
  <1>4. CallerByStep'
    BY <1>1 DEF CallerByStep, TypeOK, Turn
  <1>5. SavedByStep'
    BY <1>1 DEF SavedByStep, CallerByStep, Taken, TypeOK, Turn
  <1>6. IntentIsBacked'
    BY <1>1 DEF IntentIsBacked, TextByStep, SavedByStep, TypeOK, Turn
  <1>7. TextByStep' /\ FailureByStep'
    BY <1>1 DEF TextByStep, FailureByStep, Stored, Taken, LosesText, CallerByStep, SavedByStep,
                TypeOK, Turn
  <1>8. EndIsSettled' /\ StoredBeforeSettled'
    BY <1>1 DEF EndIsSettled, StoredBeforeSettled, RowByStep, IsActive, ActiveStatuses,
                TypeOK, Turn
  <1> QED
    BY <1>2, <1>3, <1>4, <1>5, <1>6, <1>7, <1>8

(* The approval message is stored before the row is released. *)
LEMMA PauseForApprovalKeeps ==
    ASSUME IInv, PauseForApproval, ~Raise
    PROVE  IInv'
  <1> USE DEF IInv, PauseForApproval, Insert, Become, Works, Fails
  <1>1. row' = row /\ held' = held /\ FaultsGrow
    BY DEF TypeOK, FaultsGrow
  <1> USE DEF FaultsGrow
  <1>2. TypeOK'
    BY <1>1 DEF TypeOK, Pcs, Messages, Intents, Turn
  <1>3. RowShape' /\ RowIsTied' /\ RowByStep'
    BY <1>1 DEF RowShape, RowIsTied, RowByStep
  <1>4. CallerByStep'
    BY <1>1 DEF CallerByStep, TypeOK, Turn
  <1>5. SavedByStep'
    BY <1>1 DEF SavedByStep, CallerByStep, Taken, TypeOK, Turn
  <1>6. IntentIsBacked'
    BY <1>1 DEF IntentIsBacked, TextByStep, SavedByStep, TypeOK, Turn
  <1>7. TextByStep' /\ FailureByStep'
    BY <1>1 DEF TextByStep, FailureByStep, Stored, Taken, LosesText, CallerByStep, SavedByStep,
                TypeOK, Turn
  <1>8. EndIsSettled' /\ StoredBeforeSettled'
    BY <1>1 DEF EndIsSettled, StoredBeforeSettled, RowByStep, IsActive, ActiveStatuses,
                TypeOK, Turn
  <1> QED
    BY <1>2, <1>3, <1>4, <1>5, <1>6, <1>7, <1>8

(* A terminal path takes the turn over: from here the clean-up stands down. *)
LEMMA TakeOverKeeps ==
    ASSUME IInv,
           NEW step \in {"pause_save", "finish_save"}, NEW parks \in BOOLEAN,
           TakeOver(step, parks), FaultsGrow,
           "graph" \in faults' => step = "finish_save"
    PROVE  IInv'
  <1> USE DEF IInv, TakeOver
  <1>1. row' = row /\ held' = held
    OBVIOUS
  <1> USE DEF FaultsGrow
  <1>2. TypeOK'
    BY <1>1 DEF TypeOK, Pcs, Messages, Intents, Turn
  <1>3. RowShape' /\ RowIsTied' /\ RowByStep'
    BY <1>1 DEF RowShape, RowIsTied, RowByStep
  <1>4. CallerByStep'
    BY <1>1 DEF CallerByStep, TypeOK, Turn
  <1>5. SavedByStep'
    BY <1>1 DEF SavedByStep, CallerByStep, Taken, TypeOK, Turn
  <1>6. IntentIsBacked'
    BY <1>1 DEF IntentIsBacked, TextByStep, SavedByStep, TypeOK, Turn
  <1>7. TextByStep' /\ FailureByStep'
    BY <1>1 DEF TextByStep, FailureByStep, Stored, Taken, LosesText, CallerByStep, SavedByStep,
                TypeOK, Turn
  <1>8. EndIsSettled' /\ StoredBeforeSettled'
    BY <1>1 DEF EndIsSettled, StoredBeforeSettled, RowByStep, IsActive, ActiveStatuses,
                TypeOK, Turn
  <1> QED
    BY <1>2, <1>3, <1>4, <1>5, <1>6, <1>7, <1>8

(* The partial of a paused turn is stored, or the row is to fail. *)
LEMMA SavePauseKeeps ==
    ASSUME IInv, SavePause
    PROVE  IInv'
  <1> USE DEF IInv, SavePause, Insert, Become, Works, Fails
  <1>1. row' = row /\ held' = held /\ FaultsGrow
    BY DEF TypeOK, FaultsGrow
  <1> USE DEF FaultsGrow
  <1>2. TypeOK'
    BY <1>1 DEF TypeOK, Pcs, Messages, Intents, Turn
  <1>3. RowShape' /\ RowIsTied' /\ RowByStep'
    BY <1>1 DEF RowShape, RowIsTied, RowByStep
  <1>4. CallerByStep'
    BY <1>1 DEF CallerByStep, TypeOK, Turn
  <1>5. SavedByStep'
    BY <1>1 DEF SavedByStep, CallerByStep, Taken, TypeOK, Turn
  <1>6. IntentIsBacked'
    BY <1>1 DEF IntentIsBacked, TextByStep, SavedByStep, TypeOK, Turn
  <1>7. TextByStep' /\ FailureByStep'
    BY <1>1 DEF TextByStep, FailureByStep, Stored, Taken, LosesText, CallerByStep, SavedByStep,
                TypeOK, Turn
  <1>8. EndIsSettled' /\ StoredBeforeSettled'
    BY <1>1 DEF EndIsSettled, StoredBeforeSettled, RowByStep, IsActive, ActiveStatuses,
                TypeOK, Turn
  <1> QED
    BY <1>2, <1>3, <1>4, <1>5, <1>6, <1>7, <1>8

(* Continue is offered for a partial that is stored. *)
LEMMA MarkPauseImagesKeeps ==
    ASSUME IInv, MarkPauseImages
    PROVE  IInv'
  <1> USE DEF IInv, MarkPauseImages, Insert, Become, Works, Fails
  <1>1. row' = row /\ held' = held /\ FaultsGrow
    BY DEF TypeOK, FaultsGrow
  <1> USE DEF FaultsGrow
  <1>2. TypeOK'
    BY <1>1 DEF TypeOK, Pcs, Messages, Intents, Turn
  <1>3. RowShape' /\ RowIsTied' /\ RowByStep'
    BY <1>1 DEF RowShape, RowIsTied, RowByStep
  <1>4. CallerByStep'
    BY <1>1 DEF CallerByStep, TypeOK, Turn
  <1>5. SavedByStep'
    BY <1>1 DEF SavedByStep, CallerByStep, Taken, TypeOK, Turn
  <1>6. IntentIsBacked'
    BY <1>1 DEF IntentIsBacked, TextByStep, SavedByStep, TypeOK, Turn
  <1>7. TextByStep' /\ FailureByStep'
    BY <1>1 DEF TextByStep, FailureByStep, Stored, Taken, LosesText, CallerByStep, SavedByStep,
                TypeOK, Turn
  <1>8. EndIsSettled' /\ StoredBeforeSettled'
    BY <1>1 DEF EndIsSettled, StoredBeforeSettled, RowByStep, IsActive, ActiveStatuses,
                TypeOK, Turn
  <1> QED
    BY <1>2, <1>3, <1>4, <1>5, <1>6, <1>7, <1>8

(* The answer is stored, or its failure is to be. *)
LEMMA SaveAnswerKeeps ==
    ASSUME IInv, SaveAnswer
    PROVE  IInv'
  <1> USE DEF IInv, SaveAnswer, Response, Insert, Become, Works, Fails
  <1>1. row' = row /\ held' = held /\ FaultsGrow
    BY DEF TypeOK, FaultsGrow
  <1> USE DEF FaultsGrow
  <1>2. TypeOK'
    BY <1>1 DEF TypeOK, Pcs, Messages, Intents, Turn
  <1>3. RowShape' /\ RowIsTied' /\ RowByStep'
    BY <1>1 DEF RowShape, RowIsTied, RowByStep
  <1>4. CallerByStep'
    BY <1>1 DEF CallerByStep, TypeOK, Turn
  <1>5. SavedByStep'
    BY <1>1 DEF SavedByStep, CallerByStep, Taken, TypeOK, Turn
  <1>6. IntentIsBacked'
    BY <1>1 DEF IntentIsBacked, TextByStep, SavedByStep, TypeOK, Turn
  <1>7. TextByStep' /\ FailureByStep'
    BY <1>1 DEF TextByStep, FailureByStep, Stored, Taken, LosesText, CallerByStep, SavedByStep,
                TypeOK, Turn
  <1>8. EndIsSettled' /\ StoredBeforeSettled'
    BY <1>1 DEF EndIsSettled, StoredBeforeSettled, RowByStep, IsActive, ActiveStatuses,
                TypeOK, Turn
  <1> QED
    BY <1>2, <1>3, <1>4, <1>5, <1>6, <1>7, <1>8

(* Completion stands for the stored answer. *)
LEMMA MarkAnswerImagesKeeps ==
    ASSUME IInv, MarkAnswerImages
    PROVE  IInv'
  <1> USE DEF IInv, MarkAnswerImages, Insert, Become, Works, Fails
  <1>1. row' = row /\ held' = held /\ FaultsGrow
    BY DEF TypeOK, FaultsGrow
  <1> USE DEF FaultsGrow
  <1>2. TypeOK'
    BY <1>1 DEF TypeOK, Pcs, Messages, Intents, Turn
  <1>3. RowShape' /\ RowIsTied' /\ RowByStep'
    BY <1>1 DEF RowShape, RowIsTied, RowByStep
  <1>4. CallerByStep'
    BY <1>1 DEF CallerByStep, TypeOK, Turn
  <1>5. SavedByStep'
    BY <1>1 DEF SavedByStep, CallerByStep, Taken, TypeOK, Turn
  <1>6. IntentIsBacked'
    BY <1>1 DEF IntentIsBacked, TextByStep, SavedByStep, TypeOK, Turn
  <1>7. TextByStep' /\ FailureByStep'
    BY <1>1 DEF TextByStep, FailureByStep, Stored, Taken, LosesText, CallerByStep, SavedByStep,
                TypeOK, Turn
  <1>8. EndIsSettled' /\ StoredBeforeSettled'
    BY <1>1 DEF EndIsSettled, StoredBeforeSettled, RowByStep, IsActive, ActiveStatuses,
                TypeOK, Turn
  <1> QED
    BY <1>2, <1>3, <1>4, <1>5, <1>6, <1>7, <1>8

(* A stopped turn keeps its text; a failure to is RaiseKeeps. *)
LEMMA StopTurnKeeps ==
    ASSUME IInv, StopTurn, ~Raise
    PROVE  IInv'
  <1> USE DEF IInv, StopTurn, Insert, Become, Works, Fails
  <1>1. row' = row /\ held' = held /\ FaultsGrow
    BY DEF TypeOK, FaultsGrow
  <1> USE DEF FaultsGrow
  <1>2. TypeOK'
    BY <1>1 DEF TypeOK, Pcs, Messages, Intents, Turn
  <1>3. RowShape' /\ RowIsTied' /\ RowByStep'
    BY <1>1 DEF RowShape, RowIsTied, RowByStep
  <1>4. CallerByStep'
    BY <1>1 DEF CallerByStep, TypeOK, Turn
  <1>5. SavedByStep'
    BY <1>1 DEF SavedByStep, CallerByStep, Taken, TypeOK, Turn
  <1>6. IntentIsBacked'
    BY <1>1 DEF IntentIsBacked, TextByStep, SavedByStep, TypeOK, Turn
  <1>7. TextByStep' /\ FailureByStep'
    BY <1>1 DEF TextByStep, FailureByStep, Stored, Taken, LosesText, CallerByStep, SavedByStep,
                TypeOK, Turn
  <1>8. EndIsSettled' /\ StoredBeforeSettled'
    BY <1>1 DEF EndIsSettled, StoredBeforeSettled, RowByStep, IsActive, ActiveStatuses,
                TypeOK, Turn
  <1> QED
    BY <1>2, <1>3, <1>4, <1>5, <1>6, <1>7, <1>8

(* The error message takes the reserved id; a second one is RaiseKeeps. *)
LEMMA FailTurnKeeps ==
    ASSUME IInv, FailTurn, ~Raise
    PROVE  IInv'
  <1> USE DEF IInv, FailTurn, Insert, Become, Works, Fails
  <1>1. row' = row /\ held' = held /\ FaultsGrow
    BY DEF TypeOK, FaultsGrow
  <1> USE DEF FaultsGrow
  <1>2. TypeOK'
    BY <1>1 DEF TypeOK, Pcs, Messages, Intents, Turn
  <1>3. RowShape' /\ RowIsTied' /\ RowByStep'
    BY <1>1 DEF RowShape, RowIsTied, RowByStep
  <1>4. CallerByStep'
    BY <1>1 DEF CallerByStep, TypeOK, Turn
  <1>5. SavedByStep'
    BY <1>1 DEF SavedByStep, CallerByStep, Taken, TypeOK, Turn
  <1>6. IntentIsBacked'
    BY <1>1 DEF IntentIsBacked, TextByStep, SavedByStep, TypeOK, Turn
  <1>7. TextByStep' /\ FailureByStep'
    BY <1>1 DEF TextByStep, FailureByStep, Stored, Taken, LosesText, CallerByStep, SavedByStep,
                TypeOK, Turn
  <1>8. EndIsSettled' /\ StoredBeforeSettled'
    BY <1>1 DEF EndIsSettled, StoredBeforeSettled, RowByStep, IsActive, ActiveStatuses,
                TypeOK, Turn
  <1> QED
    BY <1>2, <1>3, <1>4, <1>5, <1>6, <1>7, <1>8

(* The clean-up keeps the text it can, and goes on to the row either way. *)
LEMMA KeepPartialKeeps ==
    ASSUME IInv, KeepPartial
    PROVE  IInv'
  <1> USE DEF IInv, KeepPartial, Insert, Become, Works, Fails
  <1>1. row' = row /\ held' = held /\ FaultsGrow
    BY DEF TypeOK, FaultsGrow
  <1> USE DEF FaultsGrow
  <1>2. TypeOK'
    BY <1>1 DEF TypeOK, Pcs, Messages, Intents, Turn
  <1>3. RowShape' /\ RowIsTied' /\ RowByStep'
    BY <1>1 DEF RowShape, RowIsTied, RowByStep
  <1>4. CallerByStep'
    BY <1>1 DEF CallerByStep, TypeOK, Turn
  <1>5. SavedByStep'
    BY <1>1 DEF SavedByStep, CallerByStep, Taken, TypeOK, Turn
  <1>6. IntentIsBacked'
    BY <1>1 DEF IntentIsBacked, TextByStep, SavedByStep, TypeOK, Turn
  <1>7. TextByStep' /\ FailureByStep'
    BY <1>1 DEF TextByStep, FailureByStep, Stored, Taken, LosesText, CallerByStep, SavedByStep,
                TypeOK, Turn
  <1>8. EndIsSettled' /\ StoredBeforeSettled'
    BY <1>1 DEF EndIsSettled, StoredBeforeSettled, RowByStep, IsActive, ActiveStatuses,
                TypeOK, Turn
  <1> QED
    BY <1>2, <1>3, <1>4, <1>5, <1>6, <1>7, <1>8

-----------------------------------------------------------------------------
(* The steps that write the row, and the second read.                       *)

(* The row is inserted, or the turn is over without one. *)
LEMMA CreateRowKeeps ==
    ASSUME IInv, CreateRow
    PROVE  IInv'
  <1> USE DEF IInv, CreateRow
  <1>1. FaultsGrow
    BY FaultsGrowing, FaultsKept DEF TypeOK
  <1>2. row.status = "absent" /\ row = held /\ saved = "none" /\ turn.entry = "none"
    BY DEF RowByStep, SavedByStep, CallerByStep
  <1>3. UNCHANGED <<saved, caller, intent, turn>>
    OBVIOUS
  <1>4. CASE UNCHANGED <<row, held>> /\ pc' = "over"
    <2>1. TypeOK'
      BY <1>1, <1>3, <1>4 DEF TypeOK, FaultsGrow, Pcs
    <2>2. RowShape' /\ RowIsTied' /\ RowByStep'
      BY <1>2, <1>4 DEF RowShape, RowIsTied, RowByStep
    <2>3. CallerByStep' /\ SavedByStep' /\ IntentIsBacked'
      BY <1>1, <1>2, <1>3, <1>4 DEF CallerByStep, SavedByStep, Taken, IntentIsBacked
    <2>4. TextByStep' /\ FailureByStep' /\ EndIsSettled' /\ StoredBeforeSettled'
      BY <1>1, <1>2, <1>3, <1>4, StatusNames
         DEF TextByStep, FailureByStep, Stored, Taken, FaultsGrow,
        EndIsSettled, StoredBeforeSettled, IsActive
    <2> QED
      BY <2>1, <2>2, <2>3, <2>4
  <1>5. CASE row' = Create(Worker) /\ held' = Create(Worker) /\ pc' = "run"
    <2>1. row' \in RowType({Worker}) /\ row'.status = "starting" /\ held' = row'
      BY <1>5, CreatedRow
    <2>2. TypeOK'
      BY <1>1, <1>3, <1>5, <2>1 DEF TypeOK, FaultsGrow, Pcs
    <2>3. RowShape' /\ RowIsTied' /\ RowByStep'
      BY <1>5, <2>1 DEF RowShape, RowIsTied, RowByStep, IsActive, ActiveStatuses
    <2>4. CallerByStep' /\ SavedByStep' /\ IntentIsBacked'
      BY <1>2, <1>3, <1>5 DEF CallerByStep, SavedByStep, IntentIsBacked
    <2>5. TextByStep' /\ FailureByStep' /\ EndIsSettled' /\ StoredBeforeSettled'
      BY <1>1, <1>3, <1>5, <2>1 DEF TextByStep, FailureByStep, Stored, Taken, FaultsGrow,
        EndIsSettled, StoredBeforeSettled
    <2> QED
      BY <2>2, <2>3, <2>4, <2>5
  <1> QED
    BY <1>4, <1>5

(* mark_running: applied, refused because a Stop came first, or failed. *)
LEMMA EnterRunningKeeps ==
    ASSUME IInv, EnterRunning
    PROVE  IInv'
  <1> USE DEF IInv
  <1>1. FaultsGrow
    BY FaultsGrowing, FaultsKept DEF EnterRunning, TypeOK
  <1>2. pc = "run" /\ saved' = saved /\ saved = "none"
    BY DEF EnterRunning, SavedByStep
  <1>3. /\ row' \in RowType({Worker}) /\ held' \in RowType({Worker})
        /\ row'.status \in {"starting", "running", "stop_requested"}
        /\ held'.status \in {"starting", "running"}
        /\ \/ row' = held'
           \/ row'.version = held'.version + 1 /\ row'.status = "stop_requested"
        /\ row'.status = "starting" => "running" \in faults'
    <2>1. /\ row.status \in {"starting", "running", "stop_requested"}
          /\ held.status = "starting"
          /\ \/ row = held
             \/ row.version = held.version + 1 /\ row.status = "stop_requested"
      BY <1>2 DEF RowByStep, RowShape, RowIsTied, IsActive, ActiveStatuses, TerminalStatuses
    <2>2. CASE Fails("running") /\ UNCHANGED <<row, held>>
      BY <2>1, <2>2 DEF TypeOK, Fails
    <2>3. CASE row' = MarkRunning(row) /\ held' = MarkRunning(row)
      BY <2>3, RunningRow DEF TypeOK
    <2>4. CASE ~Matches(row, held.version, {"starting"}) /\ UNCHANGED <<row, held>>
      BY <2>1, <2>4 DEF TypeOK, Matches
    <2> QED
      BY <2>2, <2>3, <2>4 DEF EnterRunning
  <1>4. \/ /\ pc' = "apply" /\ intent' = "stopped" /\ caller = "gone"
           /\ UNCHANGED <<caller, turn>>
        \/ /\ pc' = "opened" /\ caller' = "inline" /\ intent' = intent
           /\ turn' = [turn EXCEPT !.entry = "live"]
    BY DEF EnterRunning, Become
  <1>5. /\ turn' \in Turn /\ turn'.text = turn.text /\ turn'.replies = turn.replies
        /\ turn'.persisted = turn.persisted /\ turn'.settling = turn.settling
        /\ turn'.handled = turn.handled
    BY <1>4 DEF TypeOK, Turn
  <1>6. TypeOK'
    BY <1>1, <1>2, <1>3, <1>4, <1>5 DEF TypeOK, FaultsGrow, Pcs, Intents
  <1>7. RowShape' /\ RowIsTied' /\ RowByStep'
    BY <1>3, <1>4 DEF RowShape, RowIsTied, RowByStep, IsActive, ActiveStatuses
  <1>8. CallerByStep'
    BY <1>2, <1>4, <1>5 DEF CallerByStep
  <1>9. SavedByStep' /\ IntentIsBacked'
    BY <1>2, <1>4 DEF SavedByStep, IntentIsBacked
  <1>10. TextByStep' /\ FailureByStep' /\ EndIsSettled' /\ StoredBeforeSettled'
    BY <1>1, <1>2, <1>3, <1>4, <1>5 DEF TextByStep, FailureByStep, Stored, Taken, FaultsGrow,
        EndIsSettled, StoredBeforeSettled
  <1> QED
    BY <1>6, <1>7, <1>8, <1>9, <1>10

(* What Leave keeps of the turn. *)
LEMMA LeaveFlags ==
    ASSUME Leave, turn \in Turn
    PROVE  turn'.replies = turn.replies
  BY DEF Leave, Turn

(* The first attempt to settle the row. *)
LEMMA ApplyKeeps ==
    ASSUME IInv, Apply
    PROVE  IInv'
  <1> USE DEF IInv
  <1>1. FaultsGrow
    BY FaultsGrowing, FaultsKept DEF Apply, TypeOK
  <1>2. UNCHANGED <<held, saved, intent>> /\ pc = "apply" /\ pc \in Settling
    BY DEF Apply, Settling
  <1>3. CASE Matches(row, held.version, LegalFrom(intent))
            /\ row' = Settled(row, intent, 0) /\ Leave
    <2>1. turn'.replies = turn.replies
      BY <1>3, LeaveFlags DEF TypeOK
    <2>2. /\ row' \in RowType({Worker})
          /\ row'.version = held.version + 1
          /\ row'.status \in TerminalStatuses \union {"continuable"}
          /\ StoredBeforeSettled'
      BY <1>2, <1>3, <2>1, SettledTurn
    <2>3. ~IsActive(row')
      BY <2>2, StatusNames DEF IsActive
    <2> QED
      BY <1>1, <1>2, <1>3, <2>2, <2>3, LeaveKeeps
  <1>4. CASE /\ ~Matches(row, held.version, LegalFrom(intent))
             /\ Works /\ pc' = "reread" /\ UNCHANGED <<row, caller, turn>>
    <2>1. TypeOK'
      BY <1>1, <1>2, <1>4 DEF TypeOK, FaultsGrow, Pcs
    <2>2. RowShape' /\ RowIsTied' /\ RowByStep'
      BY <1>2, <1>4 DEF RowShape, RowIsTied, RowByStep, Works
    <2>3. CallerByStep' /\ SavedByStep'
      BY <1>2, <1>4 DEF CallerByStep, SavedByStep, Taken, Works
    <2>4. IntentIsBacked'
      BY <1>2, <1>4 DEF IntentIsBacked, Matches
    <2>5. TextByStep' /\ FailureByStep' /\ EndIsSettled' /\ StoredBeforeSettled'
      BY <1>2, <1>4 DEF TextByStep, FailureByStep, Stored, Taken, FaultsGrow,
        EndIsSettled, StoredBeforeSettled, Works
    <2> QED
      BY <2>1, <2>2, <2>3, <2>4, <2>5
  <1>5. CASE Fails("mark") /\ Leave /\ UNCHANGED row
    <2>1. turn'.replies = turn.replies /\ StoredBeforeSettled'
      BY <1>2, <1>5, LeaveFlags DEF TypeOK, StoredBeforeSettled
    <2>2. Unrecoverable' /\ row' \in RowType({Worker})
      BY <1>5 DEF Fails, Unrecoverable, TypeOK
    <2> QED
      BY <1>1, <1>2, <1>5, <2>1, <2>2, LeaveKeeps
  <1> QED
    BY <1>3, <1>4, <1>5 DEF Apply

(* The second read: the row did not move, and what refuses the ending is a  *)
(* failure; or a Stop moved it, and the ending gives way to the Stop.       *)
LEMMA RereadKeeps ==
    ASSUME IInv, Reread
    PROVE  IInv'
  <1> USE DEF IInv
  <1>1. FaultsGrow
    BY FaultsGrowing, FaultsKept DEF Reread, TypeOK
  <1>2. UNCHANGED <<row, saved>> /\ pc = "reread" /\ pc \in Settling
    BY DEF Reread, Settling
  <1>3. CASE /\ (Works /\ row.version = held.version) \/ Fails("mark")
             /\ Leave /\ UNCHANGED <<held, intent>>
    <2>1. turn'.replies = turn.replies /\ StoredBeforeSettled'
      BY <1>2, <1>3, LeaveFlags DEF TypeOK, StoredBeforeSettled
    <2>2. IsActive(row') => Unrecoverable'
      <3>1. CASE Fails("mark")
        BY <3>1 DEF Fails, Unrecoverable
      <3>2. CASE Works /\ row.version = held.version /\ IsActive(row)
        <4>1. row = held /\ row.status \notin LegalFrom(intent) /\ intent \in Intents
          BY <1>2, <3>2 DEF RowIsTied, IntentIsBacked, TypeOK, RowType
        <4>2. row.status \in {"starting", "running", "stop_requested"}
          BY <3>2, StatusNames DEF RowShape, IsActive
        <4>3. row.status = "starting" /\ intent \notin {"failed", "stopped", "completed"}
          BY <1>2, <4>1, <4>2, LegalIntents DEF RowByStep
        <4>4. "running" \in faults' /\ saved' \in {"paused", "interrupt"}
          BY <1>1, <1>2, <4>3 DEF RowByStep, IntentIsBacked, FaultsGrow
        <4> QED
          BY <4>4 DEF Unrecoverable
      <3> QED
        BY <1>2, <1>3, <3>1, <3>2
    <2>3. row' \in RowType({Worker})
      BY <1>2 DEF TypeOK
    <2> QED
      BY <1>1, <1>2, <1>3, <2>1, <2>2, <2>3, LeaveKeeps
  <1>4. CASE /\ Works /\ row.version # held.version
             /\ pc' = "retry" /\ held' = row /\ UNCHANGED <<caller, turn>>
             /\ intent' = IF row.status = "stop_requested" /\ intent # "failed"
                          THEN "stopped" ELSE intent
    <2>1. row.status \in {"stop_requested"} \union TerminalStatuses \union {"continuable"}
      BY <1>4 DEF RowIsTied
    <2>2. intent' = intent \/ intent' = "stopped"
      BY <1>4
    <2>3. row.status = "stop_requested" => intent' \in {"failed", "stopped"}
      BY <1>4
    <2>4. TypeOK'
      BY <1>1, <1>2, <1>4, <2>2 DEF TypeOK, FaultsGrow, Pcs, Intents
    <2>5. RowShape' /\ RowIsTied' /\ RowByStep'
      BY <1>2, <1>4, <2>3 DEF RowShape, RowIsTied, RowByStep, Works
    <2>6. CallerByStep' /\ SavedByStep'
      BY <1>2, <1>4 DEF CallerByStep, SavedByStep, Taken, Works
    <2>7. IntentIsBacked'
      BY <1>2, <1>4, <2>1, <2>2 DEF IntentIsBacked
    <2>8. TextByStep' /\ FailureByStep' /\ EndIsSettled' /\ StoredBeforeSettled'
      BY <1>2, <1>4 DEF TextByStep, FailureByStep, Stored, Taken, FaultsGrow,
        EndIsSettled, StoredBeforeSettled, Works
    <2> QED
      BY <2>4, <2>5, <2>6, <2>7, <2>8
  <1> QED
    BY <1>3, <1>4 DEF Reread

(* The second attempt cannot be refused while the row is active. *)
LEMMA RetryKeeps ==
    ASSUME IInv, Retry
    PROVE  IInv'
  <1> USE DEF IInv
  <1>1. FaultsGrow
    BY FaultsGrowing, FaultsKept DEF Retry, TypeOK
  <1>2. UNCHANGED <<held, saved, intent>> /\ Leave /\ pc = "retry" /\ pc \in Settling
    BY DEF Retry, Settling
  <1>3. turn'.replies = turn.replies
    BY <1>2, LeaveFlags DEF TypeOK
  <1>4. CASE Matches(row, held.version, LegalFrom(intent)) /\ row' = Settled(row, intent, 0)
    <2>1. /\ row' \in RowType({Worker})
          /\ row'.version = held.version + 1
          /\ row'.status \in TerminalStatuses \union {"continuable"}
          /\ StoredBeforeSettled'
      BY <1>2, <1>3, <1>4, SettledTurn
    <2>2. ~IsActive(row')
      BY <2>1, StatusNames DEF IsActive
    <2> QED
      BY <1>1, <1>2, <2>1, <2>2, LeaveKeeps
  <1>5. CASE ~Matches(row, held.version, LegalFrom(intent)) /\ row' = row
    <2>1. ~IsActive(row)
      <3>1. row = held /\ row.status \notin LegalFrom(intent) /\ intent \in Intents
        BY <1>2, <1>5 DEF IntentIsBacked, Matches, TypeOK
      <3>2. row.status # "stop_requested"
        BY <1>2, <3>1, LegalIntents DEF RowByStep
      <3> QED
        BY <1>2, <3>2, StatusNames DEF IntentIsBacked, IsActive
    <2>2. StoredBeforeSettled' /\ row' \in RowType({Worker})
      BY <1>2, <1>3, <1>5 DEF StoredBeforeSettled, TypeOK
    <2> QED
      BY <1>1, <1>2, <1>5, <2>1, <2>2, LeaveKeeps
  <1>6. CASE Fails("mark") /\ row' = row
    <2>1. StoredBeforeSettled' /\ row' \in RowType({Worker})
      BY <1>2, <1>3, <1>6 DEF StoredBeforeSettled, TypeOK
    <2>2. Unrecoverable'
      BY <1>6 DEF Fails, Unrecoverable
    <2> QED
      BY <1>1, <1>2, <1>6, <2>1, <2>2, LeaveKeeps
  <1> QED
    BY <1>4, <1>5, <1>6 DEF Retry

(* The generator returns. *)
LEMMA ReturnKeeps ==
    ASSUME IInv, Return
    PROVE  IInv'
  <1> USE DEF IInv, Return
  <1>1. TypeOK' /\ RowShape' /\ RowIsTied' /\ RowByStep'
    BY DEF TypeOK, Pcs, RowShape, RowIsTied, RowByStep
  <1>2. CallerByStep' /\ SavedByStep' /\ IntentIsBacked'
    BY DEF CallerByStep, SavedByStep, Taken, IntentIsBacked
  <1>3. TextByStep' /\ FailureByStep' /\ EndIsSettled' /\ StoredBeforeSettled'
    BY DEF TextByStep, FailureByStep, Stored, Taken, FaultsGrow,
        EndIsSettled, StoredBeforeSettled, Unrecoverable
  <1> QED
    BY <1>1, <1>2, <1>3

-----------------------------------------------------------------------------
(* Every step keeps the invariant: one step per action. *)
LEMMA InvNext == IInv /\ [Next]_vars => IInv'
  <1> SUFFICES ASSUME IInv, [Next]_vars PROVE IInv'
    OBVIOUS
  <1> USE DEF IInv
  <1>1. CASE CreateRow
    BY <1>1, CreateRowKeeps
  <1>2. CASE EnterRunning
    BY <1>2, EnterRunningKeeps
  <1>3. CASE CloseWithoutReply
    BY <1>3, CloseWithoutReplyKeeps
  <1>4. CASE Prepare
    <2>1. CASE Raise
      <3>1. FaultsGrow /\ pc = "opened"
        BY <1>4, FaultsGrowing, FaultsKept DEF Prepare, TypeOK
      <3> QED
        BY <2>1, <3>1, RaiseKeeps
    <2> QED
      BY <1>4, <2>1, PrepareKeeps
  <1>5. CASE SeeStop
    BY <1>5, SeeStopKeeps
  <1>6. CASE GraphRaises
    <2>1. FaultsGrow /\ pc = "graph" /\ Raise /\ "graph" \in faults'
      BY <1>6, FaultsGrowing DEF GraphRaises, TypeOK
    <2> QED
      BY <2>1, RaiseKeeps DEF LosesText
  <1>7. CASE PauseForApproval
    <2>1. CASE Raise
      <3>1. FaultsGrow /\ pc = "graph" /\ "interrupt" \in faults'
        BY <1>7, <2>1, FaultsGrowing DEF PauseForApproval, TypeOK, Insert, Raise
      <3> QED
        BY <2>1, <3>1, RaiseKeeps DEF LosesText
    <2> QED
      BY <1>7, <2>1, PauseForApprovalKeeps
  <1>8. CASE ReachBudget
    <2>1. FaultsGrow /\ faults' = faults /\ pc = "graph"
      BY <1>8, FaultsKept DEF ReachBudget, TakeOver, TypeOK
    <2>2. "graph" \notin faults'
      BY <2>1 DEF FailureByStep, Stored
    <2> QED
      BY <1>8, <2>1, <2>2, TakeOverKeeps DEF ReachBudget
  <1>9. CASE CompleteGraph \/ GraphReportsError
    <2>1. FaultsGrow
      BY <1>9, FaultsKept, FaultsGrowing DEF CompleteGraph, GraphReportsError, TakeOver, TypeOK
    <2> QED
      BY <1>9, <2>1, TakeOverKeeps DEF CompleteGraph, GraphReportsError
  <1>10. CASE SavePause
    BY <1>10, SavePauseKeeps
  <1>11. CASE MarkPauseImages
    BY <1>11, MarkPauseImagesKeeps
  <1>12. CASE SaveAnswer
    BY <1>12, SaveAnswerKeeps
  <1>13. CASE MarkAnswerImages
    BY <1>13, MarkAnswerImagesKeeps
  <1>14. CASE StopTurn
    <2>1. CASE Raise
      <3>1. FaultsGrow /\ pc = "stop_save" /\ "partial" \in faults'
        BY <1>14, <2>1, FaultsGrowing DEF StopTurn, Become, Raise, TypeOK
      <3> QED
        BY <2>1, <3>1, RaiseKeeps DEF LosesText
    <2> QED
      BY <1>14, <2>1, StopTurnKeeps
  <1>15. CASE FailTurn
    <2>1. CASE Raise
      <3>1. FaultsGrow /\ pc \in {"fail_inner", "fail_save"}
        BY <1>15, FaultsGrowing, FaultsKept DEF FailTurn, TypeOK
      <3>2. "error" \in faults' \/ saved # "none"
        BY <1>15, <2>1 DEF FailTurn, Raise, Insert, Fails
      <3> QED
        BY <2>1, <3>1, <3>2, RaiseKeeps
    <2> QED
      BY <1>15, <2>1, FailTurnKeeps
  <1>16. CASE KeepPartial
    BY <1>16, KeepPartialKeeps
  <1>17. CASE Apply
    BY <1>17, ApplyKeeps
  <1>18. CASE Reread
    BY <1>18, RereadKeeps
  <1>19. CASE Retry
    BY <1>19, RetryKeeps
  <1>20. CASE Return
    BY <1>20, ReturnKeeps
  <1>21. CASE StreamText
    BY <1>21, StreamTextKeeps
  <1>22. CASE Disconnect \/ StopHere
    BY <1>22, InterruptKeeps DEF Disconnect, StopHere
  <1>23. CASE RequestStop
    BY <1>23, RequestStopKeeps
  <1>24. CASE UNCHANGED vars
    <2>1. TypeOK' /\ RowShape' /\ RowIsTied' /\ RowByStep'
      BY <1>24 DEF vars, TypeOK, RowShape, RowIsTied, RowByStep
    <2>2. CallerByStep' /\ SavedByStep' /\ IntentIsBacked'
      BY <1>24 DEF vars, CallerByStep, SavedByStep, Taken, IntentIsBacked
    <2>3. TextByStep' /\ FailureByStep' /\ EndIsSettled' /\ StoredBeforeSettled'
      BY <1>24 DEF vars, TextByStep, FailureByStep, Taken, EndIsSettled, StoredBeforeSettled,
                   Unrecoverable
    <2> QED
      BY <2>1, <2>2, <2>3
  <1> QED
    BY <1>1, <1>2, <1>3, <1>4, <1>5, <1>6, <1>7, <1>8, <1>9, <1>10, <1>11, <1>12, <1>13,
       <1>14, <1>15, <1>16, <1>17, <1>18, <1>19, <1>20, <1>21, <1>22, <1>23, <1>24
       DEF Next, Step, TurnStep, GraphEnds

(* The invariant holds in every reachable state. *)
LEMMA Invariance == Spec => []IInv
  BY InvInit, InvNext, PTL DEF Spec

(* Every variable of the turn keeps its type. *)
THEOREM TypeCorrect == Spec => []TypeOK
  <1>1. IInv => TypeOK
    BY DEF IInv
  <1> QED
    BY <1>1, Invariance, PTL

(* However a turn ends (returned, failed, stopped, disconnected or cancelled *)
(* over and over), its row is no longer active and its in-flight entry no   *)
(* longer live, unless one of the writes it cannot do without failed.       *)
THEOREM EndedIsSettled == Spec => []TurnIsSettled
  <1>1. IInv => TurnIsSettled
    BY DEF IInv, EndIsSettled, TurnIsSettled, Over
  <1> QED
    BY <1>1, Invariance, PTL

(* A row says completed, or offers Continue or an approval, only when the   *)
(* message it stands for is stored.                                         *)
THEOREM StoresFirst == Spec => []StoredBeforeSettled
  <1>1. IInv => StoredBeforeSettled
    BY DEF IInv
  <1> QED
    BY <1>1, Invariance, PTL

(* Text the user saw is in the message stored by the end of the turn, and   *)
(* no error message has its place, unless the graph or the very write of    *)
(* the text failed.                                                         *)
THEOREM KeepsText == Spec => []TextIsKept
  <1>1. IInv => TextIsKept
    BY DEF IInv, TextByStep, TextIsKept, Stored, Over
  <1> QED
    BY <1>1, Invariance, PTL

(* A turn whose graph failed has stored a message that says so, however it  *)
(* was cancelled since, unless the error message could not be written.      *)
THEOREM TellsFailure == Spec => []FailureIsTold
  <1>1. IInv => FailureIsTold
    BY DEF IInv, FailureByStep, FailureIsTold, Stored, Over
  <1> QED
    BY <1>1, Invariance, PTL

=============================================================================
