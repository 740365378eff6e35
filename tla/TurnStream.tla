------------------------------ MODULE TurnStream ------------------------------
(***************************************************************************)
(* One streamed user turn (message_service.py), at the grain of its awaits: *)
(* the async generator that serves the client, the work it runs shielded    *)
(* (await_to_completion), the row it must settle, and the one assistant     *)
(* message it may store, all under an id reserved before the turn starts.   *)
(*                                                                          *)
(* A disconnect or a Stop on this worker raises CancelledError at whatever  *)
(* await the generator is at, again and again; a Stop on another worker     *)
(* only moves the row, which the turn's durable stop watch reads. Every     *)
(* write of FaultPoints may fail, and so may the graph.                     *)
(* Generator and shielded work never run at once (the generator waits for   *)
(* the work, or has gone), so one pc serves both, and `caller` says whose   *)
(* step it is.                                                              *)
(***************************************************************************)
EXTENDS GenerationRows

CONSTANTS Worker,       \* this process's producer token
          FaultPoints   \* what may fail, a subset of Faultable

(* The writes of a turn, and the graph run itself. *)
Faultable == {"create", "running", "prepare", "graph", "interrupt", "partial", "answer",
              "images", "error", "mark"}

ASSUME FaultsAssumption == FaultPoints \subseteq Faultable

VARIABLES row,      \* the turn's generations row
          held,     \* the snapshot of it the turn holds (turn.generation)
          saved,    \* what is stored under the reserved message id
          pc,       \* the next step
          caller,   \* "inline", or shielded work with the generator "waiting" or "gone"
          intent,   \* the ending the row is being moved to
          turn,     \* the flags of _UserTurn and its in-flight entry
          faults    \* what has failed so far

vars == <<row, held, saved, pc, caller, intent, turn, faults>>

(* `failure` is the error response of a graph that reported one: it is      *)
(* stored as the answer. `error` is the message of an exception.            *)
Messages == {"none", "answer", "failure", "partial", "paused", "interrupt", "error"}

Pcs == {"create", "run", "opened", "graph", "stop_save", "pause_save", "pause_images",
        "finish_save", "finish_images", "fail_inner", "fail_save", "keep_partial",
        "apply", "reread", "retry", "tail", "over"}

(* `text`: some answer text was streamed; `parks`: the entry outlives the   *)
(* turn as a lock token; `handled`: an except clause is running.            *)
Turn == [persisted : BOOLEAN, settling : BOOLEAN, cancelled : BOOLEAN, text : BOOLEAN,
         replies : BOOLEAN, parks : BOOLEAN, handled : BOOLEAN,
         entry : {"none", "live", "paused"}]

Init ==
    /\ row = NoRow(Worker)
    /\ held = NoRow(Worker)
    /\ saved = "none"
    /\ pc = "create"
    /\ caller = "waiting"
    /\ intent = "none"
    /\ turn = [persisted |-> FALSE, settling |-> FALSE, cancelled |-> FALSE, text |-> FALSE,
               replies |-> FALSE, parks |-> FALSE, handled |-> FALSE, entry |-> "none"]
    /\ faults = {}

Fails(point) == point \in FaultPoints /\ faults' = faults \union {point}

Works == UNCHANGED faults

(* A message row can be inserted under the reserved id only once. *)
Insert(message) == saved = "none" /\ saved' = message

Become(ending) == pc' = "apply" /\ intent' = ending

-----------------------------------------------------------------------------
(* An exception leaves the current step. Shielded work nobody waits for     *)
(* only logs it; the generator stores it as the answer unless one is saved, *)
(* or unless it comes from that very handler.                               *)
Raise ==
    /\ IF caller = "gone" \/ turn.persisted \/ turn.handled
       THEN pc' = "over" /\ UNCHANGED <<caller, turn>>
       ELSE pc' = "fail_save" /\ caller' = "waiting" /\ turn' = [turn EXCEPT !.handled = TRUE]
    /\ UNCHANGED <<row, held, saved, intent>>

(* CancelledError or GeneratorExit reaches the generator. Shielded work goes *)
(* on without it; from its own awaits it goes to the clean-up, which stands  *)
(* down if an answer is saved or a terminal path is settling the row.        *)
Interrupt(flag) ==
    /\ pc # "over" /\ caller # "gone"
    /\ flag => turn.entry # "none"
    /\ LET cancelled == [turn EXCEPT !.cancelled = @ \/ flag] IN
       \/ /\ caller = "waiting"
          /\ caller' = "gone" /\ turn' = cancelled
          /\ UNCHANGED pc
       \/ /\ caller = "inline"
          /\ IF turn.persisted \/ turn.settling
             THEN pc' = "over" /\ turn' = cancelled /\ UNCHANGED caller
             ELSE /\ pc' = "keep_partial" /\ caller' = "waiting"
                  /\ turn' = [cancelled EXCEPT !.handled = TRUE]
    /\ UNCHANGED <<row, held, saved, intent, faults>>

Disconnect == Interrupt(FALSE)

(* registry.request_cancel on this worker sets the flag and cancels the     *)
(* task; the row was moved first, and may have been settled meanwhile.      *)
StopHere == row.status \in {"stop_requested", "stopped"} /\ Interrupt(TRUE)

(* A Stop, from any worker, takes the active row to stop_requested. *)
RequestStop ==
    /\ row.status \in ActiveStatuses \ {"stop_requested"}
    /\ row' = RequestWorkerStop(row)
    /\ UNCHANGED <<held, saved, pc, caller, intent, turn, faults>>

-----------------------------------------------------------------------------
(* _abegin_user_turn: the row is opened shielded, then the entry.           *)

CreateRow ==
    /\ pc = "create"
    /\ \/ /\ Fails("create")
          /\ pc' = "over"
          /\ UNCHANGED <<row, held>>
       \/ /\ Works
          /\ row' = Create(Worker) /\ held' = Create(Worker)
          /\ pc' = "run"
    /\ UNCHANGED <<saved, caller, intent, turn>>

(* A failed or refused mark_running keeps the old snapshot. A caller that   *)
(* has gone leaves the opened row to on_abandoned.                          *)
EnterRunning ==
    /\ pc = "run"
    /\ \/ Fails("running") /\ UNCHANGED <<row, held>>
       \/ /\ Works /\ Matches(row, held.version, {"starting"})
          /\ row' = MarkRunning(row) /\ held' = MarkRunning(row)
       \/ Works /\ ~Matches(row, held.version, {"starting"}) /\ UNCHANGED <<row, held>>
    /\ IF caller = "gone"
       THEN Become("stopped") /\ UNCHANGED <<caller, turn>>
       ELSE /\ pc' = "opened" /\ caller' = "inline"
            /\ turn' = [turn EXCEPT !.entry = "live"]
            /\ UNCHANGED intent
    /\ UNCHANGED saved

(* A message that is not a user's gets no reply: its row is just closed. *)
CloseWithoutReply ==
    /\ pc = "opened"
    /\ turn' = [turn EXCEPT !.entry = "none"]
    /\ Become("completed")
    /\ UNCHANGED <<row, held, saved, caller, faults>>

Prepare ==
    /\ pc = "opened"
    /\ \/ /\ Works
          /\ pc' = "graph"
          /\ turn' = [turn EXCEPT !.replies = TRUE]
          /\ UNCHANGED <<row, held, saved, caller, intent>>
       \/ Fails("prepare") /\ Raise

-----------------------------------------------------------------------------
(* The event loop of _astream_user_turn.                                    *)

StreamText ==
    /\ pc = "graph"
    /\ ~turn.cancelled /\ ~turn.text
    /\ turn' = [turn EXCEPT !.text = TRUE]
    /\ UNCHANGED <<row, held, saved, pc, caller, intent, faults>>

(* Mutant: the watch asks the snapshot the turn holds, not the row. *)
SeeStopInSnapshot ==
    /\ pc = "graph"
    /\ held.status = "stop_requested"
    /\ turn' = [turn EXCEPT !.cancelled = TRUE]
    /\ pc' = "stop_save"
    /\ UNCHANGED <<row, held, saved, caller, intent, faults>>

(* The durable stop watch finds the row asking to stop. *)
SeeStop ==
    /\ pc = "graph"
    /\ row.status = "stop_requested"
    /\ turn' = [turn EXCEPT !.cancelled = TRUE]
    /\ pc' = "stop_save"
    /\ UNCHANGED <<row, held, saved, caller, intent, faults>>

GraphRaises == pc = "graph" /\ Fails("graph") /\ Raise

(* The approval message is stored with no await in between, then the row is *)
(* released shielded.                                                       *)
PauseForApproval ==
    /\ pc = "graph"
    /\ ~turn.cancelled
    /\ \/ /\ Works
          /\ Insert("interrupt")
          /\ turn' = [turn EXCEPT !.persisted = TRUE, !.parks = TRUE]
          /\ caller' = "waiting"
          /\ Become("approval")
          /\ UNCHANGED <<row, held>>
       \/ Fails("interrupt") /\ Raise

TakeOver(step, parks) ==
    /\ pc = "graph"
    /\ ~turn.cancelled
    /\ turn' = [turn EXCEPT !.settling = TRUE, !.parks = parks]
    /\ caller' = "waiting"
    /\ pc' = step
    /\ UNCHANGED <<row, held, saved, intent>>

ReachBudget == Works /\ TakeOver("pause_save", TRUE)

CompleteGraph == Works /\ TakeOver("finish_save", FALSE)

(* The graph ends with an error event, or completes with an error response: *)
(* the same path, with that response for an answer.                         *)
GraphReportsError == Fails("graph") /\ TakeOver("finish_save", FALSE)

(* Mutant: Continue is offered without storing the partial first. *)
OfferAnyway ==
    /\ pc = "pause_save"
    /\ Works \/ Fails("answer")
    /\ Become("continuable")
    /\ UNCHANGED <<row, held, saved, caller, turn>>

(* _apublish_continuation_pause: store the partial, then offer Continue; a  *)
(* failure to store fails the row.                                          *)
SavePause ==
    /\ pc = "pause_save"
    /\ \/ Works /\ Insert("paused") /\ pc' = "pause_images" /\ UNCHANGED intent
       \/ Fails("answer") /\ Become("failed") /\ UNCHANGED saved
    /\ UNCHANGED <<row, held, caller, turn>>

MarkPauseImages ==
    /\ pc = "pause_images"
    /\ \/ Works /\ (Become("continuable") \/ Become("blocked"))
       \/ Fails("images") /\ Become("failed")
    /\ UNCHANGED <<row, held, saved, caller, turn>>

(* The response the graph left: its answer, or the error it reported. *)
Response == IF "graph" \in faults THEN "failure" ELSE "answer"

(* Mutant: a turn that streamed no text has no answer to store. *)
SaveSeenAnswer ==
    /\ pc = "finish_save"
    /\ \/ /\ Works
          /\ IF turn.text THEN Insert(Response) ELSE UNCHANGED saved
          /\ pc' = "finish_images"
       \/ Fails("answer") /\ pc' = "fail_inner" /\ UNCHANGED saved
    /\ UNCHANGED <<row, held, caller, intent, turn>>

(* _apersist_finished_user_turn: store the response, then mark its images;  *)
(* either failure is stored as the answer instead.                          *)
SaveAnswer ==
    /\ pc = "finish_save"
    /\ \/ Works /\ Insert(Response) /\ pc' = "finish_images"
       \/ Fails("answer") /\ pc' = "fail_inner" /\ UNCHANGED saved
    /\ UNCHANGED <<row, held, caller, intent, turn>>

MarkAnswerImages ==
    /\ pc = "finish_images"
    /\ \/ /\ Works
          /\ Become("completed")
          /\ turn' = [turn EXCEPT !.persisted = TRUE]
       \/ /\ Fails("images")
          /\ pc' = "fail_inner"
          /\ UNCHANGED <<intent, turn>>
    /\ UNCHANGED <<row, held, saved, caller>>

(* _astop_user_turn, inline: keep the partial, then confirm the stop. *)
StopTurn ==
    /\ pc = "stop_save"
    /\ \/ /\ Works
          /\ IF turn.text THEN Insert("partial") ELSE UNCHANGED saved
          /\ Become("stopped")
          /\ UNCHANGED <<row, held, caller, turn>>
       \/ turn.text /\ Fails("partial") /\ Raise

(* _afail_user_turn: the error message takes the reserved id, or raises. *)
FailTurn ==
    /\ pc \in {"fail_inner", "fail_save"}
    /\ \/ /\ Works
          /\ Insert("error")
          /\ turn' = [turn EXCEPT !.entry = "none"]
          /\ Become("failed")
          /\ UNCHANGED <<row, held, caller>>
       \/ Works /\ saved # "none" /\ Raise
       \/ Fails("error") /\ Raise

(* Mutant: a partial that cannot be kept skips the rest of the clean-up. *)
KeepPartialOrRaise ==
    /\ pc = "keep_partial"
    /\ \/ /\ Works
          /\ IF turn.text THEN Insert("partial") ELSE UNCHANGED saved
          /\ Become("stopped")
          /\ turn' = [turn EXCEPT !.entry = "none"]
          /\ UNCHANGED <<row, held, caller>>
       \/ turn.text /\ Works /\ saved # "none" /\ Raise
       \/ turn.text /\ Fails("partial") /\ Raise

(* Mutant: the partial is kept for a Stop, and not for a disconnect. *)
KeepPartialOfStops ==
    /\ pc = "keep_partial"
    /\ IF turn.text /\ turn.cancelled /\ saved = "none" THEN Insert("partial") ELSE UNCHANGED saved
    /\ turn' = [turn EXCEPT !.entry = "none"]
    /\ Become("stopped")
    /\ UNCHANGED <<row, held, caller, faults>>

(* _apersist_interrupted_user_turn: the partial is best effort (it may      *)
(* collide with one already stored), the row is not.                        *)
KeepPartial ==
    /\ pc = "keep_partial"
    /\ \/ Works /\ turn.text /\ Insert("partial")
       \/ Works /\ (~turn.text \/ saved # "none") /\ UNCHANGED saved
       \/ Fails("partial") /\ turn.text /\ UNCHANGED saved
    /\ turn' = [turn EXCEPT !.entry = "none"]
    /\ Become("stopped")
    /\ UNCHANGED <<row, held, caller>>

-----------------------------------------------------------------------------
(* _aworker_transition and what follows it. *)

(* The work is over: the entry is parked or dropped, and a generator still  *)
(* there goes on to its last events.                                        *)
Leave ==
    /\ turn' = [turn EXCEPT !.entry = IF turn.parks /\ @ = "live" THEN "paused" ELSE "none"]
    /\ IF caller = "gone" \/ turn.handled
       THEN pc' = "over" /\ UNCHANGED caller
       ELSE pc' = "tail" /\ caller' = "inline"

Apply ==
    /\ pc = "apply"
    /\ \/ /\ Works
          /\ Matches(row, held.version, LegalFrom(intent))
          /\ row' = Settled(row, intent, 0)
          /\ Leave
       \/ /\ Works
          /\ ~Matches(row, held.version, LegalFrom(intent))
          /\ pc' = "reread"
          /\ UNCHANGED <<row, caller, turn>>
       \/ Fails("mark") /\ Leave /\ UNCHANGED row
    /\ UNCHANGED <<held, saved, intent>>

(* Mutant: an unmoved row is tried again, and again. *)
RereadForever ==
    /\ pc = "reread"
    /\ pc' = IF row.version = held.version THEN "apply" ELSE "retry"
    /\ held' = row
    /\ intent' = IF row.status = "stop_requested" /\ intent # "failed" THEN "stopped" ELSE intent
    /\ UNCHANGED <<row, saved, caller, turn, faults>>

(* The second read; `held` only lends its version to the retry. *)
Reread ==
    /\ pc = "reread"
    /\ \/ /\ (Works /\ row.version = held.version) \/ Fails("mark")
          /\ Leave
          /\ UNCHANGED <<held, intent>>
       \/ /\ Works
          /\ row.version # held.version
          /\ pc' = "retry" /\ held' = row
          /\ intent' = IF row.status = "stop_requested" /\ intent # "failed"
                       THEN "stopped" ELSE intent
          /\ UNCHANGED <<caller, turn>>
    /\ UNCHANGED <<row, saved>>

Retry ==
    /\ pc = "retry"
    /\ \/ /\ Works
          /\ row' = IF Matches(row, held.version, LegalFrom(intent))
                    THEN Settled(row, intent, 0) ELSE row
       \/ Fails("mark") /\ UNCHANGED row
    /\ Leave
    /\ UNCHANGED <<held, saved, intent>>

(* The title and the closing events are sent, and the generator returns. *)
Return ==
    /\ pc = "tail"
    /\ pc' = "over"
    /\ UNCHANGED <<row, held, saved, caller, intent, turn, faults>>

-----------------------------------------------------------------------------
(* The graph ends its run, or is broken off. *)
GraphEnds ==
    \/ GraphRaises \/ GraphReportsError
    \/ PauseForApproval \/ ReachBudget \/ CompleteGraph

(* The steps of the turn itself. *)
TurnStep ==
    \/ CreateRow \/ EnterRunning \/ CloseWithoutReply \/ Prepare \/ SeeStop
    \/ SavePause \/ MarkPauseImages \/ SaveAnswer \/ MarkAnswerImages
    \/ StopTurn \/ FailTurn \/ KeepPartial \/ Apply \/ Reread \/ Retry \/ Return

Step == TurnStep \/ GraphEnds

Next == Step \/ StreamText \/ Disconnect \/ StopHere \/ RequestStop

Spec == Init /\ [][Next]_vars

(* The turn's own steps are bounded awaits. The graph owes no end: it may   *)
(* run for ever. It does go on producing checkpoint events, at which the    *)
(* watch reads the row (a failed read is tried again at the next), so the   *)
(* watch is one of the turn's fair steps. The client owes nothing, and no   *)
(* signal (StopHere) is owed: every one of them may be lost.                *)
FairSpec == Spec /\ WF_vars(TurnStep)

-----------------------------------------------------------------------------
(* Properties. *)

(* Every variable has its type. *)
TypeOK ==
    /\ row \in RowType({Worker})
    /\ held \in RowType({Worker})
    /\ saved \in Messages
    /\ pc \in Pcs
    /\ caller \in {"inline", "waiting", "gone"}
    /\ intent \in Intents
    /\ turn \in Turn
    /\ faults \subseteq FaultPoints

Over == pc = "over"

(* The failures a turn cannot settle its row after: of the settling write   *)
(* itself, of the error message, of mark_running before a pause (which is   *)
(* not legal from `starting`), of marking the images of a stored answer.    *)
Unrecoverable ==
    \/ faults \intersect {"mark", "error"} # {}
    \/ "running" \in faults /\ saved \in {"paused", "interrupt"}
    \/ "images" \in faults /\ saved \in {"answer", "failure"}

(* A turn that is over has let go: its row is not active and its in-flight  *)
(* entry not live, however often it was cancelled and whichever of its      *)
(* other writes failed (the docstring of _create_message_stream_holding_turn *)
(* promises it of every way out).                                           *)
TurnIsSettled == Over /\ ~Unrecoverable => ~IsActive(row) /\ turn.entry # "live"

(* Persist first, offer second: a row says completed or continuable only    *)
(* when the message it stands for is stored under the reserved id (for      *)
(* completed, the answer, or the error response the graph reported).        *)
StoredBeforeSettled ==
    /\ row.status = "completed" /\ turn.replies => saved \in {"answer", "failure"}
    /\ row.status = "continuable" =>
         saved = IF row.block = "tool_approval_required" THEN "interrupt" ELSE "paused"

(* What a failed graph run, or a failed write of the text itself, loses. *)
LosesText == {"graph", "partial", "answer", "interrupt"}

(* Text the user saw is kept: a turn that streamed some and then ended, by  *)
(* completion, pause, approval, Stop or disconnect, has stored a message    *)
(* that holds it, and not an error message, whichever other write failed.   *)
(* A graph that fails is the exception the code makes: _afail_user_turn     *)
(* stores the error alone, and the streamed partial is dropped.             *)
TextIsKept ==
    Over /\ turn.text /\ faults \intersect LosesText = {} =>
      saved \in {"answer", "partial", "paused", "interrupt"}

(* A failed run is told: a turn whose graph raised or reported an error     *)
(* leaves a stored message that says so, whoever disconnected or stopped it *)
(* meanwhile, unless the error message itself could not be written; it      *)
(* leaves neither a partial that looks stopped nor silence.                 *)
FailureIsTold ==
    Over /\ "graph" \in faults /\ "error" \notin faults =>
      saved \in {"failure", "error"}

(* Every turn ends, whatever fails and however it is cancelled, in its      *)
(* generator or in work nobody waits for, unless its graph runs for ever.   *)
TurnEnds == <>Over \/ <>[](pc = "graph")

(* The row alone stops a turn: once it asks for a stop, the turn ends with  *)
(* the row stopped (or failed), although no signal ever arrives and the     *)
(* graph would run for ever, unless a write it cannot do without failed.    *)
StopNeedsNoSignal ==
    row.status = "stop_requested" ~>
      Over /\ (row.status \in {"stopped", "failed"} \/ Unrecoverable)
=============================================================================
