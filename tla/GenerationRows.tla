---------------------------- MODULE GenerationRows ----------------------------
(***************************************************************************)
(* The `generations` row (app/models/generation.py) and the writes the      *)
(* lifecycle service makes to it (generation_control_service.py).  Every    *)
(* write is one UPDATE fenced by `Matches` (repositories/generation.py,     *)
(* atransition): the row must still have the version the writer last saw    *)
(* and a status the write is legal from; the version then grows by one.     *)
(*                                                                          *)
(* Fields no property tells apart (timestamps, terminal_reason, message id, *)
(* budgets, checkpoint thread) are left out.  `continuation_available` and  *)
(* `continuation_id` are always set and cleared together, so one field      *)
(* stands for both: 0 is "none", and an id minted with a row's version v    *)
(* is v, which no other mint on that row can repeat.                        *)
(***************************************************************************)
EXTENDS Naturals

ActiveStatuses ==
    {"starting", "running", "finalizing_after_limit", "continuing", "stop_requested"}

TerminalStatuses == {"stopped", "completed", "completed_partial", "failed"}

GenerationStatus == ActiveStatuses \union TerminalStatuses \union {"continuable"}

\* "absent": the row has not been inserted yet.
RowStatus == GenerationStatus \union {"absent"}

\* The status sets each worker transition is legal from.
Stoppable == ActiveStatuses
Completable == ActiveStatuses \ {"stop_requested"}
ContinuableFrom == {"running", "finalizing_after_limit", "continuing"}

BlockReason == {"none", "mutation_outcome_unknown", "tool_approval_required"}

RowType(Producers) ==
    [status : RowStatus, version : Nat, epoch : Nat, producer : Producers,
     continuation : Nat, block : BlockReason]

NoRow(p) == [status |-> "absent", version |-> 0, epoch |-> 0, producer |-> p,
             continuation |-> 0, block |-> "none"]

IsActive(row) == row.status \in ActiveStatuses

-----------------------------------------------------------------------------
(* atransition's WHERE clause.                                              *)
Matches(row, version, statuses) ==
    /\ row.version = version
    /\ row.status \in statuses

(* Every SET clause writes a status and advances the version. *)
Moved(row, status) == [row EXCEPT !.status = status, !.version = @ + 1]

Create(p) == Moved(NoRow(p), "starting")

MarkRunning(row) == Moved(row, "running")

(* A blocked pause mints no continuation id; an approval pause is one. *)
MarkContinuable(row, block, epoch) ==
    [Moved(row, "continuable") EXCEPT
        !.epoch = epoch, !.block = block,
        !.continuation = IF block = "none" THEN row.version + 1 ELSE 0]

(* Mutant: a stopped row that goes on offering its continuation. *)
MarkStoppedOffering(row) ==
    [Moved(row, "stopped") EXCEPT !.continuation = row.version + 1, !.block = "none"]

(* No worker passes continuation_available, so a stopped row offers nothing. *)
MarkStopped(row) == [Moved(row, "stopped") EXCEPT !.continuation = 0, !.block = "none"]

(* Mutant: a status the column's enum does not have. *)
MarkFailedUnlisted(row) == [Moved(row, "errored") EXCEPT !.continuation = 0]

MarkFailed(row) == [Moved(row, "failed") EXCEPT !.continuation = 0]

MarkCompleted(row, status) == [Moved(row, status) EXCEPT !.continuation = 0]

MarkResumedAfterApproval(row, p) ==
    [Moved(row, "running") EXCEPT !.block = "none", !.producer = p]

RequestWorkerStop(row) == Moved(row, "stop_requested")

AcceptPartial(row) == [Moved(row, "completed_partial") EXCEPT !.continuation = 0]

(* Mutant: the lease leaves the epoch where the pause put it. *)
LeaseSameEpoch(row, p) ==
    [Moved(row, "continuing") EXCEPT !.producer = p, !.continuation = 0]

LeaseEpoch(row, p) ==
    [Moved(row, "continuing") EXCEPT !.epoch = row.epoch + 1, !.producer = p, !.continuation = 0]

(* afail_active_by_producer: a bulk UPDATE with no version in its WHERE. *)
FailActive(row) == Moved(row, "failed")

-----------------------------------------------------------------------------
(* How a worker may end its turn: `intent` is the ending it wants to write. *)

Intents == {"none", "completed", "completed_partial", "failed", "stopped",
            "continuable", "blocked", "approval"}

LegalFrom(intent) ==
    CASE intent \in {"failed", "stopped"} -> Stoppable
      [] intent \in {"completed", "completed_partial"} -> Completable
      [] OTHER -> ContinuableFrom

(* The row after the worker's transition; a budget pause takes the graph's  *)
(* epoch, which auto-continue may have rolled on, an approval does not.     *)
Settled(row, intent, roll) ==
    CASE intent = "failed" -> MarkFailed(row)
      [] intent = "stopped" -> MarkStopped(row)
      [] intent = "completed" -> MarkCompleted(row, "completed")
      [] intent = "completed_partial" -> MarkCompleted(row, "completed_partial")
      [] intent = "continuable" -> MarkContinuable(row, "none", row.epoch + roll)
      [] intent = "blocked" ->
            MarkContinuable(row, "mutation_outcome_unknown", row.epoch + roll)
      [] intent = "approval" -> MarkContinuable(row, "tool_approval_required", row.epoch)
      [] OTHER -> row
=============================================================================
