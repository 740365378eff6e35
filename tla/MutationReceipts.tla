--------------------------- MODULE MutationReceipts ---------------------------
(***************************************************************************)
(* One mutating tool call and its receipt.                                  *)
(*                                                                          *)
(* A node that calls a mutating tool may be executed again: LangGraph       *)
(* replays it after a crash, and a replay may overlap an execution that     *)
(* still runs elsewhere.  All executions of one call derive the same        *)
(* execution key (thread, dispatch, task, tool call), so they meet on one   *)
(* row of tool_execution_receipts.  Each execution                          *)
(*   - reserves the row, or reads it (areserve),                            *)
(*   - answers from it, or invokes the tool (execute_mutation),             *)
(*   - makes one or more attempts (invoke_tool_with_policy), and            *)
(*   - records the outcome with one compare-and-set (_atransition).         *)
(*                                                                          *)
(* The tool behind the call (an MCP server or a client device) is external: *)
(* an attempt that reached it takes effect or is turned down, at any time,  *)
(* whether or not its caller is still waiting.                              *)
(***************************************************************************)
EXTENDS Naturals, FiniteSets

CONSTANTS
    Executions,     \* executions of the node that makes this call
    MaxAttempts     \* the tool policy's max_attempts

ASSUME MaxAttemptsAssumption == MaxAttempts \in Nat \ {0}

VARIABLES
    status,         \* the receipt: "absent" until reserved
    idempotent,     \* the tool's metadata declares provider_idempotency
    retriable,      \* policy_retry_allowed: retry_safe or idempotent policy
    pc,             \* where each execution is
    attempts,       \* attempts each execution has begun
    outcome,        \* what an execution is about to record
    answer,         \* what an execution told the model
    fresh,          \* executions whose reservation created the row
    pending,        \* attempts the tool has received and not decided
    applied,        \* attempts that took effect
    refused         \* attempts the tool turned down

receipt == <<status, fresh>>
tool == <<pending, applied, refused>>
policy == <<idempotent, retriable>>
vars == <<status, idempotent, retriable, pc, attempts, outcome, answer, fresh,
          pending, applied, refused>>

ReceiptStatus == {"absent", "reserved", "completed", "failed", "outcome_unknown"}
Outcome == {"completed", "failed", "outcome_unknown"}
Control == {"idle", "doubting", "calling", "waiting", "recording", "over"}
Answer == {"none", "result", "error", "unknown"}

(* The one attempt beyond max_attempts is the one after a pre-send reconnect. *)
AttemptNumbers == 1..(MaxAttempts + 1)
Attempts == Executions \X AttemptNumbers

(* The attempt an execution is on. *)
Attempt(e) == <<e, attempts[e]>>

(* Every attempt that has reached the tool. *)
Sent == pending \union applied \union refused

TypeOK ==
    /\ status \in ReceiptStatus
    /\ idempotent \in BOOLEAN
    /\ retriable \in BOOLEAN
    /\ pc \in [Executions -> Control]
    /\ attempts \in [Executions -> 0..(MaxAttempts + 1)]
    /\ outcome \in [Executions -> Outcome]
    /\ answer \in [Executions -> Answer]
    /\ fresh \subseteq Executions
    /\ pending \subseteq Attempts
    /\ applied \subseteq Attempts
    /\ refused \subseteq Attempts

Init ==
    /\ status = "absent"
    /\ idempotent \in BOOLEAN
    /\ retriable \in BOOLEAN
    /\ pc = [e \in Executions |-> "idle"]
    /\ attempts = [e \in Executions |-> 0]
    /\ outcome = [e \in Executions |-> "failed"]
    /\ answer = [e \in Executions |-> "none"]
    /\ fresh = {}
    /\ pending = {}
    /\ applied = {}
    /\ refused = {}

-----------------------------------------------------------------------------
(* execute_mutation: the decision taken from the row.                       *)

Goes(e, to) == pc' = [pc EXCEPT ![e] = to]

Answers(e, what) ==
    /\ answer' = [answer EXCEPT ![e] = what]
    /\ Goes(e, "over")

(* The first attempt begins with the invocation. *)
Invoke(e) ==
    /\ attempts' = [attempts EXCEPT ![e] = 1]
    /\ Goes(e, "calling")

(* areserve: the insert wins the unique index. *)
Reserve(e) ==
    /\ pc[e] = "idle"
    /\ status = "absent"
    /\ status' = "reserved"
    /\ fresh' = fresh \union {e}
    /\ Invoke(e)
    /\ UNCHANGED <<policy, outcome, answer, tool>>

(* _replay: the statuses the row itself answers. *)
AnsweredByTheRow == [completed |-> "result", outcome_unknown |-> "unknown"]

ReplayFromRow(e) ==
    /\ pc[e] = "idle"
    /\ status \in DOMAIN AnsweredByTheRow
    /\ Answers(e, AnsweredByTheRow[status])
    /\ UNCHANGED <<policy, attempts, outcome, receipt, tool>>

(* Mutant: every lost attempt is retried, whatever the provider promises.    *)
MayRerunAnyReserved == status \in {"failed", "reserved"}

(* A failed row runs again; a reserved one only where the provider           *)
(* deduplicates.  Neither writes the row before the call.                    *)
MayRerun == status = "failed" \/ (status = "reserved" /\ idempotent)

Rerun(e) ==
    /\ pc[e] = "idle"
    /\ MayRerun
    /\ Invoke(e)
    /\ UNCHANGED <<policy, outcome, answer, receipt, tool>>

(* A previous execution is lost or still running: nobody can tell which.     *)
FindReserved(e) ==
    /\ pc[e] = "idle"
    /\ status = "reserved"
    /\ ~MayRerun
    /\ Goes(e, "doubting")
    /\ UNCHANGED <<policy, attempts, outcome, answer, receipt, tool>>

(* _atransition: compare-and-set from RESERVED, and silently nothing else.   *)
Transition(to) == status' = IF status = "reserved" THEN to ELSE status

MarkDoubt(e) ==
    /\ pc[e] = "doubting"
    /\ Transition("outcome_unknown")
    /\ Answers(e, "unknown")
    /\ UNCHANGED <<policy, attempts, outcome, fresh, tool>>

-----------------------------------------------------------------------------
(* invoke_tool_with_policy and the pipeline around it.                       *)

Records(e, what) ==
    /\ outcome' = [outcome EXCEPT ![e] = what]
    /\ Goes(e, "recording")
    /\ UNCHANGED attempts

(* Mutant: the retry limit ignores whether the policy allows retries.        *)
RetriesRegardless(e) == attempts[e] < MaxAttempts

(* Mutant: a retriable tool is tried without a limit. *)
RetriesWithoutLimit(e) == retriable

(* ordinary_retry_allowed *)
MayRetry(e) == retriable /\ attempts[e] < MaxAttempts

Retries(e) ==
    /\ attempts' = [attempts EXCEPT ![e] = @ + 1]
    /\ Goes(e, "calling")
    /\ UNCHANGED outcome

(* A failed attempt is tried again while the policy and the total deadline  *)
(* allow it; otherwise its error is what is recorded.                        *)
Fails(e, what) ==
    \/ Records(e, what)
    \/ MayRetry(e) /\ Retries(e)

(* The pipeline refuses before any attempt (_pre_check_tool_call, an invalid *)
(* policy), or an attempt fails before anything is sent.                     *)
FailBeforeSending(e) ==
    /\ pc[e] = "calling"
    /\ Fails(e, "failed")
    /\ UNCHANGED <<policy, answer, receipt, tool>>

(* The client-tool guards return their refusal as an ordinary string, which  *)
(* is no error result, so the call counts as a success.                      *)
AnswerUnavailable(e) ==
    /\ pc[e] = "calling"
    /\ Records(e, "completed")
    /\ UNCHANGED <<policy, answer, receipt, tool>>

(* A closed MCP stream rejects the request before it is sent: one reconnect, *)
(* for a tool that may not be retried otherwise.                             *)
ReconnectBeforeSending(e) ==
    /\ pc[e] = "calling"
    /\ ~retriable
    /\ attempts[e] = 1
    /\ Retries(e)
    /\ UNCHANGED <<policy, answer, receipt, tool>>

(* The deadline passes before the request leaves, or while reconnecting.     *)
TimeOutBeforeSending(e) ==
    /\ pc[e] = "calling"
    /\ Fails(e, "outcome_unknown")
    /\ UNCHANGED <<policy, answer, receipt, tool>>

Send(e) ==
    /\ pc[e] = "calling"
    /\ pending' = pending \union {Attempt(e)}
    /\ Goes(e, "waiting")
    /\ UNCHANGED <<policy, attempts, outcome, answer, receipt, applied, refused>>

ReturnResult(e) ==
    /\ pc[e] = "waiting"
    /\ Attempt(e) \in applied
    /\ Records(e, "completed")
    /\ UNCHANGED <<policy, answer, receipt, tool>>

ReturnRefusal(e) ==
    /\ pc[e] = "waiting"
    /\ Attempt(e) \in refused
    /\ Fails(e, "failed")
    /\ UNCHANGED <<policy, answer, receipt, tool>>

(* A timeout stops the waiting, not the work (outcome_may_have_happened).    *)
TimeOut(e) ==
    /\ pc[e] = "waiting"
    /\ Fails(e, "outcome_unknown")
    /\ UNCHANGED <<policy, answer, receipt, tool>>

(* Any other exception once the request is out: a broken MCP transport, or   *)
(* an error while the result is rendered or offloaded.                       *)
FailAfterSending(e) ==
    /\ pc[e] = "waiting"
    /\ Fails(e, "failed")
    /\ UNCHANGED <<policy, answer, receipt, tool>>

(* GraphBubbleUp out of the tool, a cancelled execution, a crash, or an      *)
(* outcome whose write fails: the row stays as it is.                        *)
Abandon(e) ==
    /\ pc[e] \in {"doubting", "calling", "waiting", "recording"}
    /\ Goes(e, "over")
    /\ UNCHANGED <<policy, attempts, outcome, answer, receipt, tool>>

ToldAs == [completed |-> "result", failed |-> "error", outcome_unknown |-> "unknown"]

(* acomplete, afail or amark_outcome_unknown, then the middleware's message. *)
Record(e) ==
    /\ pc[e] = "recording"
    /\ Transition(outcome[e])
    /\ Answers(e, ToldAs[outcome[e]])
    /\ UNCHANGED <<policy, attempts, outcome, fresh, tool>>

-----------------------------------------------------------------------------
(* The tool (external).  No key reaches it: the middleware's `invoke` wrapper  *)
(* swallows the idempotency key it is offered, so each attempt is a new call. *)

Apply(a) ==
    /\ a \in pending
    /\ pending' = pending \ {a}
    /\ applied' = applied \union {a}
    /\ UNCHANGED <<policy, pc, attempts, outcome, answer, receipt, refused>>

TurnDown(a) ==
    /\ a \in pending
    /\ pending' = pending \ {a}
    /\ refused' = refused \union {a}
    /\ UNCHANGED <<policy, pc, attempts, outcome, answer, receipt, applied>>

ExecutionStep(e) ==
    \/ Reserve(e) \/ ReplayFromRow(e) \/ Rerun(e)
    \/ FindReserved(e) \/ MarkDoubt(e)
    \/ FailBeforeSending(e) \/ AnswerUnavailable(e)
    \/ ReconnectBeforeSending(e) \/ TimeOutBeforeSending(e)
    \/ Send(e) \/ ReturnResult(e) \/ ReturnRefusal(e)
    \/ TimeOut(e) \/ FailAfterSending(e)
    \/ Abandon(e) \/ Record(e)

Next ==
    \/ \E e \in Executions : ExecutionStep(e)
    \/ \E a \in Attempts : Apply(a) \/ TurnDown(a)

Spec == Init /\ [][Next]_vars

-----------------------------------------------------------------------------
(* Unless the row says the tool never accepted the call, only one execution  *)
(* of a call without provider deduplication ever reaches the tool, however   *)
(* its replays overlap it: the others answer from the row or report the      *)
(* outcome unknown.                                                          *)
OneExecutionActs ==
    ~idempotent /\ status # "failed" =>
        \A a, b \in Sent : a[1] = b[1]

(* ... and where the policy allows no retry, it reaches the tool once, so    *)
(* the effect happens at most once.                                          *)
AtMostOnceUnlessFailed ==
    ~idempotent /\ ~retriable /\ status # "failed" =>
        \A a, b \in Sent : a = b

(* A row that records a result is the end of the call: from then on no       *)
(* execution, however late or overlapping, sends anything to the tool or     *)
(* tells the model that the call failed.                                     *)
CompletedIsFinal ==
    [][~idempotent /\ status = "completed" =>
        /\ pending' \subseteq pending
        /\ \A e \in Executions : answer'[e] = "error" => answer[e] = "error"]_vars

(* The service's promise, "Runs one mutating tool call at most once per      *)
(* execution key": the effect happens at most once.                          *)
AtMostOnce == ~idempotent /\ ~retriable => Cardinality(applied) <= 1

=============================================================================
