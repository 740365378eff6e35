------------------------ MODULE MutationReceiptsProofs ------------------------
(***************************************************************************)
(* What MutationReceipts promises, for every number of executions and every *)
(* attempt limit.                                                           *)
(*                                                                          *)
(* The argument: the unique index lets one execution create the row, and    *)
(* while the row does not say "failed" every other execution of a call      *)
(* without provider deduplication is turned away by what it reads.          *)
(***************************************************************************)
EXTENDS MutationReceipts, TLAPS

(* Between the decision to invoke the tool and the outcome's record. *)
Acting == {"calling", "waiting", "recording"}

(* The unique index: at most one execution created the row. *)
OneReservation ==
    /\ status = "absent" => fresh = {}
    /\ \A e, f \in fresh : e = f

(* Only that execution acts. *)
OnlyTheFreshActs ==
    ~idempotent /\ status # "failed" =>
        /\ \A e \in Executions : pc[e] \in Acting => e \in fresh
        /\ \A a \in Sent : a[1] \in fresh

(* Without retries, what an execution sent is its current attempt. *)
SentOnce ==
    ~retriable =>
        \A a \in Sent :
            /\ pc[a[1]] \in {"waiting", "recording", "over"}
            /\ a[2] = attempts[a[1]]

(* After the result is recorded nobody acts. *)
CompletedIsQuiet ==
    ~idempotent /\ status = "completed" =>
        \A e \in Executions : pc[e] \notin Acting

(* An attempt is numbered from one. *)
AttemptIsNumbered == \A e \in Executions : pc[e] = "calling" => attempts[e] # 0

IInv ==
    /\ TypeOK /\ AttemptIsNumbered
    /\ OneReservation /\ OnlyTheFreshActs /\ SentOnce /\ CompletedIsQuiet

-----------------------------------------------------------------------------
(* The invariant holds before anything is reserved. *)
LEMMA InitIInv == Init => IInv
BY MaxAttemptsAssumption DEF Init, IInv, TypeOK, ReceiptStatus, Outcome, Control, Answer,
   AttemptIsNumbered, OneReservation, OnlyTheFreshActs, SentOnce, CompletedIsQuiet, Acting, Sent

(* Types, one action at a time. *)
LEMMA TypeStep ==
    ASSUME TypeOK, AttemptIsNumbered, [Next]_vars PROVE TypeOK'
<1> USE MaxAttemptsAssumption
<1>1. ASSUME NEW e \in Executions, ExecutionStep(e) PROVE TypeOK'
  <2>1. CASE Reserve(e)
    BY <2>1 DEF Reserve, Invoke, Goes, TypeOK, ReceiptStatus, Control, policy, tool
  <2>2. CASE ReplayFromRow(e)
    BY <2>2
      DEF ReplayFromRow, Answers, Goes, AnsweredByTheRow, TypeOK, Control, Answer, policy,
          receipt, tool
  <2>3. CASE Rerun(e)
    BY <2>3 DEF Rerun, Invoke, Goes, TypeOK, Control, policy, receipt, tool
  <2>4. CASE FindReserved(e)
    BY <2>4 DEF FindReserved, Goes, TypeOK, Control, policy, receipt, tool
  <2>5. CASE MarkDoubt(e)
    BY <2>5
      DEF MarkDoubt, Transition, Answers, Goes, TypeOK, ReceiptStatus, Control, Answer, policy,
          tool
  <2>6. CASE FailBeforeSending(e)
    BY <2>6
      DEF FailBeforeSending, Fails, Records, MayRetry, Retries, Goes, TypeOK, Outcome, Control,
          policy, receipt, tool
  <2>7. CASE AnswerUnavailable(e)
    BY <2>7
      DEF AnswerUnavailable, Records, Goes, TypeOK, Outcome, Control, policy, receipt, tool
  <2>8. CASE ReconnectBeforeSending(e)
    BY <2>8 DEF ReconnectBeforeSending, Retries, Goes, TypeOK, policy, receipt, tool
  <2>9. CASE TimeOutBeforeSending(e)
    BY <2>9
      DEF TimeOutBeforeSending, Fails, Records, MayRetry, Retries, Goes, TypeOK, Outcome, Control,
          policy, receipt, tool
  <2>10. CASE Send(e)
    BY <2>10
      DEF Send, Goes, Attempt, TypeOK, Control, Attempts, AttemptNumbers, policy, receipt,
          AttemptIsNumbered
  <2>11. CASE ReturnResult(e)
    BY <2>11
      DEF ReturnResult, Records, Goes, TypeOK, Outcome, Control, policy, receipt, tool
  <2>12. CASE ReturnRefusal(e)
    BY <2>12
      DEF ReturnRefusal, Fails, Records, MayRetry, Retries, Goes, TypeOK, Outcome, Control,
          policy, receipt, tool
  <2>13. CASE TimeOut(e)
    BY <2>13
      DEF TimeOut, Fails, Records, MayRetry, Retries, Goes, TypeOK, Outcome, Control, policy,
          receipt, tool
  <2>14. CASE FailAfterSending(e)
    BY <2>14
      DEF FailAfterSending, Fails, Records, MayRetry, Retries, Goes, TypeOK, Outcome, Control,
          policy, receipt, tool
  <2>15. CASE Abandon(e)
    BY <2>15 DEF Abandon, Goes, TypeOK, Control, policy, receipt, tool
  <2>16. CASE Record(e)
    BY <2>16
      DEF Record, Transition, Answers, Goes, ToldAs, TypeOK, ReceiptStatus, Outcome, Control,
          Answer, policy, tool
  <2> QED
    BY <1>1, <2>1, <2>2, <2>3, <2>4, <2>5, <2>6, <2>7, <2>8, <2>9, <2>10, <2>11, <2>12,
       <2>13, <2>14, <2>15, <2>16 DEF ExecutionStep
<1>2. ASSUME NEW a \in Attempts, Apply(a) PROVE TypeOK'
  BY <1>2 DEF Apply, TypeOK, policy, receipt
<1>3. ASSUME NEW a \in Attempts, TurnDown(a) PROVE TypeOK'
  BY <1>3 DEF TurnDown, TypeOK, policy, receipt
<1>4. CASE UNCHANGED vars
  BY <1>4 DEF vars, TypeOK
<1> QED BY <1>1, <1>2, <1>3, <1>4 DEF Next

(* An execution that calls is on a numbered attempt. *)
LEMMA NumberStep ==
    ASSUME TypeOK, AttemptIsNumbered, [Next]_vars PROVE AttemptIsNumbered'
<1> USE MaxAttemptsAssumption
<1>1. ASSUME NEW e \in Executions, ExecutionStep(e) PROVE AttemptIsNumbered'
  <2>1. CASE Reserve(e)
    BY <2>1 DEF Reserve, Invoke, Goes, TypeOK, AttemptIsNumbered
  <2>2. CASE ReplayFromRow(e)
    BY <2>2 DEF ReplayFromRow, Answers, Goes, AttemptIsNumbered
  <2>3. CASE Rerun(e)
    BY <2>3 DEF Rerun, Invoke, Goes, TypeOK, AttemptIsNumbered
  <2>4. CASE FindReserved(e)
    BY <2>4 DEF FindReserved, Goes, TypeOK, AttemptIsNumbered, policy, receipt, tool
  <2>5. CASE MarkDoubt(e)
    BY <2>5 DEF MarkDoubt, Answers, Goes, AttemptIsNumbered
  <2>6. CASE FailBeforeSending(e)
    BY <2>6 DEF FailBeforeSending, Fails, Records, Retries, Goes, TypeOK, AttemptIsNumbered
  <2>7. CASE AnswerUnavailable(e)
    BY <2>7 DEF AnswerUnavailable, Records, Goes, AttemptIsNumbered
  <2>8. CASE ReconnectBeforeSending(e)
    BY <2>8 DEF ReconnectBeforeSending, Retries, Goes, AttemptIsNumbered
  <2>9. CASE TimeOutBeforeSending(e)
    BY <2>9
      DEF TimeOutBeforeSending, Fails, Records, Retries, Goes, TypeOK, AttemptIsNumbered
  <2>10. CASE Send(e)
    BY <2>10 DEF Send, Goes, AttemptIsNumbered
  <2>11. CASE ReturnResult(e)
    BY <2>11 DEF ReturnResult, Records, Goes, AttemptIsNumbered
  <2>12. CASE ReturnRefusal(e)
    BY <2>12 DEF ReturnRefusal, Fails, Records, Retries, Goes, TypeOK, AttemptIsNumbered
  <2>13. CASE TimeOut(e)
    BY <2>13 DEF TimeOut, Fails, Records, Retries, Goes, TypeOK, AttemptIsNumbered
  <2>14. CASE FailAfterSending(e)
    BY <2>14 DEF FailAfterSending, Fails, Records, Retries, Goes, TypeOK, AttemptIsNumbered
  <2>15. CASE Abandon(e)
    BY <2>15 DEF Abandon, Goes, TypeOK, AttemptIsNumbered, policy, receipt, tool
  <2>16. CASE Record(e)
    BY <2>16 DEF Record, Answers, Goes, AttemptIsNumbered
  <2> QED
    BY <1>1, <2>1, <2>2, <2>3, <2>4, <2>5, <2>6, <2>7, <2>8, <2>9, <2>10, <2>11, <2>12,
       <2>13, <2>14, <2>15, <2>16 DEF ExecutionStep
<1>2. ASSUME NEW a \in Attempts, Apply(a) PROVE AttemptIsNumbered'
  BY <1>2 DEF Apply, TypeOK, AttemptIsNumbered, policy, receipt
<1>3. ASSUME NEW a \in Attempts, TurnDown(a) PROVE AttemptIsNumbered'
  BY <1>3 DEF TurnDown, TypeOK, AttemptIsNumbered, policy, receipt
<1>4. CASE UNCHANGED vars
  BY <1>4 DEF vars, TypeOK, AttemptIsNumbered, receipt
<1> QED BY <1>1, <1>2, <1>3, <1>4 DEF Next

(* The row is reserved by one insert only. *)
LEMMA ReservationStep ==
    ASSUME TypeOK, OneReservation, [Next]_vars PROVE OneReservation'
<1>1. ASSUME NEW e \in Executions, ExecutionStep(e) PROVE OneReservation'
  <2>1. CASE Reserve(e)
    BY <2>1 DEF Reserve, OneReservation
  <2>2. CASE ReplayFromRow(e)
    BY <2>2 DEF ReplayFromRow, OneReservation, receipt
  <2>3. CASE Rerun(e)
    BY <2>3 DEF Rerun, OneReservation, receipt
  <2>4. CASE FindReserved(e)
    BY <2>4 DEF FindReserved, OneReservation, receipt
  <2>5. CASE MarkDoubt(e)
    BY <2>5 DEF MarkDoubt, Transition, OneReservation
  <2>6. CASE FailBeforeSending(e)
    BY <2>6 DEF FailBeforeSending, OneReservation, receipt
  <2>7. CASE AnswerUnavailable(e)
    BY <2>7 DEF AnswerUnavailable, OneReservation, receipt
  <2>8. CASE ReconnectBeforeSending(e)
    BY <2>8 DEF ReconnectBeforeSending, OneReservation, receipt
  <2>9. CASE TimeOutBeforeSending(e)
    BY <2>9 DEF TimeOutBeforeSending, OneReservation, receipt
  <2>10. CASE Send(e)
    BY <2>10 DEF Send, OneReservation, receipt
  <2>11. CASE ReturnResult(e)
    BY <2>11 DEF ReturnResult, OneReservation, receipt
  <2>12. CASE ReturnRefusal(e)
    BY <2>12 DEF ReturnRefusal, OneReservation, receipt
  <2>13. CASE TimeOut(e)
    BY <2>13 DEF TimeOut, OneReservation, receipt
  <2>14. CASE FailAfterSending(e)
    BY <2>14 DEF FailAfterSending, OneReservation, receipt
  <2>15. CASE Abandon(e)
    BY <2>15 DEF Abandon, OneReservation, receipt
  <2>16. CASE Record(e)
    BY <2>16 DEF Record, Transition, TypeOK, Outcome, OneReservation
  <2> QED
    BY <1>1, <2>1, <2>2, <2>3, <2>4, <2>5, <2>6, <2>7, <2>8, <2>9, <2>10, <2>11, <2>12,
       <2>13, <2>14, <2>15, <2>16 DEF ExecutionStep
<1>2. ASSUME NEW a \in Attempts, Apply(a) PROVE OneReservation'
  BY <1>2 DEF Apply, OneReservation, policy, receipt
<1>3. ASSUME NEW a \in Attempts, TurnDown(a) PROVE OneReservation'
  BY <1>3 DEF TurnDown, OneReservation, policy, receipt
<1>4. CASE UNCHANGED vars
  BY <1>4 DEF vars, OneReservation, receipt
<1> QED BY <1>1, <1>2, <1>3, <1>4 DEF Next

(* Nobody but the execution that reserved the row joins those that act. *)
LEMMA FreshStep ==
    ASSUME TypeOK, OneReservation, OnlyTheFreshActs, [Next]_vars PROVE OnlyTheFreshActs'
<1>1. ASSUME NEW e \in Executions, ExecutionStep(e) PROVE OnlyTheFreshActs'
  <2>1. CASE Reserve(e)
    BY <2>1 DEF Reserve, Invoke, Goes, Sent, OnlyTheFreshActs, policy, tool
  <2>2. CASE ReplayFromRow(e)
    BY <2>2
      DEF ReplayFromRow, Answers, Goes, Acting, Sent, OnlyTheFreshActs, policy, receipt, tool
  <2>3. CASE Rerun(e)
    BY <2>3 DEF Rerun, MayRerun, OnlyTheFreshActs, policy, receipt
  <2>4. CASE FindReserved(e)
    BY <2>4 DEF FindReserved, Goes, Acting, Sent, OnlyTheFreshActs, policy, receipt, tool
  <2>5. CASE MarkDoubt(e)
    BY <2>5
      DEF MarkDoubt, Transition, Answers, Goes, Acting, Sent, OnlyTheFreshActs, policy, tool
  <2>6. CASE FailBeforeSending(e)
    BY <2>6
      DEF FailBeforeSending, Fails, Records, Retries, Goes, TypeOK, Acting, Sent,
          OnlyTheFreshActs, policy, receipt, tool
  <2>7. CASE AnswerUnavailable(e)
    BY <2>7
      DEF AnswerUnavailable, Records, Goes, Acting, Sent, OnlyTheFreshActs, policy, receipt, tool
  <2>8. CASE ReconnectBeforeSending(e)
    BY <2>8
      DEF ReconnectBeforeSending, Retries, Goes, Sent, OnlyTheFreshActs, policy, receipt, tool
  <2>9. CASE TimeOutBeforeSending(e)
    BY <2>9
      DEF TimeOutBeforeSending, Fails, Records, Retries, Goes, TypeOK, Acting, Sent,
          OnlyTheFreshActs, policy, receipt, tool
  <2>10. CASE Send(e)
    BY <2>10 DEF Send, Goes, Attempt, Acting, Sent, OnlyTheFreshActs, policy, receipt
  <2>11. CASE ReturnResult(e)
    BY <2>11
      DEF ReturnResult, Records, Goes, Acting, Sent, OnlyTheFreshActs, policy, receipt, tool
  <2>12. CASE ReturnRefusal(e)
    BY <2>12
      DEF ReturnRefusal, Fails, Records, Retries, Goes, TypeOK, Acting, Sent, OnlyTheFreshActs,
          policy, receipt, tool
  <2>13. CASE TimeOut(e)
    BY <2>13
      DEF TimeOut, Fails, Records, Retries, Goes, TypeOK, Acting, Sent, OnlyTheFreshActs, policy,
          receipt, tool
  <2>14. CASE FailAfterSending(e)
    BY <2>14
      DEF FailAfterSending, Fails, Records, Retries, Goes, TypeOK, Acting, Sent, OnlyTheFreshActs,
          policy, receipt, tool
  <2>15. CASE Abandon(e)
    BY <2>15 DEF Abandon, Goes, Acting, Sent, OnlyTheFreshActs, policy, receipt, tool
  <2>16. CASE Record(e)
    BY <2>16
      DEF Record, Transition, Answers, Goes, Acting, Sent, OnlyTheFreshActs, policy, tool
  <2> QED
    BY <1>1, <2>1, <2>2, <2>3, <2>4, <2>5, <2>6, <2>7, <2>8, <2>9, <2>10, <2>11, <2>12,
       <2>13, <2>14, <2>15, <2>16 DEF ExecutionStep
<1>2. ASSUME NEW a \in Attempts, Apply(a) PROVE OnlyTheFreshActs'
  BY <1>2 DEF Apply, OnlyTheFreshActs, Acting, Sent, policy, receipt
<1>3. ASSUME NEW a \in Attempts, TurnDown(a) PROVE OnlyTheFreshActs'
  BY <1>3 DEF TurnDown, OnlyTheFreshActs, Acting, Sent, policy, receipt
<1>4. CASE UNCHANGED vars
  BY <1>4 DEF vars, OnlyTheFreshActs, Acting, Sent, receipt
<1> QED BY <1>1, <1>2, <1>3, <1>4 DEF Next

(* Without retries nothing is sent after the first request that left. *)
LEMMA SentStep ==
    ASSUME TypeOK, SentOnce, [Next]_vars PROVE SentOnce'
<1>1. ASSUME NEW e \in Executions, ExecutionStep(e) PROVE SentOnce'
  <2>1. CASE Reserve(e)
    BY <2>1 DEF Reserve, Invoke, Goes, Sent, SentOnce, policy, tool
  <2>2. CASE ReplayFromRow(e)
    BY <2>2 DEF ReplayFromRow, Answers, Goes, Sent, SentOnce, policy, tool
  <2>3. CASE Rerun(e)
    BY <2>3 DEF Rerun, Invoke, Goes, Sent, SentOnce, policy, tool
  <2>4. CASE FindReserved(e)
    BY <2>4 DEF FindReserved, Goes, Sent, SentOnce, policy, tool
  <2>5. CASE MarkDoubt(e)
    BY <2>5 DEF MarkDoubt, Answers, Goes, Sent, SentOnce, policy, tool
  <2>6. CASE FailBeforeSending(e)
    BY <2>6
      DEF FailBeforeSending, Fails, Records, Retries, Goes, TypeOK, Attempts, Sent, SentOnce,
          policy, tool
  <2>7. CASE AnswerUnavailable(e)
    BY <2>7 DEF AnswerUnavailable, Records, Goes, Sent, SentOnce, policy, tool
  <2>8. CASE ReconnectBeforeSending(e)
    BY <2>8 DEF ReconnectBeforeSending, Retries, Goes, Sent, SentOnce, tool
  <2>9. CASE TimeOutBeforeSending(e)
    BY <2>9
      DEF TimeOutBeforeSending, Fails, Records, Retries, Goes, TypeOK, Attempts, Sent, SentOnce,
          policy, tool
  <2>10. CASE Send(e)
    BY <2>10 DEF Send, Goes, Attempt, TypeOK, Sent, SentOnce, policy
  <2>11. CASE ReturnResult(e)
    BY <2>11 DEF ReturnResult, Records, Goes, Sent, SentOnce, policy, tool
  <2>12. CASE ReturnRefusal(e)
    BY <2>12
      DEF ReturnRefusal, Fails, Records, MayRetry, Goes, TypeOK, Attempts, Sent, SentOnce, policy,
          tool
  <2>13. CASE TimeOut(e)
    BY <2>13
      DEF TimeOut, Fails, Records, MayRetry, Goes, TypeOK, Attempts, Sent, SentOnce, policy, tool
  <2>14. CASE FailAfterSending(e)
    BY <2>14
      DEF FailAfterSending, Fails, Records, MayRetry, Goes, TypeOK, Attempts, Sent, SentOnce,
          policy, tool
  <2>15. CASE Abandon(e)
    BY <2>15 DEF Abandon, Goes, Sent, SentOnce, policy, tool
  <2>16. CASE Record(e)
    BY <2>16 DEF Record, Answers, Goes, Sent, SentOnce, policy, tool
  <2> QED
    BY <1>1, <2>1, <2>2, <2>3, <2>4, <2>5, <2>6, <2>7, <2>8, <2>9, <2>10, <2>11, <2>12,
       <2>13, <2>14, <2>15, <2>16 DEF ExecutionStep
<1>2. ASSUME NEW a \in Attempts, Apply(a) PROVE SentOnce'
  BY <1>2 DEF Apply, SentOnce, Sent, TypeOK, Attempts, policy, receipt
<1>3. ASSUME NEW a \in Attempts, TurnDown(a) PROVE SentOnce'
  BY <1>3 DEF TurnDown, SentOnce, Sent, TypeOK, Attempts, policy, receipt
<1>4. CASE UNCHANGED vars
  BY <1>4 DEF vars, SentOnce, Sent, TypeOK, Attempts, receipt
<1> QED BY <1>1, <1>2, <1>3, <1>4 DEF Next

(* The row completes only when the acting execution has ended. *)
LEMMA QuietStep ==
    ASSUME TypeOK, OneReservation, OnlyTheFreshActs, CompletedIsQuiet, [Next]_vars
    PROVE  CompletedIsQuiet'
<1>1. ASSUME NEW e \in Executions, ExecutionStep(e) PROVE CompletedIsQuiet'
  <2>1. CASE Reserve(e)
    BY <2>1 DEF Reserve, CompletedIsQuiet
  <2>2. CASE ReplayFromRow(e)
    BY <2>2 DEF ReplayFromRow, Answers, Goes, Acting, CompletedIsQuiet, policy, receipt
  <2>3. CASE Rerun(e)
    BY <2>3 DEF Rerun, MayRerun, CompletedIsQuiet, receipt
  <2>4. CASE FindReserved(e)
    BY <2>4 DEF FindReserved, CompletedIsQuiet, receipt
  <2>5. CASE MarkDoubt(e)
    BY <2>5 DEF MarkDoubt, Transition, Answers, Goes, Acting, CompletedIsQuiet, policy
  <2>6. CASE FailBeforeSending(e)
    BY <2>6 DEF FailBeforeSending, Acting, CompletedIsQuiet, policy, receipt
  <2>7. CASE AnswerUnavailable(e)
    BY <2>7 DEF AnswerUnavailable, Acting, CompletedIsQuiet, policy, receipt
  <2>8. CASE ReconnectBeforeSending(e)
    BY <2>8 DEF ReconnectBeforeSending, Acting, CompletedIsQuiet, policy, receipt
  <2>9. CASE TimeOutBeforeSending(e)
    BY <2>9 DEF TimeOutBeforeSending, Acting, CompletedIsQuiet, policy, receipt
  <2>10. CASE Send(e)
    BY <2>10 DEF Send, Acting, CompletedIsQuiet, policy, receipt
  <2>11. CASE ReturnResult(e)
    BY <2>11 DEF ReturnResult, Acting, CompletedIsQuiet, policy, receipt
  <2>12. CASE ReturnRefusal(e)
    BY <2>12 DEF ReturnRefusal, Acting, CompletedIsQuiet, policy, receipt
  <2>13. CASE TimeOut(e)
    BY <2>13 DEF TimeOut, Acting, CompletedIsQuiet, policy, receipt
  <2>14. CASE FailAfterSending(e)
    BY <2>14 DEF FailAfterSending, Acting, CompletedIsQuiet, policy, receipt
  <2>15. CASE Abandon(e)
    BY <2>15 DEF Abandon, Goes, Acting, CompletedIsQuiet, policy, receipt
  <2>16. CASE Record(e)
    BY <2>16
      DEF Record, Transition, Answers, Goes, TypeOK, Acting, OneReservation, OnlyTheFreshActs,
          CompletedIsQuiet, policy
  <2> QED
    BY <1>1, <2>1, <2>2, <2>3, <2>4, <2>5, <2>6, <2>7, <2>8, <2>9, <2>10, <2>11, <2>12,
       <2>13, <2>14, <2>15, <2>16 DEF ExecutionStep
<1>2. ASSUME NEW a \in Attempts, Apply(a) PROVE CompletedIsQuiet'
  BY <1>2 DEF Apply, CompletedIsQuiet, Acting, policy, receipt
<1>3. ASSUME NEW a \in Attempts, TurnDown(a) PROVE CompletedIsQuiet'
  BY <1>3 DEF TurnDown, CompletedIsQuiet, Acting, policy, receipt
<1>4. CASE UNCHANGED vars
  BY <1>4 DEF vars, CompletedIsQuiet, Acting, receipt
<1> QED BY <1>1, <1>2, <1>3, <1>4 DEF Next

(* Every step of an execution or of the tool preserves the invariant. *)
LEMMA IInvStep == IInv /\ [Next]_vars => IInv'
BY TypeStep, NumberStep, ReservationStep, FreshStep, SentStep, QuietStep DEF IInv

(* ... so it always holds. *)
LEMMA IInvAlways == Spec => []IInv
BY InitIInv, IInvStep, PTL DEF Spec

(* The receipt, the executions and the tool keep their types.                *)
THEOREM TypeCorrect == Spec => []TypeOK
<1>1. IInv => TypeOK
  BY DEF IInv
<1> QED BY <1>1, IInvAlways, PTL

(* Among any number of overlapping executions of a call without provider     *)
(* deduplication, one reaches the tool, unless the row reads failed.         *)
THEOREM OneActs == Spec => []OneExecutionActs
<1>1. IInv => OneExecutionActs
  BY DEF IInv, OneReservation, OnlyTheFreshActs, OneExecutionActs
<1> QED BY <1>1, IInvAlways, PTL

(* ... and it does so once where the policy allows no retry, whatever the    *)
(* attempt limit: the pre-send reconnect sends nothing twice.                *)
THEOREM EffectAtMostOnce == Spec => []AtMostOnceUnlessFailed
<1>1. IInv => AtMostOnceUnlessFailed
  <2> SUFFICES ASSUME IInv, ~idempotent, ~retriable, status # "failed",
                      NEW a \in Sent, NEW b \in Sent
               PROVE  a = b
    BY DEF AtMostOnceUnlessFailed
  <2>1. a \in Attempts /\ b \in Attempts
    BY DEF IInv, TypeOK, Sent
  <2>2. a[1] = b[1]
    BY DEF IInv, OneReservation, OnlyTheFreshActs
  <2>3. a[2] = b[2]
    BY <2>2 DEF IInv, SentOnce
  <2> QED BY <2>1, <2>2, <2>3 DEF Attempts
<1> QED BY <1>1, IInvAlways, PTL

(* Once a result is recorded, no step of any execution sends to the tool or  *)
(* denies the result.                                                        *)
THEOREM CompletedEnds == Spec => CompletedIsFinal
<1>1. ASSUME IInv, [Next]_vars, ~idempotent, status = "completed"
      PROVE  /\ pending' \subseteq pending
             /\ \A e \in Executions : answer'[e] = "error" => answer[e] = "error"
  <2> USE <1>1 DEF IInv, CompletedIsQuiet, Acting, TypeOK
  <2>1. ASSUME NEW e \in Executions, ExecutionStep(e)
        PROVE  /\ pending' \subseteq pending
               /\ \A x \in Executions : answer'[x] = "error" => answer[x] = "error"
    <3>1. ReplayFromRow(e) \/ MarkDoubt(e) \/ Abandon(e)
      BY <2>1 DEF ExecutionStep, Reserve, Rerun, MayRerun, FindReserved, FailBeforeSending,
         AnswerUnavailable, ReconnectBeforeSending, TimeOutBeforeSending, Send, ReturnResult,
         ReturnRefusal, TimeOut, FailAfterSending, Record
    <3> QED BY <3>1 DEF ReplayFromRow, MarkDoubt, Abandon, Answers, AnsweredByTheRow, tool
  <2>2. ASSUME NEW a \in Attempts, Apply(a) \/ TurnDown(a)
        PROVE  pending' \subseteq pending /\ answer' = answer
    BY <2>2 DEF Apply, TurnDown
  <2>3. CASE UNCHANGED vars
    BY <2>3 DEF vars
  <2> QED BY <1>1, <2>1, <2>2, <2>3 DEF Next
<1>2. IInv /\ [Next]_vars =>
        [~idempotent /\ status = "completed" =>
            /\ pending' \subseteq pending
            /\ \A e \in Executions : answer'[e] = "error" => answer[e] = "error"]_vars
  BY <1>1
<1> QED BY <1>2, IInvAlways, PTL DEF Spec, CompletedIsFinal

=============================================================================
