-------------------- MODULE ConversationCompactionProofs ---------------------
(***************************************************************************)
(* Theorems about ConversationCompaction, for any number of runs, messages, *)
(* attempts, edits and notifications.                                       *)
(***************************************************************************)
EXTENDS ConversationCompaction, WellFoundedInduction, TLAPS

-----------------------------------------------------------------------------
(* The newest reply exists. *)

(* A non-empty set of naturals has a smallest member. *)
LEMMA MinimumExists ==
    ASSUME NEW T \in SUBSET Nat, T # {}
    PROVE  \E x \in T : \A y \in T : x <= y
  <1> DEFINE R == {p \in Nat \X Nat : p[1] < p[2]}
  <1>1. IsWellFoundedOn(R, Nat)
    BY NatLessThanWellFounded DEF OpToRel
  <1>2. \A x, y \in Nat : <<y, x>> \in R <=> y < x
    OBVIOUS
  <1> HIDE DEF R
  <1>3. PICK x \in T : \A y \in T : ~ (<<y, x>> \in R)
    BY <1>1, WFMin
  <1>4. ASSUME NEW y \in T PROVE x <= y
    <2>1. x \in Nat /\ y \in Nat
      OBVIOUS
    <2>2. ~ (<<y, x>> \in R)
      BY <1>3
    <2> QED
      BY <1>2, <2>1, <2>2
  <1> QED
    BY <1>4

(* A non-empty set of positions has a largest member. *)
LEMMA MaximumExists ==
    ASSUME NEW n \in Nat, NEW T \in SUBSET (1..n), T # {}
    PROVE  \E x \in T : \A y \in T : y <= x
  <1> DEFINE D == {n - i : i \in T}
  <1>1. \A i \in T : i \in 1..n
    OBVIOUS
  <1>2. D \in SUBSET Nat
    <2> SUFFICES ASSUME NEW i \in T PROVE n - i \in Nat
      OBVIOUS
    <2> QED
      BY <1>1
  <1>3. D # {}
    <2> PICK i \in T : TRUE
      OBVIOUS
    <2>1. n - i \in D
      OBVIOUS
    <2> QED
      BY <2>1
  <1> HIDE DEF D
  <1>4. PICK d \in D : \A e \in D : d <= e
    BY <1>2, <1>3, MinimumExists
  <1>5. PICK x \in T : d = n - x
    BY DEF D
  <1>6. ASSUME NEW y \in T PROVE y <= x
    <2>1. n - y \in D
      BY DEF D
    <2> QED
      BY <2>1, <1>1, <1>4, <1>5
  <1> QED
    BY <1>6

(* NewestReply is the last of the assistant messages. *)
LEMMA NewestReplyIsLast ==
    ASSUME messages \in Seq(Message), Replies # {}
    PROVE  /\ NewestReply \in Replies
           /\ NewestReply \in 1..Len(messages)
           /\ \A j \in Replies : j <= NewestReply
  <1>1. Len(messages) \in Nat /\ Replies \in SUBSET (1..Len(messages))
    BY DEF Replies
  <1>2. \E i \in Replies : \A j \in Replies : j <= i
    BY <1>1, MaximumExists
  <1> QED
    BY <1>1, <1>2 DEF NewestReply

-----------------------------------------------------------------------------
(* What each operation makes of the job row. *)

JobRow(j) == j \in Job /\ (j.lease # None <=> j.status = "processing")

(* What Larger returns: one of its arguments, and no less than either. *)
LEMMA LargerFacts ==
    ASSUME NEW a \in Nat, NEW b \in Nat
    PROVE  Larger(a, b) \in Nat /\ a <= Larger(a, b) /\ b <= Larger(a, b)
           /\ (Larger(a, b) = a \/ Larger(a, b) = b)
  BY DEF Larger

(* The row before the first enqueue. *)
LEMMA NoJobRow ==
    JobRow(NoJob) /\ NoJob.attempts = 0 /\ NoJob.status = "none" /\ NoJob.target = 0
    /\ NoJob.lease = None
  BY DEF JobRow, NoJob, Job, Statuses

(* The row an enqueue inserts or reopens. *)
LEMMA FreshRow ==
    ASSUME NEW t \in Nat
    PROVE  /\ JobRow(FreshJob(t))
           /\ FreshJob(t).status = "pending" /\ FreshJob(t).target = t
           /\ FreshJob(t).attempts = 0 /\ FreshJob(t).lease = None
  <1>1. NoJob \in Job /\ NoJob.lease = None /\ NoJob.attempts = 0
    BY NoJobRow DEF JobRow
  <1> HIDE DEF NoJob
  <1>2. /\ FreshJob(t) \in Job
        /\ FreshJob(t).status = "pending" /\ FreshJob(t).target = t
        /\ FreshJob(t).attempts = 0 /\ FreshJob(t).lease = None
    BY <1>1 DEF FreshJob, Job, Statuses
  <1> QED
    BY <1>2 DEF JobRow

(* The row of a job whose target an enqueue raises. *)
LEMMA RaisedRow ==
    ASSUME JobRow(job), NEW t \in Nat
    PROVE  LET j == [job EXCEPT !.target = Larger(job.target, t)]
           IN  /\ JobRow(j) /\ j.target = Larger(job.target, t)
               /\ j.status = job.status /\ j.attempts = job.attempts /\ j.lease = job.lease
  <1>1. Larger(job.target, t) \in Nat
    BY LargerFacts DEF JobRow, Job
  <1> QED
    BY <1>1 DEF JobRow, Job

(* A new reply leaves a job's attempts as they are, unless it was idle. *)
LEMMA NewWorkRow ==
    ASSUME JobRow(job), NEW t \in Nat
    PROVE  /\ JobRow(NewWork(t))
           /\ NewWork(t).target \in {job.target, t}
           /\ NewWork(t).status # "idle"
           /\ \/ /\ job.status \in {"none", "idle"}
                 /\ NewWork(t).status = "pending" /\ NewWork(t).attempts = 0
              \/ /\ NewWork(t).status = job.status /\ NewWork(t).attempts = job.attempts
                 /\ job.status # "none"
  <1>0. job.target \in Nat
    BY DEF JobRow, Job
  <1>1. Larger(job.target, t) \in Nat /\ Larger(job.target, t) \in {job.target, t}
    BY <1>0, LargerFacts
  <1>2. CASE job.status = "none"
    BY <1>2, FreshRow DEF NewWork
  <1>3. CASE job.status = "dead"
    BY <1>3 DEF NewWork
  <1>4. CASE job.status = "idle"
    BY <1>1, <1>4, FreshRow DEF NewWork
  <1>5. CASE job.status \notin {"none", "dead", "idle"}
    BY <1>1, <1>5, RaisedRow DEF NewWork
  <1> QED
    BY <1>2, <1>3, <1>4, <1>5

(* A rebuild clears the attempts of a job that no live lease protects. *)
LEMMA ReopenedRow ==
    ASSUME JobRow(job), NEW t \in Nat
    PROVE  /\ JobRow(Reopened(t))
           /\ Reopened(t).target \in {job.target, t}
           /\ Reopened(t).status # "idle"
           /\ IsLeased => Reopened(t).status = job.status /\ Reopened(t).attempts = job.attempts
           /\ ~IsLeased => Reopened(t).status = "pending" /\ Reopened(t).attempts = 0
  <1>0. job.target \in Nat
    BY DEF JobRow, Job
  <1>1. Larger(job.target, t) \in Nat /\ Larger(job.target, t) \in {job.target, t}
    BY <1>0, LargerFacts
  <1>2. CASE IsLeased
    <2>1. job.status # "idle"
      BY <1>2 DEF IsLeased
    <2> QED
      BY <1>1, <1>2, <2>1, RaisedRow DEF Reopened
  <1>3. CASE ~IsLeased
    BY <1>1, <1>3, FreshRow DEF Reopened
  <1> QED
    BY <1>2, <1>3

(* The row a claim leaves: processing, with its attempts and its target. *)
LEMMA ClaimedRow ==
    ASSUME JobRow(job), NEW w \in Workers, claims \in Nat, Claim(w)
    PROVE  /\ JobRow(job') /\ job'.status = "processing" /\ job'.attempts = job.attempts
           /\ job'.target = job.target
           /\ claims' = claims + 1 /\ claims' \in Nat
  <1>1. job' = [job EXCEPT !.status = "processing", !.lease = w, !.expired = FALSE]
        /\ claims' = claims + 1
    BY DEF Claim
  <1>2. /\ job' \in Job /\ job'.status = "processing" /\ job'.attempts = job.attempts
        /\ job'.target = job.target /\ job'.lease = w
    BY <1>1 DEF JobRow, Job, Statuses
  <1> QED
    BY <1>1, <1>2, NoneAssumption DEF JobRow

(* A completed claim clears the attempts, and leaves the job idle only when  *)
(* nothing beyond the claim was requested.                                  *)
LEMMA CompletedRow ==
    ASSUME JobRow(job), NEW w \in Workers, workers[w].target \in Nat, claims \in Nat,
           handled \in Nat, CompleteClaim(w)
    PROVE  /\ JobRow(job') /\ claims' \in Nat /\ handled' \in Nat
           /\ job'.target = job.target /\ handled <= handled'
           /\ \/ UNCHANGED <<job, claims, handled>>
              \/ /\ claims' = 0 /\ job'.attempts = 0 /\ job'.status \in {"idle", "pending"}
                 /\ workers[w].target <= handled'
                 /\ job'.status = "idle" => job.target <= workers[w].target
  <1>1. CASE HoldsLease(w)
    <2> DEFINE s == IF job.target <= workers[w].target THEN "idle" ELSE "pending"
    <2>0. s \in {"idle", "pending"} /\ (s = "idle" => job.target <= workers[w].target)
      OBVIOUS
    <2>1. job' = [job EXCEPT !.status = s, !.attempts = 0, !.lease = None, !.due = TRUE]
      BY <1>1 DEF CompleteClaim
    <2>2. claims' = 0 /\ handled' = Larger(handled, workers[w].target)
      BY <1>1 DEF CompleteClaim
    <2> HIDE DEF s
    <2>3. /\ job' \in Job /\ job'.status = s /\ job'.attempts = 0
          /\ job'.target = job.target /\ job'.lease = None
      BY <2>0, <2>1 DEF JobRow, Job, Statuses
    <2>4. /\ handled' \in Nat /\ handled <= handled' /\ workers[w].target <= handled'
      BY <2>2, LargerFacts
    <2> QED
      BY <2>0, <2>2, <2>3, <2>4 DEF JobRow
  <1>2. CASE ~HoldsLease(w)
    BY <1>2 DEF CompleteClaim
  <1> QED
    BY <1>1, <1>2

(* A failed claim is an attempt, and the last one is the end. *)
LEMMA FailedRow ==
    ASSUME JobRow(job), NEW w \in Workers, NEW permanent \in BOOLEAN, FailClaim(w, permanent)
    PROVE  /\ JobRow(job') /\ job'.target = job.target
           /\ \/ UNCHANGED job
              \/ /\ job.status = "processing" /\ job'.attempts = job.attempts + 1
                 /\ \/ job'.status = "dead"
                    \/ job'.status = "retry" /\ ~(job.attempts + 1 >= MaxAttempts)
  <1>1. CASE HoldsLease(w)
    <2> DEFINE s == IF permanent \/ job.attempts + 1 >= MaxAttempts THEN "dead" ELSE "retry"
    <2>0. s \in {"dead", "retry"} /\ (s = "retry" => ~(job.attempts + 1 >= MaxAttempts))
      OBVIOUS
    <2> DEFINE n == job.attempts + 1
    <2>a. n \in Nat
      BY DEF JobRow, Job
    <2>1. job' = [job EXCEPT !.status = s, !.attempts = n, !.lease = None, !.due = permanent]
      BY <1>1 DEF FailClaim
    <2>2. job.status = "processing"
      BY <1>1 DEF HoldsLease, IsLeased
    <2> HIDE DEF s, n
    <2>3. /\ job' \in Job /\ job'.status = s /\ job'.attempts = n
          /\ job'.target = job.target /\ job'.lease = None
      BY <2>0, <2>a, <2>1 DEF JobRow, Job, Statuses
    <2> QED
      BY <2>0, <2>2, <2>3 DEF JobRow, n
  <1>2. CASE ~HoldsLease(w)
    BY <1>2 DEF FailClaim
  <1> QED
    BY <1>1, <1>2

(* The sweep counts an expired lease as an attempt. *)
LEMMA RecoveredRow ==
    ASSUME JobRow(job)
    PROVE  /\ JobRow(Recovered) /\ Recovered.target = job.target
           /\ \/ Recovered = job
              \/ /\ job.status = "processing" /\ Recovered.attempts = job.attempts + 1
                 /\ \/ Recovered.status = "dead"
                    \/ Recovered.status = "retry" /\ ~(job.attempts + 1 >= ReconcileAttempts)
  <1>1. CASE job.status = "processing" /\ job.expired
    <2> DEFINE s == IF job.attempts + 1 >= ReconcileAttempts THEN "dead" ELSE "retry"
    <2>0. s \in {"dead", "retry"} /\ (s = "retry" => ~(job.attempts + 1 >= ReconcileAttempts))
      OBVIOUS
    <2> DEFINE n == job.attempts + 1
    <2>a. n \in Nat
      BY DEF JobRow, Job
    <2>1. Recovered = [job EXCEPT !.status = s, !.attempts = n, !.lease = None,
                                  !.expired = FALSE, !.due = TRUE]
      BY <1>1 DEF Recovered
    <2> HIDE DEF s, n
    <2>3. /\ Recovered \in Job /\ Recovered.status = s /\ Recovered.attempts = n
          /\ Recovered.target = job.target /\ Recovered.lease = None
      BY <2>0, <2>a, <2>1 DEF JobRow, Job, Statuses
    <2> QED
      BY <1>1, <2>0, <2>3 DEF JobRow, n
  <1>2. CASE ~(job.status = "processing" /\ job.expired)
    BY <1>2 DEF Recovered
  <1> QED
    BY <1>1, <1>2

(* The row a reconciliation sweep leaves. *)
LEMMA ReconciledRow ==
    ASSUME JobRow(job), NEW accepted \in BOOLEAN, Reconcile(accepted)
    PROVE  /\ JobRow(job') /\ job'.target = job.target /\ job'.status # "idle"
           /\ job'.status = Recovered.status /\ job'.attempts = Recovered.attempts
  <1> DEFINE isDue == Recovered.status \in {"pending", "retry"} /\ Recovered.due
  <1>1. /\ isDue \/ Recovered # job
        /\ job' = IF isDue THEN [Recovered EXCEPT !.due = FALSE] ELSE Recovered
    BY DEF Reconcile
  <1>2. Recovered.status # "idle"
    BY <1>1, RecoveredRow
  <1>3. JobRow(Recovered) /\ Recovered.target = job.target
    BY RecoveredRow
  <1> HIDE DEF isDue
  <1>4. CASE isDue
    <2>1. job' = [Recovered EXCEPT !.due = FALSE]
      BY <1>1, <1>4
    <2> QED
      BY <1>2, <1>3, <2>1 DEF JobRow, Job
  <1>5. CASE ~isDue
    BY <1>1, <1>2, <1>3, <1>5
  <1> QED
    BY <1>4, <1>5

-----------------------------------------------------------------------------
(* What each operation makes of a run. *)

(* An idle worker holds a well-typed run. *)
LEMMA FreeRunType ==
    /\ FreeRun \in Run
    /\ FreeRun.pc = "free" /\ FreeRun.target = 0
  BY DEF FreeRun, Run

(* The run a claim starts. *)
LEMMA ClaimRun ==
    ASSUME workers \in [Workers -> Run], JobRow(job), NEW w \in Workers, Claim(w)
    PROVE  /\ workers' \in [Workers -> Run]
           /\ workers'[w].pc = "claimed" /\ workers'[w].target = job.target
           /\ \A v \in Workers \ {w} : workers'[v] = workers[v]
  <1> DEFINE r == [FreeRun EXCEPT !.pc = "claimed", !.target = job.target]
  <1>1. job.target \in Nat
    BY DEF JobRow, Job
  <1>2. r \in Run /\ r.pc = "claimed" /\ r.target = job.target
    BY <1>1, FreeRunType DEF Run
  <1> HIDE DEF r
  <1>3. workers' = [workers EXCEPT ![w] = r]
    BY DEF Claim, r
  <1> QED
    BY <1>2, <1>3

(* The run of a worker that leaves its job. *)
LEMMA LeaveRun ==
    ASSUME workers \in [Workers -> Run], NEW w \in Workers, Leave(w)
    PROVE  /\ workers' \in [Workers -> Run]
           /\ workers'[w].pc = "free" /\ workers'[w].target = 0
           /\ \A v \in Workers \ {w} : workers'[v] = workers[v]
  BY FreeRunType DEF Leave

(* The run of a worker on its way to completing or rescheduling. *)
LEMMA SettlingRun ==
    ASSUME workers \in [Workers -> Run], NEW w \in Workers, NEW pc \in {"written", "conflict"},
           Settling(w, pc)
    PROVE  /\ workers' \in [Workers -> Run]
           /\ workers'[w].pc = pc /\ workers'[w].target = workers[w].target
           /\ \A v \in Workers \ {w} : workers'[v] = workers[v]
  <1> DEFINE r == [FreeRun EXCEPT !.pc = pc, !.target = workers[w].target]
  <1>1. workers[w].target \in Nat
    BY DEF Run
  <1>2. r \in Run /\ r.pc = pc /\ r.target = workers[w].target
    BY <1>1, FreeRunType DEF Run
  <1> HIDE DEF r
  <1>3. workers' = [workers EXCEPT ![w] = r]
    BY DEF Settling, r
  <1> QED
    BY <1>2, <1>3

(* The run holds the memory it loaded. *)
LEMMA LoadMemoryRun ==
    ASSUME workers \in [Workers -> Run], memory \in Memory, NEW w \in Workers, LoadMemory(w),
           HoldsLease(w)
    PROVE  /\ workers' \in [Workers -> Run]
           /\ workers'[w].pc = "based" /\ workers'[w].target = workers[w].target
           /\ workers'[w].version = memory.version /\ workers'[w].cursor = memory.cursor
           /\ workers'[w].covers = memory.covers
           /\ \A v \in Workers \ {w} : workers'[v] = workers[v]
  <1> DEFINE r == [workers[w] EXCEPT !.pc = "based", !.version = memory.version,
                                    !.cursor = memory.cursor, !.covers = memory.covers]
  <1>1. workers[w] \in Run
    OBVIOUS
  <1>2. /\ memory.version \in Nat /\ memory.cursor \in Nat
        /\ memory.covers \in SUBSET (Nat \X Nat)
    BY DEF Memory
  <1>3. /\ r \in Run /\ r.pc = "based" /\ r.target = workers[w].target
        /\ r.version = memory.version /\ r.cursor = memory.cursor /\ r.covers = memory.covers
    BY <1>1, <1>2 DEF Run
  <1>4. workers' = [workers EXCEPT ![w] = r]
    BY <1>1 DEF LoadMemory
  <1> HIDE DEF r
  <1> QED
    BY <1>3, <1>4

(* A window holds positions after the cursor and up to the target. *)
LEMMA WindowType ==
    ASSUME messages \in Seq(Message), NEW target \in Nat, NEW cursor \in Nat
    PROVE  /\ Window(target, cursor) \in SUBSET (Nat \X Nat)
           /\ \A e \in Window(target, cursor) :
                  e[1] \in DOMAIN messages /\ cursor < e[1] /\ e[1] <= target
  <1>1. ASSUME NEW e \in Window(target, cursor)
        PROVE  e \in Nat \X Nat /\ e[1] \in DOMAIN messages /\ cursor < e[1] /\ e[1] <= target
    <2>1. PICK i \in DOMAIN messages : /\ cursor < i /\ i <= target
                                       /\ e = <<i, messages[i].text>>
      BY DEF Window
    <2>2. i \in Nat /\ messages[i] \in Message
      OBVIOUS
    <2>3. messages[i].text \in Nat
      BY <2>2 DEF Message
    <2> QED
      BY <2>1, <2>2, <2>3
  <1> QED
    BY <1>1

(* The run holds the window it loaded. *)
LEMMA LoadMessagesRun ==
    ASSUME workers \in [Workers -> Run], messages \in Seq(Message), NEW w \in Workers,
           LoadMessages(w)
    PROVE  /\ workers' \in [Workers -> Run]
           /\ workers'[w].pc = "loaded" /\ workers'[w].target = workers[w].target
           /\ workers'[w].version = workers[w].version /\ workers'[w].cursor = workers[w].cursor
           /\ workers'[w].covers = workers[w].covers
           /\ workers'[w].window = Window(workers[w].target, workers[w].cursor)
           /\ \A v \in Workers \ {w} : workers'[v] = workers[v]
  <1> DEFINE window == Window(workers[w].target, workers[w].cursor)
             r == [workers[w] EXCEPT !.pc = "loaded", !.window = window]
  <1>1. workers[w] \in Run
    OBVIOUS
  <1>2. window \in SUBSET (Nat \X Nat)
    BY <1>1, WindowType DEF Run
  <1> HIDE DEF window
  <1>3. /\ r \in Run /\ r.pc = "loaded" /\ r.target = workers[w].target
        /\ r.version = workers[w].version /\ r.cursor = workers[w].cursor
        /\ r.covers = workers[w].covers /\ r.window = window
    BY <1>1, <1>2 DEF Run
  <1>4. workers' = [workers EXCEPT ![w] = r]
    BY <1>1 DEF LoadMessages, window
  <1> HIDE DEF r
  <1> QED
    BY <1>3, <1>4 DEF window

(* The run covers what it covered and the window up to its cut. *)
LEMMA SummariseRun ==
    ASSUME workers \in [Workers -> Run], NEW w \in Workers, Summarise(w)
    PROVE  \E c \in Cuts(workers[w].window) :
              /\ workers' \in [Workers -> Run]
              /\ workers'[w].pc = "summed" /\ workers'[w].target = workers[w].target
              /\ workers'[w].version = workers[w].version
              /\ workers'[w].cursor = workers[w].cursor /\ workers'[w].cut = c
              /\ workers'[w].covers
                   = workers[w].covers \union {e \in workers[w].window : e[1] <= c}
              /\ \E e \in workers[w].window : e[1] = c
              /\ \A v \in Workers \ {w} : workers'[v] = workers[v]
  <1>1. workers[w] \in Run
    OBVIOUS
  <1>2. PICK c \in Cuts(workers[w].window) :
           workers' = [workers EXCEPT ![w].pc = "summed", ![w].cut = c, ![w].window = {},
                         ![w].covers = @ \union {e \in workers[w].window : e[1] <= c}]
    BY DEF Summarise
  <1>3. PICK e \in workers[w].window : e[1] = c
    BY DEF Cuts
  <1>4. c \in Nat
    BY <1>1, <1>3 DEF Run
  <1> DEFINE covers == workers[w].covers \union {f \in workers[w].window : f[1] <= c}
             r == [workers[w] EXCEPT !.pc = "summed", !.cut = c, !.window = {}, !.covers = covers]
  <1>5. covers \in SUBSET (Nat \X Nat)
    BY <1>1 DEF Run
  <1>6. workers' = [workers EXCEPT ![w] = r]
    BY <1>1, <1>2
  <1> HIDE DEF covers
  <1>7. /\ r \in Run /\ r.pc = "summed" /\ r.target = workers[w].target /\ r.cut = c
        /\ r.version = workers[w].version /\ r.cursor = workers[w].cursor /\ r.covers = covers
    BY <1>1, <1>4, <1>5 DEF Run
  <1> HIDE DEF r
  <1>8. /\ workers' \in [Workers -> Run] /\ workers'[w] = r
        /\ \A v \in Workers \ {w} : workers'[v] = workers[v]
    BY <1>6, <1>7
  <1> QED
    BY <1>3, <1>7, <1>8 DEF covers

-----------------------------------------------------------------------------
(* Type correctness. *)

(* The initial state is well typed. *)
LEMMA TypeInit == Init => TypeOK
  <1> SUFFICES ASSUME Init PROVE TypeOK
    OBVIOUS
  <1>1. messages \in Seq(Message)
    BY DEF Init
  <1>2. job \in Job /\ (job.lease # None <=> job.status = "processing")
    BY NoJobRow DEF Init, JobRow
  <1>3. memory \in Memory
    BY DEF Init, Memory, NoMemory
  <1>4. workers \in [Workers -> Run]
    BY FreeRunType DEF Init
  <1> QED
    BY <1>1, <1>2, <1>3, <1>4 DEF Init, TypeOK

(* Publishing a hint keeps the count of hints a number. *)
LEMMA PublishType ==
    ASSUME hints \in Nat, Publish
    PROVE  hints' \in Nat
  BY BoundsAssumption DEF Publish

(* What an enqueue may do to the row and its claims. *)
LEMMA RequestRow ==
    ASSUME TypeOK, NEW t \in Nat, RequestBackfill(t)
    PROVE  /\ JobRow(job') /\ claims' \in Nat /\ hints' \in Nat
           /\ job'.target \in {job.target, t}
           /\ \/ UNCHANGED <<job, claims>>
              \/ UNCHANGED claims /\ job'.status = job.status /\ job'.attempts = job.attempts
                 /\ job'.status # "idle"
              \/ claims' = 0 /\ job'.status = "pending" /\ job'.attempts = 0
  <1>0. JobRow(job) /\ claims \in Nat /\ hints \in Nat
    BY DEF TypeOK, JobRow
  <1>1. CASE UNCHANGED <<job, hints, claims>>
    BY <1>0, <1>1
  <1>2. CASE /\ job' = Reopened(t)
             /\ claims' = (IF IsLeased THEN claims ELSE 0)
             /\ Publish
    <2>1. hints' \in Nat
      BY <1>0, <1>2, PublishType
    <2> QED
      BY <1>0, <1>2, <2>1, ReopenedRow
  <1> QED
    BY <1>1, <1>2 DEF RequestBackfill

(* Editing and deleting a message changes neither its role nor the others, *)
(* and never brings it back.                                               *)
LEMMA MutatedMessages ==
    ASSUME TypeOK, NEW i \in DOMAIN messages, Edit(i) \/ Delete(i)
    PROVE  \E m \in Message :
              /\ Mutate(i, m)
              /\ m.role = messages[i].role
              /\ messages' = [messages EXCEPT ![i] = m]
              /\ messages' \in Seq(Message) /\ Len(messages') = Len(messages)
              /\ messages[i].live
  <1>0. messages \in Seq(Message) /\ messages[i] \in Message
    BY DEF TypeOK
  <1>1. PICK m \in Message : Mutate(i, m) /\ m.role = messages[i].role
    <2>1. CASE Edit(i)
      <3> DEFINE m == [messages[i] EXCEPT !.text = @ + 1]
      <3>1. m \in Message /\ m.role = messages[i].role
        BY <1>0 DEF Message
      <3>2. Mutate(i, m)
        BY <2>1 DEF Edit
      <3> HIDE DEF m
      <3> QED
        BY <3>1, <3>2
    <2>2. CASE Delete(i)
      <3> DEFINE m == [messages[i] EXCEPT !.live = FALSE]
      <3>1. m \in Message /\ m.role = messages[i].role
        BY <1>0 DEF Message
      <3>2. Mutate(i, m)
        BY <2>2 DEF Delete
      <3> HIDE DEF m
      <3> QED
        BY <3>1, <3>2
    <2> QED
      BY <2>1, <2>2
  <1>2. messages' = [messages EXCEPT ![i] = m] /\ messages[i].live
    BY <1>1 DEF Mutate
  <1>3. messages' \in Seq(Message) /\ Len(messages') = Len(messages)
    BY <1>0, <1>2
  <1> QED
    BY <1>1, <1>2, <1>3

(* Editing or deleting a message makes no new reply. *)
LEMMA RepliesOfMutated ==
    ASSUME TypeOK, NEW i \in DOMAIN messages, Edit(i) \/ Delete(i)
    PROVE  Replies' \subseteq Replies
  <1>1. PICK m \in Message : /\ m.role = messages[i].role
                             /\ messages' = [messages EXCEPT ![i] = m]
                             /\ messages[i].live
    BY MutatedMessages
  <1>2. messages \in Seq(Message)
    BY DEF TypeOK
  <1>3. ASSUME NEW j \in Replies' PROVE j \in Replies
    BY <1>1, <1>2, <1>3 DEF Replies
  <1> QED
    BY <1>3

(* What an edit or a deletion does to the job, the memory and the history. *)
LEMMA MutateRow ==
    ASSUME TypeOK, NEW i \in DOMAIN messages, Edit(i) \/ Delete(i)
    PROVE  /\ JobRow(job') /\ claims' \in Nat /\ handled' \in Nat /\ memory' \in Memory
           /\ raced' \subseteq Nat /\ mutations' \in Nat
           /\ \/ UNCHANGED <<job, claims>>
              \/ /\ claims' = 0 /\ job'.status = "pending" /\ job'.attempts = 0
                 /\ job'.target \in Nat
                 /\ job'.target <= Len(messages) \/ job'.target = job.target
           /\ handled' = handled \/ job'.status = "pending" \/ Replies' = {}
           /\ IsCovered(i) => /\ ~memory'.valid /\ memory'.version = memory.version + 1
                              /\ memory'.cursor = 0 /\ memory'.covers = {}
           /\ ~IsCovered(i) => /\ UNCHANGED memory
                               /\ raced \subseteq raced'
                               /\ IsRead(i) => i \in raced'
  <1>0. /\ JobRow(job) /\ claims \in Nat /\ handled \in Nat /\ memory \in Memory
        /\ raced \subseteq Nat /\ mutations \in Nat /\ i \in Nat /\ messages \in Seq(Message)
    BY DEF TypeOK, JobRow
  <1>1. PICK m \in Message : /\ Mutate(i, m) /\ messages' \in Seq(Message)
                             /\ Len(messages') = Len(messages)
    BY MutatedMessages
  <1>2. mutations' \in Nat
    BY <1>0, <1>1 DEF Mutate
  <1>3. CASE IsCovered(i)
    <2> DEFINE n == memory.version + 1
    <2>a. n \in Nat
      BY <1>0 DEF Memory
    <2>1. memory' = [memory EXCEPT !.valid = FALSE, !.version = n, !.cursor = 0, !.covers = {}]
      BY <1>1, <1>3 DEF Mutate
    <2>2. handled' = 0 /\ raced' = {}
      BY <1>1, <1>3 DEF Mutate
    <2>b. {} \in SUBSET (Nat \X Nat)
      OBVIOUS
    <2> HIDE DEF n
    <2>c. /\ memory' \in Memory /\ memory'.valid = FALSE /\ memory'.version = n
          /\ memory'.cursor = 0 /\ memory'.covers = {}
      BY <1>0, <2>a, <2>b, <2>1 DEF Memory
    <2>3. /\ memory' \in Memory /\ ~memory'.valid /\ memory'.version = memory.version + 1
          /\ memory'.cursor = 0 /\ memory'.covers = {}
      BY <2>c DEF n
    <2>4. CASE Replies' = {}
      <3>1. UNCHANGED <<job, claims>>
        BY <1>1, <1>3, <2>4 DEF Mutate
      <3> QED
        BY <1>0, <1>2, <1>3, <2>2, <2>3, <2>4, <3>1
    <2>5. CASE Replies' # {}
      <3>1. job' = FreshJob(Larger(job.target, NewestReply')) /\ claims' = 0
        BY <1>1, <1>3, <2>5 DEF Mutate
      <3>2. NewestReply' \in 1..Len(messages')
        <4>1. Len(messages') \in Nat /\ Replies' \in SUBSET (1..Len(messages'))
          BY <1>1 DEF Replies
        <4>2. \E k \in Replies' : \A j \in Replies' : j <= k
          BY <2>5, <4>1, MaximumExists
        <4> QED
          BY <4>1, <4>2 DEF NewestReply
      <3>a. NewestReply' \in Nat /\ job.target \in Nat
        BY <1>0, <1>1, <3>2 DEF JobRow, Job
      <3>3. /\ Larger(job.target, NewestReply') \in Nat
            /\ Larger(job.target, NewestReply') \in {job.target, NewestReply'}
        BY <3>a, LargerFacts
      <3>4. /\ JobRow(job') /\ job'.status = "pending" /\ job'.attempts = 0
            /\ job'.target = Larger(job.target, NewestReply')
        BY <3>1, <3>3, FreshRow
      <3> QED
        BY <1>0, <1>1, <1>2, <1>3, <2>2, <2>3, <3>1, <3>2, <3>3, <3>4
    <2> QED
      BY <2>4, <2>5
  <1>4. CASE ~IsCovered(i)
    <2>1. UNCHANGED <<job, memory, claims, handled>>
      BY <1>1, <1>4 DEF Mutate
    <2>2. raced' = IF IsRead(i) THEN raced \union {i} ELSE raced
      BY <1>1, <1>4 DEF Mutate
    <2> QED
      BY <1>0, <1>2, <1>4, <2>1, <2>2
  <1> QED
    BY <1>3, <1>4

(* Persisting appends one message and keeps the others. *)
LEMMA PersistMessages ==
    ASSUME TypeOK, NEW role \in Roles, NEW text \in Nat, Persist(role, text)
    PROVE  /\ messages' \in Seq(Message) /\ Len(messages') = Len(messages) + 1
           /\ \A i \in 1..Len(messages) : messages'[i] = messages[i]
           /\ messages'[Len(messages) + 1].role = role
  <1> DEFINE m == [role |-> role, text |-> text, live |-> TRUE]
  <1>1. m \in Message /\ m.role = role
    BY DEF Message
  <1>2. messages' = Append(messages, m) /\ messages \in Seq(Message)
    BY DEF Persist, TypeOK
  <1> HIDE DEF m
  <1> QED
    BY <1>1, <1>2

(* What a write of memory is. *)
LEMMA WriteMemory ==
    ASSUME TypeOK, NEW w \in Workers, Write(w)
    PROVE  /\ memory' \in Memory
           /\ \/ UNCHANGED memory /\ Settling(w, "conflict")
              \/ /\ MayWrite(w) /\ Settling(w, "written")
                 /\ memory'.valid /\ memory'.version = memory.version + 1
                 /\ memory'.cursor = workers[w].cut /\ memory'.covers = workers[w].covers
  <1>0. memory \in Memory /\ workers[w] \in Run
    BY DEF TypeOK
  <1>1. CASE MayWrite(w)
    <2> DEFINE n == memory.version + 1
    <2>1. memory' = [valid |-> TRUE, version |-> n, cursor |-> workers[w].cut,
                     covers |-> workers[w].covers]
      BY <1>1 DEF Write
    <2>2. /\ n \in Nat /\ workers[w].cut \in Nat /\ workers[w].covers \in SUBSET (Nat \X Nat)
      BY <1>0 DEF Memory, Run
    <2>3. Settling(w, "written")
      BY <1>1 DEF Write
    <2> HIDE DEF n
    <2>4. /\ memory'.valid = TRUE /\ memory'.version = n
          /\ memory'.cursor = workers[w].cut /\ memory'.covers = workers[w].covers
      BY <2>1
    <2>5. memory' \in Memory
      BY <2>1, <2>2 DEF Memory
    <2> QED
      BY <1>1, <2>3, <2>4, <2>5 DEF n
  <1>2. CASE ~MayWrite(w)
    BY <1>0, <1>2 DEF Write
  <1> QED
    BY <1>1, <1>2

(* Every step keeps the types. *)
LEMMA TypeNext == TypeOK /\ [Next]_vars => TypeOK'
  <1> SUFFICES ASSUME TypeOK, [Next]_vars PROVE TypeOK'
    OBVIOUS
  <1>0. /\ messages \in Seq(Message) /\ JobRow(job) /\ memory \in Memory
        /\ workers \in [Workers -> Run] /\ hints \in Nat /\ sweep \in Nat /\ mutations \in Nat
        /\ claims \in Nat /\ handled \in Nat /\ raced \subseteq Nat
    BY DEF TypeOK, JobRow
  <1>1. ASSUME NEW role \in Roles, NEW text \in Nat, Persist(role, text) PROVE TypeOK'
    <2>1. messages' \in Seq(Message)
      BY <1>1, PersistMessages
    <2>2. Len(messages) + 1 \in Nat
      BY <1>0
    <2>3. JobRow(job') /\ hints' \in Nat
      <3>1. CASE role = "assistant"
        <4>1. job' = NewWork(Len(messages) + 1) /\ Publish
          BY <1>1, <3>1 DEF Persist
        <4> QED
          BY <1>0, <2>2, <4>1, NewWorkRow, PublishType
      <3>2. CASE role # "assistant"
        <4>1. UNCHANGED <<job, hints>>
          BY <1>1, <3>2 DEF Persist
        <4> QED
          BY <1>0, <4>1
      <3> QED
        BY <3>1, <3>2
    <2>4. UNCHANGED <<memory, workers, sweep, mutations, claims, handled, raced>>
      BY <1>1 DEF Persist
    <2> QED
      BY <1>0, <2>1, <2>3, <2>4 DEF TypeOK, JobRow
  <1>2. ASSUME NEW i \in DOMAIN messages, Edit(i) \/ Delete(i) PROVE TypeOK'
    <2>1. messages' \in Seq(Message)
      BY <1>2, MutatedMessages
    <2>2. UNCHANGED <<workers, hints, sweep>>
      BY <1>2 DEF Edit, Delete, Mutate
    <2>3. /\ JobRow(job') /\ claims' \in Nat /\ handled' \in Nat /\ memory' \in Memory
          /\ raced' \subseteq Nat /\ mutations' \in Nat
      BY <1>2, MutateRow
    <2> QED
      BY <1>0, <2>1, <2>2, <2>3 DEF TypeOK, JobRow
  <1>3. CASE ListBackfill
    <2>1. sweep' = NewestReply /\ Replies # {}
      BY <1>3 DEF ListBackfill
    <2>2. sweep' \in Nat
      BY <1>0, <2>1, NewestReplyIsLast
    <2>3. UNCHANGED <<messages, job, memory, workers, hints, mutations, claims, handled, raced>>
      BY <1>3 DEF ListBackfill
    <2> QED
      BY <1>0, <2>2, <2>3 DEF TypeOK, JobRow
  <1>4. CASE SweepBackfill
    <2>1. RequestBackfill(sweep) /\ sweep' = 0
      BY <1>4 DEF SweepBackfill
    <2>2. JobRow(job') /\ claims' \in Nat /\ hints' \in Nat
      BY <1>0, <2>1, RequestRow
    <2>3. UNCHANGED <<messages, memory, workers, mutations, handled, raced>>
      BY <1>4 DEF SweepBackfill
    <2> QED
      BY <1>0, <2>1, <2>2, <2>3 DEF TypeOK, JobRow
  <1>5. CASE RequestDurable
    <2>1. RequestBackfill(NewestReply) /\ Replies # {}
      BY <1>5 DEF RequestDurable
    <2>2. NewestReply \in Nat
      BY <1>0, <2>1, NewestReplyIsLast
    <2>3. JobRow(job') /\ claims' \in Nat /\ hints' \in Nat
      BY <2>1, <2>2, RequestRow
    <2>4. UNCHANGED <<messages, memory, workers, sweep, mutations, handled, raced>>
      BY <1>5 DEF RequestDurable
    <2> QED
      BY <1>0, <2>3, <2>4 DEF TypeOK, JobRow
  <1>6. ASSUME NEW w \in Workers, Deliver(w) \/ CompactNow(w) PROVE TypeOK'
    <2>1. UNCHANGED <<messages, memory, sweep, mutations, handled, raced>>
      BY <1>6 DEF Deliver, CompactNow
    <2>2. hints' \in Nat
      BY <1>0, <1>6 DEF Deliver, CompactNow
    <2>3. Claim(w) \/ UNCHANGED <<job, workers, claims>>
      BY <1>6 DEF Deliver, CompactNow
    <2>4. CASE Claim(w)
      <3>1. workers' \in [Workers -> Run]
        BY <1>0, <2>4, ClaimRun
      <3>2. JobRow(job') /\ claims' \in Nat
        BY <1>0, <2>4, ClaimedRow
      <3> QED
        BY <1>0, <2>1, <2>2, <3>1, <3>2 DEF TypeOK, JobRow
    <2>5. CASE UNCHANGED <<job, workers, claims>>
      BY <1>0, <2>1, <2>2, <2>5 DEF TypeOK, JobRow
    <2> QED
      BY <2>3, <2>4, <2>5
  <1>7. ASSUME NEW w \in Workers, LoadMemory(w) \/ LoadMessages(w) \/ Summarise(w) \/ Crash(w)
        PROVE  TypeOK'
    <2>1. UNCHANGED <<messages, job, memory, hints, sweep, mutations, claims, handled, raced>>
      BY <1>7 DEF LoadMemory, LoadMessages, Summarise, Crash
    <2>2. workers' \in [Workers -> Run]
      <3>1. CASE LoadMemory(w) /\ HoldsLease(w)
        BY <1>0, <3>1, LoadMemoryRun
      <3>2. CASE LoadMemory(w) /\ ~HoldsLease(w)
        <4>1. Leave(w)
          BY <3>2 DEF LoadMemory
        <4> QED
          BY <1>0, <4>1, LeaveRun
      <3>3. CASE LoadMessages(w)
        BY <1>0, <3>3, LoadMessagesRun
      <3>4. CASE Summarise(w)
        BY <1>0, <3>4, SummariseRun
      <3>5. CASE Crash(w)
        <4>1. Leave(w)
          BY <3>5 DEF Crash
        <4> QED
          BY <1>0, <4>1, LeaveRun
      <3> QED
        BY <1>7, <3>1, <3>2, <3>3, <3>4, <3>5
    <2> QED
      BY <1>0, <2>1, <2>2 DEF TypeOK, JobRow
  <1>8. ASSUME NEW w \in Workers, Skip(w) \/ Complete(w) PROVE TypeOK'
    <2>1. UNCHANGED <<messages, memory, hints, sweep, mutations, raced>> /\ CompleteClaim(w)
          /\ Leave(w)
      BY <1>8 DEF Skip, Complete
    <2>2. workers' \in [Workers -> Run]
      BY <1>0, <2>1, LeaveRun
    <2>3. workers[w].target \in Nat
      BY <1>0 DEF Run
    <2>4. JobRow(job') /\ claims' \in Nat /\ handled' \in Nat
      BY <1>0, <2>1, <2>3, CompletedRow
    <2> QED
      BY <1>0, <2>1, <2>2, <2>4 DEF TypeOK, JobRow
  <1>9. ASSUME NEW w \in Workers, Fail(w, TRUE) \/ Fail(w, FALSE) \/ Conflict(w) PROVE TypeOK'
    <2>1. /\ UNCHANGED <<messages, memory, hints, sweep, mutations, claims, handled, raced>>
          /\ Leave(w)
      BY <1>9 DEF Fail, Conflict
    <2>2. workers' \in [Workers -> Run]
      BY <1>0, <2>1, LeaveRun
    <2>3. FailClaim(w, TRUE) \/ FailClaim(w, FALSE)
      BY <1>9 DEF Fail, Conflict
    <2>4. JobRow(job')
      BY <1>0, <2>3, FailedRow
    <2> QED
      BY <1>0, <2>1, <2>2, <2>4 DEF TypeOK, JobRow
  <1>10. ASSUME NEW w \in Workers, Write(w) PROVE TypeOK'
    <2>1. UNCHANGED <<messages, job, hints, sweep, mutations, claims, handled, raced>>
      BY <1>10 DEF Write
    <2>2. memory' \in Memory /\ (Settling(w, "written") \/ Settling(w, "conflict"))
      BY <1>10, WriteMemory
    <2>3. workers' \in [Workers -> Run]
      BY <1>0, <2>2, SettlingRun
    <2> QED
      BY <1>0, <2>1, <2>2, <2>3 DEF TypeOK, JobRow
  <1>11. CASE ExpireLease
    <2>1. JobRow(job')
      BY <1>0, <1>11 DEF ExpireLease, JobRow, Job
    <2>2. UNCHANGED <<messages, memory, workers, hints, sweep, mutations, claims, handled, raced>>
      BY <1>11 DEF ExpireLease
    <2> QED
      BY <1>0, <2>1, <2>2 DEF TypeOK, JobRow
  <1>12. CASE BecomeDue
    <2>1. JobRow(job')
      BY <1>0, <1>12 DEF BecomeDue, JobRow, Job
    <2>2. UNCHANGED <<messages, memory, workers, hints, sweep, mutations, claims, handled, raced>>
      BY <1>12 DEF BecomeDue
    <2> QED
      BY <1>0, <2>1, <2>2 DEF TypeOK, JobRow
  <1>13. ASSUME NEW accepted \in BOOLEAN, Reconcile(accepted) PROVE TypeOK'
    <2>1. JobRow(job')
      BY <1>0, <1>13, ReconciledRow
    <2>2. UNCHANGED <<messages, memory, workers, sweep, mutations, claims, handled, raced>>
      BY <1>13 DEF Reconcile
    <2>3. hints' = hints \/ hints' = hints + 1
      BY <1>13 DEF Reconcile
    <2> QED
      BY <1>0, <2>1, <2>2, <2>3 DEF TypeOK, JobRow
  <1>14. CASE UNCHANGED vars
    BY <1>0, <1>14 DEF TypeOK, JobRow, vars
  <1>15. \A text \in Contents : text \in Nat
    BY ContentsAssumption
  <1> QED
    BY <1>1, <1>2, <1>3, <1>4, <1>5, <1>6, <1>7, <1>8, <1>9, <1>10, <1>11, <1>12, <1>13, <1>14,
       <1>15 DEF Next, RunStep, Roles

(* Every variable of the compaction protocol keeps its type, and the lease  *)
(* is held exactly while the job is processing, for any number of runs,     *)
(* messages, attempts and notifications.                                    *)
THEOREM TypeCorrect == Spec => []TypeOK
  BY TypeInit, TypeNext, PTL DEF Spec

-----------------------------------------------------------------------------
(* The steps of the job, as attempts and claims see them. *)

(* A job's attempts count its claims: all of them but the one that is being *)
(* worked on, and only a dead job has used them up.                         *)
AttemptsCount ==
    /\ claims <= job.attempts + (IF job.status = "processing" THEN 1 ELSE 0)
    /\ job.status \in {"none", "idle"} => job.attempts = 0
    /\ job.status # "dead" => job.attempts < AttemptLimit
    /\ job.attempts <= AttemptLimit

Reopens == claims' = 0 /\ job'.status = "pending" /\ job'.attempts = 0

Settles == claims' = 0 /\ job'.status \in {"idle", "pending"} /\ job'.attempts = 0

Starts ==
    /\ job.status \in {"none", "idle"} /\ job'.status = "pending" /\ job'.attempts = 0
    /\ UNCHANGED claims

Keeps == UNCHANGED claims /\ job'.status = job.status /\ job'.attempts = job.attempts

Claims ==
    /\ IsClaimable /\ job'.status = "processing" /\ job'.attempts = job.attempts
    /\ claims' = claims + 1

Fails ==
    /\ job.status = "processing" /\ job'.attempts = job.attempts + 1 /\ UNCHANGED claims
    /\ \/ job'.status = "dead"
       \/ /\ job'.status = "retry"
          /\ ~(job.attempts + 1 >= MaxAttempts) \/ ~(job.attempts + 1 >= ReconcileAttempts)

JobStep == Reopens \/ Settles \/ Starts \/ Keeps \/ Claims \/ Fails

(* Every step moves the row and its claims as JobStep says. *)
LEMMA AttemptSteps ==
    ASSUME TypeOK, [Next]_vars
    PROVE  JobStep
  <1>0. /\ messages \in Seq(Message) /\ JobRow(job) /\ workers \in [Workers -> Run]
        /\ sweep \in Nat /\ claims \in Nat /\ handled \in Nat
    BY DEF TypeOK, JobRow
  <1>1. ASSUME NEW role \in Roles, NEW text \in Nat, Persist(role, text) PROVE JobStep
    <2>0. UNCHANGED claims
      BY <1>1 DEF Persist
    <2>1. CASE role = "assistant"
      <3>1. job' = NewWork(Len(messages) + 1)
        BY <1>1, <2>1 DEF Persist
      <3>2. Len(messages) + 1 \in Nat
        BY <1>0
      <3>3. \/ /\ job.status \in {"none", "idle"}
               /\ job'.status = "pending" /\ job'.attempts = 0
            \/ job'.status = job.status /\ job'.attempts = job.attempts
        BY <1>0, <3>1, <3>2, NewWorkRow
      <3> QED
        BY <2>0, <3>3 DEF JobStep, Starts, Keeps
    <2>2. CASE role # "assistant"
      BY <1>1, <2>0, <2>2 DEF Persist, JobStep, Keeps
    <2> QED
      BY <2>1, <2>2
  <1>2. ASSUME NEW i \in DOMAIN messages, Edit(i) \/ Delete(i) PROVE JobStep
    BY <1>2, MutateRow DEF JobStep, Reopens, Keeps
  <1>3. CASE UNCHANGED <<job, claims>>
    BY <1>3 DEF JobStep, Keeps
  <1>4. CASE SweepBackfill \/ RequestDurable
    <2>1. PICK t \in Nat : RequestBackfill(t)
      <3>1. CASE SweepBackfill
        BY <1>0, <3>1 DEF SweepBackfill
      <3>2. CASE RequestDurable
        <4>1. Replies # {} /\ RequestBackfill(NewestReply)
          BY <3>2 DEF RequestDurable
        <4>2. NewestReply \in Nat
          BY <1>0, <4>1, NewestReplyIsLast
        <4> QED
          BY <4>1, <4>2
      <3> QED
        BY <1>4, <3>1, <3>2
    <2> QED
      BY <2>1, RequestRow DEF JobStep, Reopens, Keeps
  <1>5. ASSUME NEW w \in Workers, Deliver(w) \/ CompactNow(w) PROVE JobStep
    <2>1. (IsClaimable /\ Claim(w)) \/ UNCHANGED <<job, claims>>
      BY <1>5 DEF Deliver, CompactNow
    <2>2. CASE IsClaimable /\ Claim(w)
      BY <1>0, <2>2, ClaimedRow DEF JobStep, Claims
    <2> QED
      BY <1>3, <2>1, <2>2
  <1>6. ASSUME NEW w \in Workers, Skip(w) \/ Complete(w) PROVE JobStep
    <2>1. CompleteClaim(w) /\ workers[w].target \in Nat
      BY <1>0, <1>6 DEF Skip, Complete, Run
    <2> QED
      BY <1>0, <1>3, <2>1, CompletedRow DEF JobStep, Settles
  <1>7. ASSUME NEW w \in Workers, Fail(w, TRUE) \/ Fail(w, FALSE) \/ Conflict(w) PROVE JobStep
    <2>1. (FailClaim(w, TRUE) \/ FailClaim(w, FALSE)) /\ UNCHANGED claims
      BY <1>7 DEF Fail, Conflict
    <2> QED
      BY <1>0, <1>3, <2>1, FailedRow DEF JobStep, Fails
  <1>8. ASSUME NEW accepted \in BOOLEAN, Reconcile(accepted) PROVE JobStep
    <2>1. job'.status = Recovered.status /\ job'.attempts = Recovered.attempts
      BY <1>0, <1>8, ReconciledRow
    <2>2. UNCHANGED claims
      BY <1>8 DEF Reconcile
    <2> QED
      BY <1>0, <2>1, <2>2, RecoveredRow DEF JobStep, Fails, Keeps
  <1>9. CASE ExpireLease \/ BecomeDue
    BY <1>0, <1>9 DEF ExpireLease, BecomeDue, JobStep, Keeps, JobRow, Job
  <1>10. ASSUME NEW w \in Workers,
                LoadMemory(w) \/ LoadMessages(w) \/ Summarise(w) \/ Write(w) \/ Crash(w)
         PROVE  JobStep
    <2>1. UNCHANGED <<job, claims>>
      BY <1>10 DEF LoadMemory, LoadMessages, Summarise, Write, Crash
    <2> QED
      BY <1>3, <2>1
  <1>11. CASE ListBackfill \/ UNCHANGED vars
    <2>1. UNCHANGED <<job, claims>>
      BY <1>11 DEF ListBackfill, vars
    <2> QED
      BY <1>3, <2>1
  <1>12. \A text \in Contents : text \in Nat
    BY ContentsAssumption
  <1> QED
    BY <1>1, <1>2, <1>4, <1>5, <1>6, <1>7, <1>8, <1>9, <1>10, <1>11, <1>12
    DEF Next, RunStep, Roles

(* AttemptsCount holds initially. *)
LEMMA AttemptsInit == Init => AttemptsCount
  BY NoJobRow, AttemptsAssumption DEF Init, AttemptsCount, AttemptLimit

(* Every step keeps AttemptsCount. *)
LEMMA AttemptsNext ==
    ASSUME TypeOK, AttemptsCount, [Next]_vars
    PROVE  AttemptsCount'
  <1>0. /\ claims \in Nat /\ job.attempts \in Nat
        /\ MaxAttempts \in Nat \ {0} /\ ReconcileAttempts \in Nat
        /\ AttemptLimit \in Nat \ {0}
        /\ MaxAttempts <= AttemptLimit /\ ReconcileAttempts <= AttemptLimit
    BY AttemptsAssumption DEF TypeOK, Job, AttemptLimit
  <1>1. CASE Reopens
    BY <1>0, <1>1 DEF Reopens, AttemptsCount
  <1>2. CASE Settles
    BY <1>0, <1>2 DEF Settles, AttemptsCount
  <1>3. CASE Starts
    BY <1>0, <1>3 DEF Starts, AttemptsCount
  <1>4. CASE Keeps
    BY <1>0, <1>4 DEF Keeps, AttemptsCount
  <1>5. CASE Claims
    BY <1>0, <1>5 DEF Claims, AttemptsCount, IsClaimable
  <1>6. CASE Fails
    BY <1>0, <1>6 DEF Fails, AttemptsCount
  <1> QED
    BY <1>1, <1>2, <1>3, <1>4, <1>5, <1>6, AttemptSteps DEF JobStep

(* Between two completions or rebuild requests a job is run at most as      *)
(* often as the larger of the setting and the sweep's own limit, whatever   *)
(* fails, loses its lease or is requested.                                  *)
THEOREM AttemptsBounded == Spec => []AttemptsAreBounded
  <1>1. TypeOK /\ AttemptsCount /\ [Next]_vars => (TypeOK /\ AttemptsCount)'
    BY TypeNext, AttemptsNext
  <1>2. TypeOK /\ AttemptsCount => AttemptsAreBounded
    BY AttemptsAssumption DEF TypeOK, Job, AttemptsCount, AttemptsAreBounded, AttemptLimit
  <1> QED
    BY <1>1, <1>2, TypeInit, AttemptsInit, PTL DEF Spec

-----------------------------------------------------------------------------
(* No reply is forgotten. *)

(* NoReplyIsForgotten holds initially. *)
LEMMA ForgottenInit == Init => NoReplyIsForgotten
  BY NoJobRow DEF Init, NoReplyIsForgotten

(* A step that leaves the messages alone and does not make the job idle forgets no reply. *)
LEMMA ForgottenUnchanged ==
    ASSUME NoReplyIsForgotten, UNCHANGED <<messages, handled>>,
           UNCHANGED job \/ job'.status # "idle"
    PROVE  NoReplyIsForgotten'
  BY DEF NoReplyIsForgotten, Replies

(* Every step keeps NoReplyIsForgotten. *)
LEMMA ForgottenNext ==
    ASSUME TypeOK, NoReplyIsForgotten, [Next]_vars
    PROVE  NoReplyIsForgotten'
  <1>0. /\ messages \in Seq(Message) /\ JobRow(job) /\ workers \in [Workers -> Run]
        /\ sweep \in Nat /\ claims \in Nat /\ handled \in Nat
    BY DEF TypeOK, JobRow
  <1>1. ASSUME NEW role \in Roles, NEW text \in Nat, Persist(role, text)
        PROVE  NoReplyIsForgotten'
    <2>1. CASE role = "assistant"
      <3>1. job' = NewWork(Len(messages) + 1)
        BY <1>1, <2>1 DEF Persist
      <3>2. Len(messages) + 1 \in Nat
        BY <1>0
      <3>3. job'.status # "idle"
        BY <1>0, <3>1, <3>2, NewWorkRow
      <3> QED
        BY <3>3 DEF NoReplyIsForgotten
    <2>2. CASE role # "assistant"
      <3>1. UNCHANGED <<job, handled>>
        BY <1>1, <2>2 DEF Persist
      <3>2. Replies' \subseteq Replies
        <4>1. ASSUME NEW i \in Replies' PROVE i \in Replies
          <5>1. i \in 1..Len(messages) + 1 /\ messages'[i].role = "assistant" /\ messages'[i].live
            BY <1>0, <1>1, <4>1, PersistMessages DEF Replies
          <5>2. i \in 1..Len(messages)
            BY <1>0, <1>1, <2>2, <5>1, PersistMessages
          <5>3. messages'[i] = messages[i]
            BY <1>1, <5>2, PersistMessages
          <5> QED
            BY <1>0, <5>1, <5>2, <5>3 DEF Replies
        <4> QED
          BY <4>1
      <3> QED
        BY <3>1, <3>2 DEF NoReplyIsForgotten
    <2> QED
      BY <2>1, <2>2
  <1>2. ASSUME NEW i \in DOMAIN messages, Edit(i) \/ Delete(i) PROVE NoReplyIsForgotten'
    <2>1. Replies' \subseteq Replies
      BY <1>2, RepliesOfMutated
    <2>2. /\ UNCHANGED job \/ job'.status = "pending"
          /\ handled' = handled \/ job'.status = "pending" \/ Replies' = {}
      BY <1>2, MutateRow
    <2> QED
      BY <2>1, <2>2 DEF NoReplyIsForgotten
  <1>3. CASE SweepBackfill \/ RequestDurable
    <2>1. PICK t \in Nat : RequestBackfill(t)
      <3>1. CASE SweepBackfill
        BY <1>0, <3>1 DEF SweepBackfill
      <3>2. CASE RequestDurable
        <4>1. Replies # {} /\ RequestBackfill(NewestReply)
          BY <3>2 DEF RequestDurable
        <4>2. NewestReply \in Nat
          BY <1>0, <4>1, NewestReplyIsLast
        <4> QED
          BY <4>1, <4>2
      <3> QED
        BY <1>3, <3>1, <3>2
    <2>2. UNCHANGED job \/ job'.status # "idle"
      BY <2>1, RequestRow
    <2>3. UNCHANGED <<messages, handled>>
      BY <1>3 DEF SweepBackfill, RequestDurable
    <2> QED
      BY <2>2, <2>3, ForgottenUnchanged
  <1>4. ASSUME NEW w \in Workers, Deliver(w) \/ CompactNow(w) PROVE NoReplyIsForgotten'
    <2>1. Claim(w) \/ UNCHANGED job
      BY <1>4 DEF Deliver, CompactNow
    <2>2. UNCHANGED job \/ job'.status # "idle"
      BY <1>0, <2>1, ClaimedRow
    <2>3. UNCHANGED <<messages, handled>>
      BY <1>4 DEF Deliver, CompactNow
    <2> QED
      BY <2>2, <2>3, ForgottenUnchanged
  <1>5. ASSUME NEW w \in Workers, Skip(w) \/ Complete(w) PROVE NoReplyIsForgotten'
    <2>1. CompleteClaim(w) /\ workers[w].target \in Nat /\ UNCHANGED messages
      BY <1>0, <1>5 DEF Skip, Complete, Run
    <2>2. CASE UNCHANGED <<job, claims, handled>>
      BY <2>1, <2>2, ForgottenUnchanged
    <2>3. CASE job'.status # "idle"
      BY <2>3 DEF NoReplyIsForgotten
    <2>4. CASE /\ workers[w].target <= handled' /\ job.target <= workers[w].target
               /\ job'.target = job.target
      <3>1. job.target \in Nat /\ handled' \in Nat
        BY <1>0, <2>1, CompletedRow DEF JobRow, Job
      <3>2. ASSUME NEW i \in Replies' PROVE i <= handled' \/ job'.target < i
        <4>1. i \in Nat
          BY <1>0, <2>1, <3>2 DEF Replies
        <4> QED
          BY <2>1, <2>4, <3>1, <4>1
      <3> QED
        BY <3>2 DEF NoReplyIsForgotten
    <2> QED
      BY <1>0, <2>1, <2>2, <2>3, <2>4, CompletedRow
  <1>6. ASSUME NEW w \in Workers, Fail(w, TRUE) \/ Fail(w, FALSE) \/ Conflict(w)
        PROVE  NoReplyIsForgotten'
    <2>1. /\ FailClaim(w, TRUE) \/ FailClaim(w, FALSE)
          /\ UNCHANGED <<messages, handled>>
      BY <1>6 DEF Fail, Conflict
    <2>2. UNCHANGED job \/ job'.status # "idle"
      BY <1>0, <2>1, FailedRow
    <2> QED
      BY <2>1, <2>2, ForgottenUnchanged
  <1>7. ASSUME NEW accepted \in BOOLEAN, Reconcile(accepted) PROVE NoReplyIsForgotten'
    <2>1. job'.status # "idle"
      BY <1>0, <1>7, ReconciledRow
    <2> QED
      BY <2>1 DEF NoReplyIsForgotten
  <1>8. CASE ExpireLease \/ BecomeDue
    <2>1. job'.status # "idle" /\ UNCHANGED <<messages, handled>>
      BY <1>0, <1>8 DEF ExpireLease, BecomeDue, IsLeased, IsClaimable, JobRow, Job
    <2> QED
      BY <2>1, ForgottenUnchanged
  <1>9. ASSUME NEW w \in Workers,
               LoadMemory(w) \/ LoadMessages(w) \/ Summarise(w) \/ Write(w) \/ Crash(w)
        PROVE  NoReplyIsForgotten'
    <2>1. UNCHANGED <<job, messages, handled>>
      BY <1>9 DEF LoadMemory, LoadMessages, Summarise, Write, Crash
    <2> QED
      BY <2>1, ForgottenUnchanged
  <1>10. CASE ListBackfill \/ UNCHANGED vars
    <2>1. UNCHANGED <<job, messages, handled>>
      BY <1>10 DEF ListBackfill, vars
    <2> QED
      BY <2>1, ForgottenUnchanged
  <1>11. \A text \in Contents : text \in Nat
    BY ContentsAssumption
  <1> QED
    BY <1>1, <1>2, <1>3, <1>4, <1>5, <1>6, <1>7, <1>8, <1>9, <1>10, <1>11
    DEF Next, RunStep, Roles

(* When a job is idle, every live reply lies within a target completed      *)
(* since the last invalidation or beyond the job's own target, for any      *)
(* number of runs and replies and any order of completions, requests and    *)
(* edits.                                                                   *)
THEOREM NoneForgotten == Spec => []NoReplyIsForgotten
  <1>1. TypeOK /\ NoReplyIsForgotten /\ [Next]_vars => (TypeOK /\ NoReplyIsForgotten)'
    BY TypeNext, ForgottenNext
  <1> QED
    BY <1>1, TypeInit, ForgottenInit, PTL DEF Spec

-----------------------------------------------------------------------------
(* Nobody is asked to summarise past the end of the transcript. *)

TargetsExist ==
    /\ job.target <= Len(messages)
    /\ sweep <= Len(messages)
    /\ \A w \in Workers : workers[w].target <= Len(messages)

(* TargetsExist holds initially. *)
LEMMA TargetsInit == Init => TargetsExist
  BY NoJobRow, FreeRunType DEF Init, TargetsExist

(* Every step keeps TargetsExist. *)
LEMMA TargetsNext ==
    ASSUME TypeOK, TargetsExist, [Next]_vars
    PROVE  TargetsExist'
  <1>0. /\ messages \in Seq(Message) /\ JobRow(job) /\ workers \in [Workers -> Run]
        /\ sweep \in Nat /\ claims \in Nat /\ handled \in Nat /\ memory \in Memory
        /\ Len(messages) \in Nat /\ job.target \in Nat
        /\ \A w \in Workers : workers[w].target \in Nat
    BY DEF TypeOK, JobRow, Job, Run
  <1>1. ASSUME NEW role \in Roles, NEW text \in Nat, Persist(role, text)
        PROVE  TargetsExist'
    <2>1. Len(messages') = Len(messages) + 1
      BY <1>1, PersistMessages
    <2>2. UNCHANGED <<workers, sweep>>
      BY <1>1 DEF Persist
    <2>3. job' = job \/ job' = NewWork(Len(messages) + 1)
      BY <1>1 DEF Persist
    <2>4. job'.target = job.target \/ job'.target = Len(messages) + 1
      <3>1. Len(messages) + 1 \in Nat
        BY <1>0
      <3> QED
        BY <1>0, <2>3, <3>1, NewWorkRow
    <2> QED
      BY <1>0, <2>1, <2>2, <2>4 DEF TargetsExist
  <1>2. ASSUME NEW i \in DOMAIN messages, Edit(i) \/ Delete(i) PROVE TargetsExist'
    <2>1. Len(messages') = Len(messages)
      BY <1>2, MutatedMessages
    <2>2. UNCHANGED <<workers, sweep>>
      BY <1>2 DEF Edit, Delete, Mutate
    <2>3. UNCHANGED job \/ job'.target <= Len(messages) \/ job'.target = job.target
      BY <1>2, MutateRow
    <2> QED
      BY <2>1, <2>2, <2>3 DEF TargetsExist
  <1>3. CASE ListBackfill
    <2>1. sweep' = NewestReply /\ Replies # {} /\ UNCHANGED <<messages, job, workers>>
      BY <1>3 DEF ListBackfill
    <2>2. sweep' <= Len(messages)
      BY <1>0, <2>1, NewestReplyIsLast
    <2> QED
      BY <2>1, <2>2 DEF TargetsExist
  <1>4. CASE SweepBackfill \/ RequestDurable
    <2>1. PICK t \in Nat : RequestBackfill(t) /\ t <= Len(messages)
      <3>1. CASE SweepBackfill
        BY <1>0, <3>1 DEF SweepBackfill, TargetsExist
      <3>2. CASE RequestDurable
        <4>1. Replies # {} /\ RequestBackfill(NewestReply)
          BY <3>2 DEF RequestDurable
        <4>2. NewestReply \in Nat /\ NewestReply <= Len(messages)
          BY <1>0, <4>1, NewestReplyIsLast
        <4> QED
          BY <4>1, <4>2
      <3> QED
        BY <1>4, <3>1, <3>2
    <2>2. job'.target \in {job.target, t}
      BY <2>1, RequestRow
    <2>3. UNCHANGED <<messages, workers>> /\ sweep' \in {0, sweep}
      BY <1>4 DEF SweepBackfill, RequestDurable
    <2> QED
      BY <1>0, <2>1, <2>2, <2>3 DEF TargetsExist
  <1>5. ASSUME NEW w \in Workers, Deliver(w) \/ CompactNow(w) PROVE TargetsExist'
    <2>1. UNCHANGED <<messages, sweep>> /\ (Claim(w) \/ UNCHANGED <<job, workers>>)
      BY <1>5 DEF Deliver, CompactNow
    <2>2. CASE UNCHANGED <<job, workers>>
      BY <2>1, <2>2 DEF TargetsExist
    <2>3. CASE Claim(w)
      <3>1. job'.target = job.target
        BY <1>0, <2>3, ClaimedRow
      <3>2. workers'[w].target = job.target /\ \A v \in Workers \ {w} : workers'[v] = workers[v]
        BY <1>0, <2>3, ClaimRun
      <3> QED
        BY <2>1, <3>1, <3>2 DEF TargetsExist
    <2> QED
      BY <2>1, <2>2, <2>3
  <1>6. ASSUME NEW w \in Workers, RunStep(w) \/ Crash(w) PROVE TargetsExist'
    <2>1. UNCHANGED <<messages, sweep>>
      BY <1>6 DEF RunStep, LoadMemory, LoadMessages, Summarise, Skip, Fail, Write, Complete,
                  Conflict, Crash
    <2>2. job'.target = job.target
      <3>1. CASE Skip(w) \/ Complete(w)
        <4>1. CompleteClaim(w)
          BY <3>1 DEF Skip, Complete
        <4> QED
          BY <1>0, <4>1, CompletedRow
      <3>2. CASE Fail(w, TRUE) \/ Fail(w, FALSE) \/ Conflict(w)
        <4>1. FailClaim(w, TRUE) \/ FailClaim(w, FALSE)
          BY <3>2 DEF Fail, Conflict
        <4> QED
          BY <1>0, <4>1, FailedRow
      <3>3. CASE LoadMemory(w) \/ LoadMessages(w) \/ Summarise(w) \/ Write(w) \/ Crash(w)
        BY <3>3 DEF LoadMemory, LoadMessages, Summarise, Write, Crash
      <3> QED
        BY <1>6, <3>1, <3>2, <3>3 DEF RunStep
    <2>3. /\ workers'[w].target \in {0, workers[w].target}
          /\ \A v \in Workers \ {w} : workers'[v] = workers[v]
      <3>1. CASE Leave(w)
        BY <1>0, <3>1, LeaveRun
      <3>2. CASE LoadMemory(w) /\ HoldsLease(w)
        BY <1>0, <3>2, LoadMemoryRun
      <3>3. CASE LoadMessages(w)
        BY <1>0, <3>3, LoadMessagesRun
      <3>4. CASE Summarise(w)
        BY <1>0, <3>4, SummariseRun
      <3>5. CASE Write(w)
        <4>1. Settling(w, "written") \/ Settling(w, "conflict")
          BY <3>5, WriteMemory
        <4> QED
          BY <1>0, <4>1, SettlingRun
      <3>6. \/ Leave(w)
            \/ LoadMemory(w) /\ HoldsLease(w)
            \/ LoadMessages(w) \/ Summarise(w) \/ Write(w)
        BY <1>6 DEF RunStep, LoadMemory, Skip, Fail, Complete, Conflict, Crash
      <3> QED
        BY <3>1, <3>2, <3>3, <3>4, <3>5, <3>6
    <2> QED
      BY <1>0, <2>1, <2>2, <2>3 DEF TargetsExist
  <1>7. ASSUME NEW accepted \in BOOLEAN, Reconcile(accepted) PROVE TargetsExist'
    <2>1. job'.target = job.target
      BY <1>0, <1>7, ReconciledRow
    <2>2. UNCHANGED <<messages, sweep, workers>>
      BY <1>7 DEF Reconcile
    <2> QED
      BY <2>1, <2>2 DEF TargetsExist
  <1>8. CASE ExpireLease \/ BecomeDue
    <2>1. job'.target = job.target /\ UNCHANGED <<messages, sweep, workers>>
      BY <1>0, <1>8 DEF ExpireLease, BecomeDue, JobRow, Job
    <2> QED
      BY <2>1 DEF TargetsExist
  <1>9. CASE UNCHANGED vars
    BY <1>9 DEF vars, TargetsExist
  <1>10. \A text \in Contents : text \in Nat
    BY ContentsAssumption
  <1> QED
    BY <1>1, <1>2, <1>3, <1>4, <1>5, <1>6, <1>7, <1>8, <1>9, <1>10 DEF Next, Roles

-----------------------------------------------------------------------------
(* Memory says what the transcript says. *)

(* What the set S of pairs holds of message i is what message m shows. *)
Says(S, m, i) ==
    {e \in S : e[1] = i} = IF m.live /\ ~IsHidden(m) THEN {<<i, m.text>>} ELSE {}

MemorySound ==
    /\ ~memory.valid => memory.cursor = 0 /\ memory.covers = {}
    /\ memory.cursor <= Len(messages)
    /\ \A e \in memory.covers : e[1] <= memory.cursor

(* A run whose base is still the memory row extends it faithfully, but for  *)
(* the messages changed since it read them. The version alone tells whether *)
(* the base is still the row: every change of the row takes a new one.      *)
RunSound(r, m, transcript, excused) ==
    r.pc \in {"based", "loaded", "summed"} =>
        /\ r.version <= m.version
        /\ r.pc = "loaded" => \A e \in r.window : r.cursor < e[1] /\ e[1] <= r.target
        /\ r.pc = "summed" => r.cursor < r.cut /\ r.cut <= r.target
        /\ r.version = m.version =>
              /\ r.cursor = m.cursor
              /\ r.pc # "summed" => r.covers = m.covers
              /\ r.pc = "loaded" =>
                    \A i \in 1..r.target :
                        r.cursor < i => i \in excused \/ Says(r.window, transcript[i], i)
              /\ r.pc = "summed" =>
                    /\ \A e \in r.covers : e[1] <= r.cut
                    /\ \A i \in 1..r.cut : i \in excused \/ Says(r.covers, transcript[i], i)

RunsSound == \A w \in Workers : RunSound(workers[w], memory, messages, raced)

MemoryInv == TypeOK /\ TargetsExist /\ MemorySound /\ RunsSound /\ MemoryMatchesUnraced

(* IsFaithful in terms of Says, which takes its state as parameters. *)
LEMMA FaithfulSays == \A i : IsFaithful(i) <=> Says(memory.covers, messages[i], i)
  BY DEF IsFaithful, Says, IsShown

(* MemoryInv holds initially. *)
LEMMA MemoryInit == Init => MemoryInv
  <1> SUFFICES ASSUME Init PROVE MemoryInv
    OBVIOUS
  <1>1. MemorySound /\ MemoryMatchesUnraced
    BY DEF Init, NoMemory, MemorySound, MemoryMatchesUnraced
  <1>2. RunsSound
    BY FreeRunType DEF Init, RunsSound, RunSound
  <1> QED
    BY <1>1, <1>2, TypeInit, TargetsInit DEF MemoryInv

(* A new version of the row makes the base of every run out of date. *)
LEMMA OutdatedRun ==
    ASSUME NEW r \in Run, NEW m \in Memory, NEW n \in Memory, m.version < n.version,
           NEW t, NEW u, NEW x, NEW y, RunSound(r, m, t, x)
    PROVE  RunSound(r, n, u, y)
  <1>1. r.version \in Nat /\ m.version \in Nat /\ n.version \in Nat
    BY DEF Run, Memory
  <1>2. CASE r.pc \in {"based", "loaded", "summed"}
    <2>1. r.version < n.version
      BY <1>1, <1>2 DEF RunSound
    <2>2. r.version <= n.version /\ r.version # n.version
      BY <1>1, <2>1
    <2> QED
      BY <1>2, <2>2 DEF RunSound
  <1>3. CASE r.pc \notin {"based", "loaded", "summed"}
    BY <1>3 DEF RunSound
  <1> QED
    BY <1>2, <1>3

(* A run is not disturbed by changes outside what it read, or to excused    *)
(* messages.                                                                *)
LEMMA UndisturbedRun ==
    ASSUME NEW r \in Run, NEW m \in Memory, NEW t, NEW u, NEW x, NEW y, x \subseteq y,
           \A i \in 1..r.target :
               r.pc \in {"loaded", "summed"} => i \in y \/ t[i] = u[i],
           RunSound(r, m, t, x)
    PROVE  RunSound(r, m, u, y)
  <1>1. r.cut \in Nat /\ r.target \in Nat
    BY DEF Run
  <1>2. CASE r.pc = "based"
    BY <1>2 DEF RunSound
  <1>3. CASE r.pc = "loaded"
    BY <1>1, <1>3 DEF RunSound
  <1>4. CASE r.pc = "summed"
    <2>1. ASSUME r.version = m.version, NEW i \in 1..r.cut
          PROVE  i \in y \/ Says(r.covers, u[i], i)
      <3>1. i \in 1..r.target
        BY <1>1, <1>4 DEF RunSound
      <3>2. i \in x \/ Says(r.covers, t[i], i)
        BY <1>4, <2>1 DEF RunSound
      <3> QED
        BY <1>4, <3>1, <3>2
    <2> QED
      BY <1>4, <2>1 DEF RunSound
  <1>5. CASE r.pc \notin {"based", "loaded", "summed"}
    BY <1>5 DEF RunSound
  <1> QED
    BY <1>2, <1>3, <1>4, <1>5

(* Memory is as it was if neither it nor what it covers changes. *)
LEMMA UndisturbedMemory ==
    ASSUME MemoryInv, UNCHANGED memory, raced \subseteq raced',
           \A i \in 1..memory.cursor : memory.valid => messages'[i] = messages[i]
    PROVE  MemoryMatchesUnraced'
  <1> SUFFICES ASSUME memory.valid, NEW i \in 1..memory.cursor
               PROVE  i \in raced' \/ IsFaithful(i)'
    BY DEF MemoryMatchesUnraced
  <1>1. i \in raced \/ Says(memory.covers, messages[i], i)
    BY FaithfulSays DEF MemoryInv, MemoryMatchesUnraced
  <1>2. IsFaithful(i)' <=> Says(memory'.covers, messages'[i], i)
    BY DEF IsFaithful, Says, IsShown
  <1> QED
    BY <1>1, <1>2

(* What a run has just read is what the transcript shows. *)
LEMMA WindowSays ==
    ASSUME messages \in Seq(Message), NEW target \in Nat, NEW cursor \in Nat,
           target <= Len(messages), NEW i \in 1..target, cursor < i
    PROVE  Says(Window(target, cursor), messages[i], i)
  <1>1. i \in DOMAIN messages
    OBVIOUS
  <1>2. \A e \in Window(target, cursor) : e[1] = i => e = <<i, messages[i].text>> /\ IsShown(i)
    BY DEF Window
  <1>3. IsShown(i) => <<i, messages[i].text>> \in Window(target, cursor)
    BY <1>1 DEF Window
  <1> QED
    BY <1>2, <1>3 DEF Says, IsShown

(* A summary keeps what its base holds, and adds what was read after it. *)
LEMMA SummarySays ==
    ASSUME NEW base \in SUBSET (Nat \X Nat), NEW window \in SUBSET (Nat \X Nat),
           NEW cursor \in Nat, NEW c \in Nat, NEW m, NEW i \in 1..c,
           NEW S, S = base \union {e \in window : e[1] <= c},
           \A e \in base : e[1] <= cursor,
           \A e \in window : cursor < e[1],
           i <= cursor => Says(base, m, i),
           cursor < i => Says(window, m, i)
    PROVE  Says(S, m, i)
  <1>1. CASE i <= cursor
    <2>1. {e \in S : e[1] = i} = {e \in base : e[1] = i}
      BY <1>1
    <2> QED
      BY <1>1, <2>1 DEF Says
  <1>2. CASE cursor < i
    <2>1. {e \in S : e[1] = i} = {e \in window : e[1] = i}
      BY <1>2
    <2> QED
      BY <1>2, <2>1 DEF Says
  <1> QED
    BY <1>1, <1>2

(* A step of one run that leaves it sound, and the memory alone, keeps MemoryInv. *)
LEMMA RunsUndisturbed ==
    ASSUME MemoryInv, UNCHANGED <<messages, memory, raced>>, NEW w \in Workers,
           RunSound(workers'[w], memory, messages, raced),
           \A v \in Workers \ {w} : workers'[v] = workers[v]
    PROVE  RunsSound' /\ MemorySound' /\ MemoryMatchesUnraced'
  <1>1. RunsSound'
    BY DEF MemoryInv, RunsSound
  <1>2. MemorySound'
    BY DEF MemoryInv, MemorySound
  <1>3. MemoryMatchesUnraced'
    BY UndisturbedMemory
  <1> QED
    BY <1>1, <1>2, <1>3

(* A step that touches neither the memory nor the runs keeps MemoryInv. *)
LEMMA MemoryUndisturbed ==
    ASSUME MemoryInv, UNCHANGED <<messages, memory, raced, workers>>
    PROVE  RunsSound' /\ MemorySound' /\ MemoryMatchesUnraced'
  <1>1. RunsSound'
    BY DEF MemoryInv, RunsSound
  <1>2. MemorySound'
    BY DEF MemoryInv, MemorySound
  <1>3. MemoryMatchesUnraced'
    BY UndisturbedMemory
  <1> QED
    BY <1>1, <1>2, <1>3

(* Persisting a message keeps MemoryInv. *)
LEMMA PersistMemory ==
    ASSUME MemoryInv, NEW role \in Roles, NEW text \in Nat, Persist(role, text)
    PROVE  RunsSound' /\ MemorySound' /\ MemoryMatchesUnraced'
  <1>0. /\ messages \in Seq(Message) /\ Len(messages) \in Nat /\ TypeOK
        /\ workers \in [Workers -> Run] /\ memory \in Memory /\ memory.cursor \in Nat
    BY DEF MemoryInv, TypeOK, Memory
  <1>1. UNCHANGED <<workers, memory, raced>>
    BY DEF Persist
  <1>2. /\ Len(messages') = Len(messages) + 1
        /\ \A i \in 1..Len(messages) : messages'[i] = messages[i]
    BY <1>0, PersistMessages
  <1>3. MemorySound'
    BY <1>0, <1>1, <1>2 DEF MemoryInv, MemorySound
  <1>4. MemoryMatchesUnraced'
    <2>1. \A i \in 1..memory.cursor : messages'[i] = messages[i]
      BY <1>0, <1>2 DEF MemoryInv, MemorySound
    <2> QED
      BY <1>1, <2>1, UndisturbedMemory
  <1>5. ASSUME NEW w \in Workers PROVE RunSound(workers[w], memory, messages', raced)
    <2>1. workers[w] \in Run /\ workers[w].target \in Nat /\ workers[w].target <= Len(messages)
      BY <1>0 DEF MemoryInv, TargetsExist, Run
    <2>2. \A i \in 1..workers[w].target : messages[i] = messages'[i]
      BY <1>0, <1>2, <2>1
    <2>3. RunSound(workers[w], memory, messages, raced)
      BY DEF MemoryInv, RunsSound
    <2> QED
      BY <1>0, <2>1, <2>2, <2>3, UndisturbedRun
  <1>6. RunsSound'
    BY <1>1, <1>5 DEF RunsSound
  <1> QED
    BY <1>3, <1>4, <1>6

(* Editing or deleting a message keeps MemoryInv. *)
LEMMA MutateMemory ==
    ASSUME MemoryInv, NEW i \in DOMAIN messages, Edit(i) \/ Delete(i)
    PROVE  RunsSound' /\ MemorySound' /\ MemoryMatchesUnraced'
  <1>0. /\ messages \in Seq(Message) /\ Len(messages) \in Nat /\ TypeOK /\ i \in 1..Len(messages)
        /\ workers \in [Workers -> Run] /\ memory \in Memory /\ memory.cursor \in Nat
        /\ memory.version \in Nat
    BY DEF MemoryInv, TypeOK, Memory
  <1>1. UNCHANGED workers
    BY DEF Edit, Delete, Mutate
  <1>2. /\ Len(messages') = Len(messages)
        /\ \A j \in DOMAIN messages : j # i => messages'[j] = messages[j]
    BY <1>0, MutatedMessages
  <1>3. memory' \in Memory
    BY <1>0, MutateRow
  <1>a. \A w \in Workers : RunSound(workers[w], memory, messages, raced)
    BY DEF MemoryInv, RunsSound
  <1>4. CASE IsCovered(i)
    <2>1. /\ ~memory'.valid /\ memory'.version = memory.version + 1
          /\ memory'.cursor = 0 /\ memory'.covers = {}
      BY <1>0, <1>4, MutateRow
    <2>2. MemorySound' /\ MemoryMatchesUnraced'
      BY <1>0, <1>2, <2>1 DEF MemorySound, MemoryMatchesUnraced
    <2>3. memory.version < memory'.version
      BY <1>0, <2>1
    <2>4. ASSUME NEW w \in Workers PROVE RunSound(workers[w], memory', messages', raced')
      <3>1. RunSound(workers[w], memory, messages, raced) /\ workers[w] \in Run
        BY <1>0, <1>a
      <3> QED
        BY <1>0, <1>3, <2>3, <3>1, OutdatedRun
    <2> QED
      BY <1>1, <2>2, <2>4 DEF RunsSound
  <1>5. CASE ~IsCovered(i)
    <2>1. UNCHANGED memory /\ raced \subseteq raced' /\ (IsRead(i) => i \in raced')
      BY <1>0, <1>5, MutateRow
    <2>2. MemorySound'
      BY <1>2, <2>1 DEF MemoryInv, MemorySound
    <2>3. MemoryMatchesUnraced'
      <3>1. ASSUME NEW j \in 1..memory.cursor, memory.valid PROVE messages'[j] = messages[j]
        <4>1. j \in DOMAIN messages
          BY <1>0 DEF MemoryInv, MemorySound
        <4>2. j # i
          BY <1>0, <1>5, <3>1 DEF IsCovered
        <4> QED
          BY <1>2, <4>1, <4>2
      <3> QED
        BY <2>1, <3>1, UndisturbedMemory
    <2>4. ASSUME NEW w \in Workers PROVE RunSound(workers[w], memory, messages', raced')
      <3>1. workers[w] \in Run /\ workers[w].target \in Nat
            /\ workers[w].target <= Len(messages)
        BY <1>0 DEF MemoryInv, TargetsExist, Run
      <3>2. ASSUME NEW j \in 1..workers[w].target, workers[w].pc \in {"loaded", "summed"}
            PROVE  j \in raced' \/ messages[j] = messages'[j]
        <4>1. CASE j = i
          <5>1. IsRead(i)
            BY <3>1, <3>2, <4>1 DEF IsRead
          <5> QED
            BY <2>1, <4>1, <5>1
        <4>2. CASE j # i
          BY <1>0, <1>2, <3>1, <4>2
        <4> QED
          BY <4>1, <4>2
      <3>3. RunSound(workers[w], memory, messages, raced)
        BY <1>a
      <3> QED
        BY <1>0, <2>1, <3>1, <3>2, <3>3, UndisturbedRun
    <2>5. RunsSound'
      BY <1>1, <2>1, <2>4 DEF RunsSound
    <2> QED
      BY <2>2, <2>3, <2>5
  <1> QED
    BY <1>4, <1>5

(* Writing the summary keeps MemoryInv. *)
LEMMA WriteSound ==
    ASSUME MemoryInv, NEW w \in Workers, Write(w)
    PROVE  RunsSound' /\ MemorySound' /\ MemoryMatchesUnraced'
  <1>0. /\ workers \in [Workers -> Run] /\ memory \in Memory /\ TypeOK
        /\ workers[w] \in Run /\ memory.version \in Nat /\ Len(messages) \in Nat
    BY DEF MemoryInv, TypeOK, Memory
  <1>1. UNCHANGED <<messages, raced>> /\ workers[w].pc = "summed"
    BY DEF Write
  <1>2. /\ workers'[w].pc \in {"written", "conflict"}
        /\ \A v \in Workers \ {w} : workers'[v] = workers[v]
    BY <1>0, WriteMemory, SettlingRun
  <1>3. CASE UNCHANGED memory
    <2>1. RunSound(workers'[w], memory, messages, raced)
      BY <1>2 DEF RunSound
    <2> QED
      BY <1>1, <1>2, <1>3, <2>1, RunsUndisturbed
  <1>4. CASE /\ MayWrite(w) /\ memory'.valid /\ memory'.version = memory.version + 1
             /\ memory'.cursor = workers[w].cut /\ memory'.covers = workers[w].covers
    <2>1. memory.version = workers[w].version
      BY <1>4 DEF MayWrite
    <2>2. RunSound(workers[w], memory, messages, raced)
      BY DEF MemoryInv, RunsSound
    <2>3. /\ workers[w].cut <= workers[w].target
          /\ \A e \in workers[w].covers : e[1] <= workers[w].cut
          /\ \A i \in 1..workers[w].cut : i \in raced \/ Says(workers[w].covers, messages[i], i)
      BY <1>1, <2>1, <2>2 DEF RunSound
    <2>4. /\ workers[w].target <= Len(messages) /\ workers[w].target \in Nat
          /\ workers[w].cut \in Nat
      BY <1>0 DEF MemoryInv, TargetsExist, Run
    <2>5. MemorySound'
      BY <1>0, <1>1, <1>4, <2>3, <2>4 DEF MemorySound
    <2>6. MemoryMatchesUnraced'
      BY <1>1, <1>4, <2>3 DEF MemoryMatchesUnraced, IsFaithful, Says, IsShown
    <2>7. memory' \in Memory /\ memory.version < memory'.version
      BY <1>0, <1>4, WriteMemory
    <2>8. ASSUME NEW v \in Workers PROVE RunSound(workers'[v], memory', messages', raced')
      <3>1. CASE v = w
        BY <1>2, <3>1 DEF RunSound
      <3>2. CASE v # w
        <4>1. /\ workers'[v] = workers[v] /\ workers[v] \in Run
              /\ RunSound(workers[v], memory, messages, raced)
          BY <1>0, <1>2, <3>2 DEF MemoryInv, RunsSound
        <4>2. RunSound(workers[v], memory', messages', raced')
          BY <1>0, <2>7, <4>1, OutdatedRun
        <4> QED
          BY <4>1, <4>2
      <3> QED
        BY <3>1, <3>2
    <2> QED
      BY <2>5, <2>6, <2>8 DEF RunsSound
  <1> QED
    BY <1>0, <1>3, <1>4, WriteMemory

(* A summary of a sound run is sound. *)
LEMMA SummariseSound ==
    ASSUME MemoryInv, NEW w \in Workers, Summarise(w)
    PROVE  RunSound(workers'[w], memory, messages, raced)
  <1>0. /\ workers \in [Workers -> Run] /\ memory \in Memory
        /\ workers[w] \in Run /\ memory.cursor \in Nat
        /\ workers[w].window \in SUBSET (Nat \X Nat) /\ workers[w].cursor \in Nat
        /\ workers[w].covers \in SUBSET (Nat \X Nat) /\ workers[w].target \in Nat
    BY DEF MemoryInv, TypeOK, Memory, Run
  <1>1. PICK c \in Cuts(workers[w].window) :
           /\ workers'[w].pc = "summed" /\ workers'[w].target = workers[w].target
           /\ workers'[w].version = workers[w].version
           /\ workers'[w].cursor = workers[w].cursor /\ workers'[w].cut = c
           /\ workers'[w].covers
                = workers[w].covers \union {e \in workers[w].window : e[1] <= c}
           /\ \E e \in workers[w].window : e[1] = c
    BY <1>0, SummariseRun
  <1>2. workers[w].pc = "loaded" /\ RunSound(workers[w], memory, messages, raced)
    BY DEF Summarise, MemoryInv, RunsSound
  <1>3. \A e \in workers[w].window : workers[w].cursor < e[1] /\ e[1] <= workers[w].target
    BY <1>2 DEF RunSound
  <1>4. c \in Nat /\ workers[w].cursor < c /\ c <= workers[w].target
    BY <1>0, <1>1, <1>3
  <1>5. ASSUME workers[w].version = memory.version
        PROVE  /\ workers[w].cursor = memory.cursor
               /\ \A e \in workers'[w].covers : e[1] <= c
               /\ \A i \in 1..c : i \in raced \/ Says(workers'[w].covers, messages[i], i)
    <2>1. /\ workers[w].cursor = memory.cursor /\ workers[w].covers = memory.covers
          /\ \A i \in 1..workers[w].target : workers[w].cursor < i =>
                 i \in raced \/ Says(workers[w].window, messages[i], i)
      BY <1>2, <1>5 DEF RunSound
    <2>2. \A e \in workers[w].covers : e[1] <= workers[w].cursor
      BY <2>1 DEF MemoryInv, MemorySound
    <2>3. \A e \in workers'[w].covers : e[1] <= c
      <3> SUFFICES ASSUME NEW e \in workers'[w].covers PROVE e[1] <= c
        OBVIOUS
      <3>1. CASE e \in workers[w].covers
        <4>1. e[1] \in Nat /\ e[1] <= workers[w].cursor
          BY <1>0, <2>2, <3>1
        <4> QED
          BY <1>0, <1>4, <4>1
      <3> QED
        BY <1>1, <3>1
    <2>4. ASSUME NEW i \in 1..c, i \notin raced
          PROVE  Says(workers'[w].covers, messages[i], i)
      <3>1. workers[w].cursor < i => Says(workers[w].window, messages[i], i)
        BY <1>0, <1>4, <2>1, <2>4
      <3>2. i <= workers[w].cursor => Says(workers[w].covers, messages[i], i)
        <4> SUFFICES ASSUME i <= workers[w].cursor
                     PROVE  Says(memory.covers, messages[i], i)
          BY <2>1
        <4>1. i \in 1..memory.cursor
          BY <1>0, <1>4, <2>1
        <4>2. memory.valid
          BY <1>0, <4>1 DEF MemoryInv, MemorySound
        <4>3. IsFaithful(i)
          BY <2>4, <4>1, <4>2 DEF MemoryInv, MemoryMatchesUnraced
        <4> QED
          BY <4>3, FaithfulSays
      <3>3. \A e \in workers[w].window : workers[w].cursor < e[1]
        BY <1>3
      <3>4. workers'[w].covers = workers[w].covers \union {e \in workers[w].window : e[1] <= c}
        BY <1>1
      <3> QED
        BY <1>0, <1>4, <2>2, <3>1, <3>2, <3>3, <3>4, SummarySays
    <2> QED
      BY <2>1, <2>3, <2>4
  <1>6. workers[w].version <= memory.version
    BY <1>2 DEF RunSound
  <1> QED
    BY <1>1, <1>4, <1>5, <1>6 DEF RunSound

(* A worker's steps and its crash keep MemoryInv. *)
LEMMA RunStepSound ==
    ASSUME MemoryInv, NEW w \in Workers, RunStep(w) \/ Crash(w)
    PROVE  RunsSound' /\ MemorySound' /\ MemoryMatchesUnraced'
  <1>0. /\ workers \in [Workers -> Run] /\ memory \in Memory /\ messages \in Seq(Message)
        /\ workers[w] \in Run /\ memory.version \in Nat
    BY DEF MemoryInv, TypeOK, Memory
  <1>1. CASE Write(w)
    BY <1>1, WriteSound
  <1>2. CASE ~Write(w)
    <2>1. UNCHANGED <<messages, memory, raced>>
      BY <1>2
        DEF RunStep, LoadMemory, LoadMessages, Summarise, Skip, Fail, Complete, Conflict,
            Crash
    <2>2. /\ RunSound(workers'[w], memory, messages, raced)
          /\ \A v \in Workers \ {w} : workers'[v] = workers[v]
      <3>1. CASE Leave(w)
        BY <1>0, <3>1, LeaveRun DEF RunSound
      <3>2. CASE LoadMemory(w) /\ HoldsLease(w)
        BY <1>0, <3>2, LoadMemoryRun DEF RunSound
      <3>3. CASE LoadMessages(w)
        <4>1. /\ workers'[w].pc = "loaded" /\ workers'[w].target = workers[w].target
              /\ workers'[w].version = workers[w].version
              /\ workers'[w].cursor = workers[w].cursor
              /\ workers'[w].covers = workers[w].covers
              /\ workers'[w].window = Window(workers[w].target, workers[w].cursor)
              /\ \A v \in Workers \ {w} : workers'[v] = workers[v]
          BY <1>0, <3>3, LoadMessagesRun
        <4>2. workers[w].pc = "based" /\ RunSound(workers[w], memory, messages, raced)
          BY <3>3 DEF LoadMessages, MemoryInv, RunsSound
        <4>3. /\ workers[w].target \in Nat /\ workers[w].cursor \in Nat
              /\ workers[w].target <= Len(messages)
          BY <1>0 DEF Run, MemoryInv, TargetsExist
        <4>4. \A e \in workers'[w].window :
                 workers[w].cursor < e[1] /\ e[1] <= workers[w].target
          BY <1>0, <4>1, <4>3, WindowType
        <4>5. ASSUME NEW i \in 1..workers[w].target, workers[w].cursor < i
              PROVE  Says(workers'[w].window, messages[i], i)
          BY <1>0, <4>1, <4>3, <4>5, WindowSays
        <4> QED
          BY <4>1, <4>2, <4>4, <4>5 DEF RunSound
      <3>4. CASE Summarise(w)
        BY <1>0, <3>4, SummariseSound, SummariseRun
      <3>5. \/ Leave(w)
            \/ LoadMemory(w) /\ HoldsLease(w)
            \/ LoadMessages(w) \/ Summarise(w)
        BY <1>2 DEF RunStep, LoadMemory, Skip, Fail, Complete, Conflict, Crash
      <3> QED
        BY <3>1, <3>2, <3>3, <3>4, <3>5
    <2> QED
      BY <2>1, <2>2, RunsUndisturbed
  <1> QED
    BY <1>1, <1>2

(* Every step keeps MemoryInv. *)
LEMMA MemoryNext ==
    ASSUME MemoryInv, [Next]_vars
    PROVE  MemoryInv'
  <1>0. TypeOK /\ TargetsExist /\ workers \in [Workers -> Run] /\ JobRow(job)
    BY DEF MemoryInv, TypeOK, JobRow
  <1>1. TypeOK' /\ TargetsExist'
    BY <1>0, TypeNext, TargetsNext
  <1>2. RunsSound' /\ MemorySound' /\ MemoryMatchesUnraced'
    <2>1. ASSUME NEW role \in Roles, NEW text \in Nat, Persist(role, text)
          PROVE  RunsSound' /\ MemorySound' /\ MemoryMatchesUnraced'
      BY <2>1, PersistMemory
    <2>2. ASSUME NEW i \in DOMAIN messages, Edit(i) \/ Delete(i)
          PROVE  RunsSound' /\ MemorySound' /\ MemoryMatchesUnraced'
      BY <2>2, MutateMemory
    <2>3. ASSUME NEW w \in Workers, RunStep(w) \/ Crash(w)
          PROVE  RunsSound' /\ MemorySound' /\ MemoryMatchesUnraced'
      BY <2>3, RunStepSound
    <2>4. ASSUME NEW w \in Workers, Deliver(w) \/ CompactNow(w)
          PROVE  RunsSound' /\ MemorySound' /\ MemoryMatchesUnraced'
      <3>1. UNCHANGED <<messages, memory, raced>> /\ (Claim(w) \/ UNCHANGED workers)
        BY <2>4 DEF Deliver, CompactNow
      <3>2. CASE UNCHANGED workers
        BY <3>1, <3>2, MemoryUndisturbed
      <3>3. CASE Claim(w)
        <4>1. /\ workers'[w].pc = "claimed"
              /\ \A v \in Workers \ {w} : workers'[v] = workers[v]
          BY <1>0, <3>3, ClaimRun
        <4>2. RunSound(workers'[w], memory, messages, raced)
          BY <4>1 DEF RunSound
        <4> QED
          BY <3>1, <4>1, <4>2, RunsUndisturbed
      <3> QED
        BY <3>1, <3>2, <3>3
    <2>5. ASSUME NEW accepted \in BOOLEAN, Reconcile(accepted)
          PROVE  RunsSound' /\ MemorySound' /\ MemoryMatchesUnraced'
      <3>1. UNCHANGED <<messages, memory, raced, workers>>
        BY <2>5 DEF Reconcile
      <3> QED
        BY <3>1, MemoryUndisturbed
    <2>6. CASE \/ ListBackfill \/ SweepBackfill \/ RequestDurable \/ ExpireLease \/ BecomeDue
               \/ UNCHANGED vars
      <3>1. UNCHANGED <<messages, memory, raced, workers>>
        BY <2>6 DEF ListBackfill, SweepBackfill, RequestDurable, ExpireLease, BecomeDue, vars
      <3> QED
        BY <3>1, MemoryUndisturbed
    <2>7. \A text \in Contents : text \in Nat
      BY ContentsAssumption
    <2> QED
      BY <2>1, <2>2, <2>3, <2>4, <2>5, <2>6, <2>7 DEF Next, Roles
  <1> QED
    BY <1>1, <1>2 DEF MemoryInv

(* Valid memory holds, of every message up to its cursor, exactly what the  *)
(* transcript shows, except for messages changed after a run that had yet   *)
(* to write had read them: for any number of runs, messages and edits, and  *)
(* whichever leases expire.                                                 *)
THEOREM MemoryIsFaithful == Spec => []MemoryMatchesUnraced
  <1>1. MemoryInv /\ [Next]_vars => MemoryInv'
    BY MemoryNext
  <1>2. MemoryInv => MemoryMatchesUnraced
    BY DEF MemoryInv
  <1> QED
    BY <1>1, <1>2, MemoryInit, PTL DEF Spec

(* Only a write and an invalidation change the memory row, and both advance *)
(* it.                                                                      *)
LEMMA MemorySteps ==
    ASSUME MemoryInv, [Next]_vars
    PROVE  /\ memory.valid /\ memory'.valid => memory.cursor <= memory'.cursor
           /\ memory' # memory => memory.version < memory'.version
  <1>0. TypeOK /\ memory \in Memory /\ memory.version \in Nat /\ memory.cursor \in Nat
    BY DEF MemoryInv, TypeOK, Memory
  <1>1. CASE UNCHANGED memory
    BY <1>0, <1>1
  <1>2. ASSUME NEW i \in DOMAIN messages, Edit(i) \/ Delete(i), ~UNCHANGED memory
        PROVE  ~memory'.valid /\ memory.version < memory'.version
    BY <1>0, <1>2, MutateRow
  <1>3. ASSUME NEW w \in Workers, Write(w), ~UNCHANGED memory
        PROVE  memory.cursor <= memory'.cursor /\ memory.version < memory'.version
    <2>1. /\ MayWrite(w) /\ memory'.version = memory.version + 1
          /\ memory'.cursor = workers[w].cut
      BY <1>0, <1>3, WriteMemory
    <2>2. workers[w].pc = "summed" /\ RunSound(workers[w], memory, messages, raced)
      BY <1>3 DEF Write, MemoryInv, RunsSound
    <2>3. workers[w].cursor < workers[w].cut /\ workers[w].cursor = memory.cursor
      BY <2>1, <2>2 DEF RunSound, MayWrite
    <2>4. workers[w].cut \in Nat
      BY <1>0 DEF TypeOK, Run
    <2> QED
      BY <1>0, <2>1, <2>3, <2>4
  <1>4. \/ UNCHANGED memory
        \/ \E i \in DOMAIN messages : Edit(i) \/ Delete(i)
        \/ \E w \in Workers : Write(w)
    BY DEF Next, RunStep, Persist, ListBackfill, SweepBackfill, RequestDurable, Deliver, CompactNow,
           LoadMemory, LoadMessages, Summarise, Skip, Fail, Complete, Conflict, Crash, ExpireLease,
           BecomeDue, Reconcile, vars
  <1> QED
    BY <1>1, <1>2, <1>3, <1>4

(* The cursor of valid memory goes back only through an invalidation, and   *)
(* every change of the row takes a larger version, for any number of runs   *)
(* that write late.                                                         *)
THEOREM MemoryAdvances == Spec => MemoryMovesForward
  <1>1. MemoryInv /\ [Next]_vars => MemoryInv'
    BY MemoryNext
  <1>2. MemoryInv /\ [Next]_vars =>
           [/\ memory.valid /\ memory'.valid => memory.cursor <= memory'.cursor
            /\ memory' # memory => memory.version < memory'.version]_vars
    BY MemorySteps
  <1> QED
    BY <1>1, <1>2, MemoryInit, PTL DEF Spec, MemoryMovesForward
=============================================================================
