------------------------ MODULE ConversationCompaction ------------------------
(***************************************************************************)
(* The memory of one conversation: its messages, the one coalescing summary *)
(* job, the one memory row, the workers that lease the job, and the tasks   *)
(* that notify them (repositories/conversation_compaction.py,               *)
(* workers/conversation_compaction.py, ai/conversation_compactor.py).       *)
(*                                                                          *)
(* Each action is one committed transaction, so everything can happen       *)
(* between two of them: a worker that has loaded the transcript may lose    *)
(* its lease, die, or find the messages changed. A message's sequence is    *)
(* its position: it is allocated under the conversation row's lock, held to *)
(* the commit, so sequences commit in order. Times are the two questions    *)
(* the code asks of them: has the lease expired, is the job due.            *)
(***************************************************************************)
EXTENDS Integers, Sequences, FiniteSets

CONSTANTS Workers,            \* the runs of the job; a run's lease token is its own
          None,               \* no lease
          MaxAttempts,        \* conversation_summary_max_attempts
          ReconcileAttempts,  \* the max_attempts reconcile_due_jobs runs with
          Contents,           \* the texts a reply is persisted with: 1, or 0 when paused
          MaxMessages,        \* bound: messages persisted
          MaxMutations,       \* bound: edits and deletions
          MaxHints            \* bound: undelivered notifications

ASSUME AttemptsAssumption == MaxAttempts \in Nat \ {0} /\ ReconcileAttempts \in Nat \ {0}
ASSUME BoundsAssumption == MaxMessages \in Nat /\ MaxMutations \in Nat /\ MaxHints \in Nat
ASSUME ContentsAssumption == Contents \subseteq {0, 1}
ASSUME NoneAssumption == None \notin Workers

VARIABLES messages,   \* the transcript, in sequence order
          job,        \* the conversation_summary_jobs row
          memory,     \* the conversation_memory_summaries row
          workers,    \* what each run holds
          hints,      \* notifications on the broker
          sweep,      \* the target the backfill sweep read, 0 between sweeps
          mutations,  \* edits and deletions so far
          claims,     \* history: claims since the job last completed or was reopened
          handled,    \* history: the largest target completed since the last invalidation
          raced       \* history: messages changed after a run had read them, while uncovered

vars == <<messages, job, memory, workers, hints, sweep, mutations, claims, handled, raced>>

Roles == {"user", "assistant"}

(* text is the revision of the content; 0 is the empty content of a paused *)
(* turn's placeholder.                                                      *)
Message == [role : Roles, text : Nat, live : BOOLEAN]

Statuses == {"none", "idle", "pending", "processing", "retry", "dead"}

Job == [status : Statuses, target : Nat, attempts : Nat, lease : Workers \union {None},
        expired : BOOLEAN, due : BOOLEAN]

NoJob == [status |-> "none", target |-> 0, attempts |-> 0, lease |-> None,
          expired |-> FALSE, due |-> FALSE]

(* A summary stands for the <<sequence, text>> pairs it was made from, and  *)
(* the cursor for how far it claims to reach (0 for NULL). Version 0 is the *)
(* absent row.                                                              *)
Memory == [valid : BOOLEAN, version : Nat, cursor : Nat, covers : SUBSET (Nat \X Nat)]

NoMemory == [valid |-> FALSE, version |-> 0, cursor |-> 0, covers |-> {}]

(* version, cursor and covers are the memory row as the run read it, window *)
(* the messages it read next; once summarised, covers and cut are what it   *)
(* is about to write.                                                       *)
Run == [pc : {"free", "claimed", "based", "loaded", "summed", "written", "conflict"},
        target : Nat, version : Nat, cursor : Nat, covers : SUBSET (Nat \X Nat),
        window : SUBSET (Nat \X Nat), cut : Nat]

FreeRun == [pc |-> "free", target |-> 0, version |-> 0, cursor |-> 0, covers |-> {},
            window |-> {}, cut |-> 0]

Init ==
    /\ messages = <<>>
    /\ job = NoJob
    /\ memory = NoMemory
    /\ workers = [w \in Workers |-> FreeRun]
    /\ hints = 0
    /\ sweep = 0
    /\ mutations = 0
    /\ claims = 0
    /\ handled = 0
    /\ raced = {}

Larger(a, b) == IF a < b THEN b ELSE a

IsHidden(m) == m.role = "assistant" /\ m.text = 0

IsShown(i) == messages[i].live /\ ~IsHidden(messages[i])

Replies == {i \in DOMAIN messages : messages[i].role = "assistant" /\ messages[i].live}

NewestReply == CHOOSE i \in Replies : \A j \in Replies : j <= i

-----------------------------------------------------------------------------
(* The job row. *)

FreshJob(target) == [NoJob EXCEPT !.status = "pending", !.target = target, !.due = TRUE]

IsLeased == job.status = "processing" /\ ~job.expired

HoldsLease(w) == IsLeased /\ job.lease = w

(* Mutant: a reply starts a failing job over. *)
NewWorkReopening(target) ==
    IF job.status = "none" THEN FreshJob(target)
    ELSE IF IsLeased THEN [job EXCEPT !.target = Larger(job.target, target)]
    ELSE FreshJob(Larger(job.target, target))

(* A persisted reply reopens only an idle job; a dead one keeps its target. *)
NewWork(target) ==
    IF job.status = "none" THEN FreshJob(target)
    ELSE IF job.status = "dead" THEN job
    ELSE IF job.status = "idle" THEN FreshJob(Larger(job.target, target))
    ELSE [job EXCEPT !.target = Larger(job.target, target)]

(* An explicit rebuild reopens every job that has no live lease. *)
Reopened(target) ==
    IF IsLeased THEN [job EXCEPT !.target = Larger(job.target, target)]
    ELSE FreshJob(Larger(job.target, target))

IsClaimable == job.status \in {"pending", "retry"}

(* The notification is best effort: the broker may refuse it. *)
Publish == hints' \in {hints, IF hints < MaxHints THEN hints + 1 ELSE hints}

-----------------------------------------------------------------------------
(* The transcript. *)

Persist(role, text) ==
    LET sequence == Len(messages) + 1
    IN  /\ sequence <= MaxMessages
        /\ messages' = Append(messages, [role |-> role, text |-> text, live |-> TRUE])
        /\ IF role = "assistant"
           THEN job' = NewWork(sequence) /\ Publish
           ELSE UNCHANGED <<job, hints>>
        /\ UNCHANGED <<memory, workers, sweep, mutations, claims, handled, raced>>

(* Mutant: the last message the memory covers is taken for uncovered. *)
IsCoveredBefore(i) == memory.valid /\ memory.cursor # 0 /\ i < memory.cursor

IsCovered(i) == memory.valid /\ memory.cursor # 0 /\ i <= memory.cursor

(* Some run has read the transcript as far as i and may still write. *)
IsRead(i) == \E w \in Workers : workers[w].pc \in {"loaded", "summed"} /\ i <= workers[w].target

(* The job is forced back to pending whoever holds it; with no reply left   *)
(* to summarise it is left alone.                                           *)
Mutate(i, m) ==
    /\ messages[i].live
    /\ mutations < MaxMutations
    /\ mutations' = mutations + 1
    /\ messages' = [messages EXCEPT ![i] = m]
    /\ IF IsCovered(i)
       THEN /\ memory' = [memory EXCEPT !.valid = FALSE, !.version = @ + 1,
                                        !.cursor = 0, !.covers = {}]
            /\ LET left == Replies' IN
               IF left = {} THEN UNCHANGED <<job, claims>>
               ELSE /\ job' = FreshJob(Larger(job.target, NewestReply'))
                    /\ claims' = 0
            /\ handled' = 0
            /\ raced' = {}
       ELSE /\ raced' = IF IsRead(i) THEN raced \union {i} ELSE raced
            /\ UNCHANGED <<job, memory, claims, handled>>
    /\ UNCHANGED <<workers, hints, sweep>>

Edit(i) == Mutate(i, [messages[i] EXCEPT !.text = @ + 1])

Delete(i) == Mutate(i, [messages[i] EXCEPT !.live = FALSE])

-----------------------------------------------------------------------------
(* Explicit requests: the hourly sweep, whose two transactions are apart,   *)
(* and a prompt near the provider's limit.                                  *)

RequestBackfill(target) ==
    IF job.target >= target /\ job.status \in {"pending", "processing", "retry"}
    THEN UNCHANGED <<job, hints, claims>>
    ELSE /\ job' = Reopened(target)
         /\ claims' = IF IsLeased THEN claims ELSE 0
         /\ Publish

ListBackfill ==
    /\ sweep = 0
    /\ Replies # {}
    /\ \/ job.status = "none"
       \/ job.target < NewestReply
       \/ memory.version # 0 /\ ~memory.valid /\ job.status \in {"idle", "dead"}
    /\ sweep' = NewestReply
    /\ UNCHANGED <<messages, job, memory, workers, hints, mutations, claims, handled, raced>>

SweepBackfill ==
    /\ sweep # 0
    /\ RequestBackfill(sweep)
    /\ sweep' = 0
    /\ UNCHANGED <<messages, memory, workers, mutations, handled, raced>>

RequestDurable ==
    /\ Replies # {}
    /\ RequestBackfill(NewestReply)
    /\ UNCHANGED <<messages, memory, workers, sweep, mutations, handled, raced>>

-----------------------------------------------------------------------------
(* One run of the job: claim, load, summarise, write, settle. *)

Claim(w) ==
    /\ job' = [job EXCEPT !.status = "processing", !.lease = w, !.expired = FALSE]
    /\ workers' = [workers EXCEPT ![w] = [FreeRun EXCEPT !.pc = "claimed", !.target = job.target]]
    /\ claims' = claims + 1

(* A claim by id does not look at available_at. *)
Deliver(w) ==
    /\ hints > 0
    /\ workers[w].pc = "free"
    /\ hints' = hints - 1
    /\ IF IsClaimable THEN Claim(w) ELSE UNCHANGED <<job, workers, claims>>
    /\ UNCHANGED <<messages, memory, sweep, mutations, handled, raced>>

(* A turn over budget, or the first turn of a fork, runs the job itself. *)
CompactNow(w) ==
    /\ workers[w].pc = "free"
    /\ IsClaimable
    /\ Claim(w)
    /\ UNCHANGED <<messages, memory, hints, sweep, mutations, handled, raced>>

(* All that matters once the write was tried is the claim. *)
Settling(w, pc) ==
    workers' = [workers EXCEPT ![w] = [FreeRun EXCEPT !.pc = pc, !.target = workers[w].target]]

Leave(w) == workers' = [workers EXCEPT ![w] = FreeRun]

(* Without the lease the run gives up, and fail_claim finds nothing to fail. *)
LoadMemory(w) ==
    /\ workers[w].pc = "claimed"
    /\ IF HoldsLease(w)
       THEN workers' = [workers EXCEPT ![w].pc = "based", ![w].version = memory.version,
                                       ![w].cursor = memory.cursor, ![w].covers = memory.covers]
       ELSE Leave(w)
    /\ UNCHANGED <<messages, job, memory, hints, sweep, mutations, claims, handled, raced>>

(* Mutant: the cursor is forgotten. *)
WindowFromStart(target, cursor) ==
    {<<i, messages[i].text>> : i \in {j \in DOMAIN messages : j <= target /\ IsShown(j)}}

Window(target, cursor) ==
    {<<i, messages[i].text>> : i \in {j \in DOMAIN messages : /\ cursor < j /\ j <= target
                                                              /\ IsShown(j)}}

LoadMessages(w) ==
    /\ workers[w].pc = "based"
    /\ workers' = [workers EXCEPT ![w].pc = "loaded",
                                  ![w].window = Window(workers[w].target, workers[w].cursor)]
    /\ UNCHANGED <<messages, job, memory, hints, sweep, mutations, claims, handled, raced>>

(* The ends of prefixes the compactor may select: an answer, at or before   *)
(* the end of a complete turn (a question and its answer side by side).     *)
Cuts(window) ==
    LET read == {e[1] : e \in window}
        IsTurn(i, j) == /\ messages[i].role = "user" /\ messages[j].role = "assistant"
                        /\ i < j /\ ~\E k \in read : i < k /\ k < j
    IN  {c \in read : /\ messages[c].role = "assistant"
                      /\ \E i, j \in read : c <= j /\ IsTurn(i, j)}

Summarise(w) ==
    /\ workers[w].pc = "loaded"
    /\ \E c \in Cuts(workers[w].window) :
          workers' = [workers EXCEPT ![w].pc = "summed", ![w].cut = c, ![w].window = {},
                         ![w].covers = @ \union {e \in workers[w].window : e[1] <= c}]
    /\ UNCHANGED <<messages, job, memory, hints, sweep, mutations, claims, handled, raced>>

(* Mutant: whatever was requested meanwhile, the job is done. *)
CompleteClaimIdle(w) ==
    IF HoldsLease(w)
    THEN /\ job' = [job EXCEPT !.status = "idle", !.attempts = 0, !.lease = None, !.due = TRUE]
         /\ claims' = 0
         /\ handled' = Larger(handled, workers[w].target)
    ELSE UNCHANGED <<job, claims, handled>>

(* complete_claim: a newer target keeps the job pending. *)
CompleteClaim(w) ==
    IF HoldsLease(w)
    THEN /\ job' = [job EXCEPT !.status = IF job.target <= workers[w].target
                                          THEN "idle" ELSE "pending",
                               !.attempts = 0, !.lease = None, !.due = TRUE]
         /\ claims' = 0
         /\ handled' = Larger(handled, workers[w].target)
    ELSE UNCHANGED <<job, claims, handled>>

(* The window is below the trigger, or holds no complete turn. *)
Skip(w) ==
    /\ workers[w].pc = "loaded"
    /\ CompleteClaim(w)
    /\ Leave(w)
    /\ UNCHANGED <<messages, memory, hints, sweep, mutations, raced>>

(* Mutant: the failed job keeps its lease. *)
FailClaimLeased(w, permanent) ==
    IF HoldsLease(w)
    THEN job' = [job EXCEPT !.status = IF permanent \/ job.attempts + 1 >= MaxAttempts
                                       THEN "dead" ELSE "retry",
                            !.attempts = @ + 1, !.due = permanent]
    ELSE UNCHANGED job

FailClaim(w, permanent) ==
    IF HoldsLease(w)
    THEN job' = [job EXCEPT !.status = IF permanent \/ job.attempts + 1 >= MaxAttempts
                                       THEN "dead" ELSE "retry",
                            !.attempts = @ + 1, !.lease = None, !.due = permanent]
    ELSE UNCHANGED job

(* The provider times out, fails, or returns what does not validate. *)
Fail(w, permanent) ==
    /\ workers[w].pc = "loaded"
    /\ Cuts(workers[w].window) # {}
    /\ FailClaim(w, permanent)
    /\ Leave(w)
    /\ UNCHANGED <<messages, memory, hints, sweep, mutations, claims, handled, raced>>

(* The compare-and-set: the lease, and the version and cursor of the base. *)
MayWrite(w) ==
    /\ HoldsLease(w)
    /\ memory.version = workers[w].version
    /\ memory.cursor = workers[w].cursor

Write(w) ==
    /\ workers[w].pc = "summed"
    /\ IF MayWrite(w)
       THEN /\ memory' = [valid |-> TRUE, version |-> memory.version + 1,
                          cursor |-> workers[w].cut, covers |-> workers[w].covers]
            /\ Settling(w, "written")
       ELSE Settling(w, "conflict") /\ UNCHANGED memory
    /\ UNCHANGED <<messages, job, hints, sweep, mutations, claims, handled, raced>>

Complete(w) ==
    /\ workers[w].pc = "written"
    /\ CompleteClaim(w)
    /\ Leave(w)
    /\ UNCHANGED <<messages, memory, hints, sweep, mutations, raced>>

Conflict(w) ==
    /\ workers[w].pc = "conflict"
    /\ FailClaim(w, FALSE)
    /\ Leave(w)
    /\ UNCHANGED <<messages, memory, hints, sweep, mutations, claims, handled, raced>>

(* The process dies, or a database error leaves the run: nothing is undone. *)
Crash(w) ==
    /\ workers[w].pc # "free"
    /\ Leave(w)
    /\ UNCHANGED <<messages, job, memory, hints, sweep, mutations, claims, handled, raced>>

-----------------------------------------------------------------------------
(* Time, and the sweep that recovers what was lost. *)

ExpireLease ==
    /\ IsLeased
    /\ job' = [job EXCEPT !.expired = TRUE]
    /\ UNCHANGED <<messages, memory, workers, hints, sweep, mutations, claims, handled, raced>>

BecomeDue ==
    /\ IsClaimable /\ ~job.due
    /\ job' = [job EXCEPT !.due = TRUE]
    /\ UNCHANGED <<messages, memory, workers, hints, sweep, mutations, claims, handled, raced>>

(* Mutant: the sweep looks at due jobs only. *)
RecoveredDueOnly == job

(* An expired lease counts as an attempt. *)
Recovered ==
    IF job.status = "processing" /\ job.expired
    THEN [job EXCEPT !.status = IF job.attempts + 1 >= ReconcileAttempts THEN "dead" ELSE "retry",
                     !.attempts = @ + 1, !.lease = None, !.expired = FALSE, !.due = TRUE]
    ELSE job

(* reconcile_due_jobs and the publication that follows it: the due job is   *)
(* debounced first, so a refused notification waits a whole interval.       *)
Reconcile(accepted) ==
    LET found == Recovered
        isDue == found.status \in {"pending", "retry"} /\ found.due
    IN  /\ isDue \/ found # job
        /\ job' = IF isDue THEN [found EXCEPT !.due = FALSE] ELSE found
        /\ hints' = IF isDue /\ accepted /\ hints < MaxHints THEN hints + 1 ELSE hints
        /\ UNCHANGED <<messages, memory, workers, sweep, mutations, claims, handled, raced>>

-----------------------------------------------------------------------------
RunStep(w) ==
    \/ LoadMemory(w) \/ LoadMessages(w) \/ Summarise(w) \/ Skip(w) \/ Fail(w, TRUE)
    \/ Fail(w, FALSE) \/ Write(w) \/ Complete(w) \/ Conflict(w)

Next ==
    \/ Persist("user", 1)
    \/ \E text \in Contents : Persist("assistant", text)
    \/ \E i \in DOMAIN messages : Edit(i) \/ Delete(i)
    \/ ListBackfill \/ SweepBackfill \/ RequestDurable
    \/ \E w \in Workers : Deliver(w) \/ CompactNow(w) \/ RunStep(w) \/ Crash(w)
    \/ ExpireLease \/ BecomeDue
    \/ \E accepted \in BOOLEAN : Reconcile(accepted)

Spec == Init /\ [][Next]_vars

(* Workers keep taking steps and consuming the queue, time passes, and the  *)
(* beat's sweep keeps running until the broker has accepted a notification. *)
Fairness ==
    /\ \A w \in Workers : WF_vars(RunStep(w)) /\ WF_vars(Deliver(w))
    /\ WF_vars(ExpireLease)
    /\ WF_vars(BecomeDue)
    /\ SF_vars(Reconcile(TRUE))

FairSpec == Spec /\ Fairness

-----------------------------------------------------------------------------
(* Every variable has its type, and the lease is held exactly while a job   *)
(* is being processed.                                                      *)
TypeOK ==
    /\ messages \in Seq(Message)
    /\ job \in Job
    /\ memory \in Memory
    /\ workers \in [Workers -> Run]
    /\ hints \in Nat /\ sweep \in Nat /\ mutations \in Nat /\ claims \in Nat /\ handled \in Nat
    /\ raced \subseteq Nat
    /\ job.lease # None <=> job.status = "processing"

(* What memory holds of message i is its current text if it is visible, and *)
(* nothing if it is deleted or hidden.                                      *)
IsFaithful(i) ==
    {e \in memory.covers : e[1] = i} = IF IsShown(i) THEN {<<i, messages[i].text>>} ELSE {}

(* Valid memory says exactly what the transcript says up to its cursor, as  *)
(* the compaction design has it: no deleted or stale text is stored.        *)
MemoryMatchesTranscript == memory.valid => \A i \in 1..memory.cursor : IsFaithful(i)

(* The same, but for a message that was edited or deleted while a run that  *)
(* had already read it had yet to write: whatever the order of edits,       *)
(* expired leases, retries and competing runs, compare-and-set and          *)
(* invalidation let no other message be lost, doubled or kept stale, and a  *)
(* rebuild ends the exception (persist_memory_cas, invalidate_for_mutation).*)
MemoryMatchesUnraced ==
    memory.valid => \A i \in 1..memory.cursor : i \in raced \/ IsFaithful(i)

(* When a job rests in idle, every live reply lies at or before a target    *)
(* some run completed since memory was last invalidated, or past the job's  *)
(* own target, where the backfill sweep looks for it: neither a reply       *)
(* persisted during a run nor a rebuild requested during one is forgotten   *)
(* (complete_claim, the two upserts, list_backfill_candidates).             *)
NoReplyIsForgotten ==
    job.status = "idle" => \A i \in Replies : i <= handled \/ job.target < i

(* A failed run counts against the setting; a run that lost its lease, in   *)
(* reconcile_due_jobs, against a default of 5 that dispatch_due_jobs never  *)
(* overrides. A setting below 5 is no bound: it can be 5 runs all the same. *)
AttemptLimit == IF ReconcileAttempts <= MaxAttempts THEN MaxAttempts ELSE ReconcileAttempts

(* Between two completions or explicit rebuild requests a job is run at     *)
(* most as often as the larger of the two limits, however the runs end and  *)
(* however many replies arrive in between.                                  *)
AttemptsAreBounded == claims <= AttemptLimit

(* The cursor of valid memory moves back only through an invalidation, and  *)
(* every change of the row takes a new version, so that a run's base        *)
(* identifies what it read.                                                 *)
MemoryMovesForward ==
    [][/\ memory.valid /\ memory'.valid => memory.cursor <= memory'.cursor
       /\ memory' # memory => memory.version < memory'.version]_vars

IsActive == job.status \in {"pending", "processing", "retry"}

(* A requested job does not stay requested: through lost notifications,     *)
(* crashed runs, expired leases and conflicts it comes to idle or dead.     *)
JobSettles == IsActive ~> ~IsActive

=============================================================================
