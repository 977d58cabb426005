--------------------------- MODULE TaskDelivery ---------------------------
(***************************************************************************)
(* The life of a job on the task path of gqueue: Enqueue by the publisher  *)
(* adapter with the options of the event, the asynq worker of              *)
(* cmd/setup/task/consumer.go, and the request handler that calls the      *)
(* webhook.                                                                *)
(*                                                                         *)
(* The asynq library and Redis are external and modelled by what the code  *)
(* relies on: a task is leased to a handler; nil completes it, an error    *)
(* retries it until the retry count of its options is used up and then     *)
(* archives it; the end of its context (the deadline of its options, or    *)
(* the default time limit of an attempt) counts as an error at once, until *)
(* the handler returned; a lease that ends (a crash, or heartbeats that do *)
(* not get through) is found by the recoverer and counts as a failed       *)
(* attempt; a stopping server puts its unfinished tasks back uncounted;    *)
(* the lock of a unique task is held until the task completes or its TTL   *)
(* is over.                                                                *)
(***************************************************************************)
EXTENDS Naturals, FiniteSets

CONSTANTS
    Job,         \* (event, consumer) pairs to be published
    TaskId,      \* bound on the tasks ever enqueued
    MaxRetries,  \* max_retries option of the event
    Unique,      \* whether the event has a unique_ttl option
    Deadlined,   \* jobs of an event with a deadline option
    NoUrl,       \* jobs of a consumer registered without base_url
    Concurrency, \* WQ_CONCURRENCY, the handlers that run at a time
    MaxFaults,   \* bound on the faults of a behaviour
    NoTask, NoJob

\* Opt.Validate: "max retries must be between 0 and 5".
ASSUME MaxRetriesAssumption  == MaxRetries \in 0 .. 5
ASSUME OptionAssumption      == Unique \in BOOLEAN /\ Deadlined \subseteq Job
ASSUME NoUrlAssumption       == NoUrl \subseteq Job
ASSUME ConcurrencyAssumption == Concurrency \in Nat \ {0}
ASSUME MaxFaultsAssumption   == MaxFaults \in Nat
ASSUME NoneAssumption        == NoTask \notin TaskId /\ NoJob \notin Job

VARIABLES
    state,      \* per task: where asynq has it
    jobOf,      \* the job of the task
    retried,    \* failed attempts counted so far
    attempts,   \* handlers started for it
    lock,       \* per job: the task that holds the unique lock
    orphans,    \* tasks with a handler still running whose lease has ended
    overdue,    \* the deadline has passed
    faults,     \* faults so far
    requeued,   \* times a stopping server put the task back
    cutOff,     \* tasks with a handler asynq did not wait for: a lost lease,
                \* a stopping server, the time limit
    stored, accepted, failed, succeeded, archivedJobs, lockExpired

taskVars == <<state, jobOf, retried, attempts>>
vars == <<state, jobOf, retried, attempts, lock, orphans, overdue, faults,
          requeued, cutOff, stored, accepted, failed, succeeded, archivedJobs, lockExpired>>

\* called: the webhook answered and the completion is still to be written.
State == {"none", "scheduled", "pending", "active", "called", "retry",
          "completed", "archived"}

Unfinished == {"scheduled", "pending", "active", "called", "retry"}

\* NewDefaultOpt sets MaxRetry(3); ToAsynqOptions overrides it only when the
\* option of the event is above zero.
EffectiveRetry == IF MaxRetries > 0 THEN MaxRetries ELSE 3

TypeOK ==
    /\ state \in [TaskId -> State]
    /\ jobOf \in [TaskId -> Job \cup {NoJob}]
    /\ \A t \in TaskId : (state[t] = "none") <=> (jobOf[t] = NoJob)
    /\ retried \in [TaskId -> 0 .. EffectiveRetry]
    /\ attempts \in [TaskId -> Nat]
    /\ lock \in [Job -> TaskId \cup {NoTask}]
    /\ orphans \subseteq TaskId
    /\ overdue \in BOOLEAN
    /\ faults \in 0 .. MaxFaults
    /\ requeued \in [TaskId -> Nat]
    /\ cutOff \subseteq TaskId
    /\ stored \subseteq Job /\ accepted \subseteq Job /\ failed \subseteq Job
    /\ succeeded \subseteq TaskId
    /\ archivedJobs \subseteq Job /\ lockExpired \subseteq Job

Init ==
    /\ state = [t \in TaskId |-> "none"]
    /\ jobOf = [t \in TaskId |-> NoJob]
    /\ retried = [t \in TaskId |-> 0]
    /\ attempts = [t \in TaskId |-> 0]
    /\ lock = [j \in Job |-> NoTask]
    /\ orphans = {}
    /\ overdue = FALSE
    /\ faults = 0
    /\ requeued = [t \in TaskId |-> 0]
    /\ cutOff = {}
    /\ stored = {} /\ accepted = {} /\ failed = {}
    /\ succeeded = {} /\ archivedJobs = {} /\ lockExpired = {}

Fault ==
    /\ faults < MaxFaults
    /\ faults' = faults + 1

Move(t, s) == state' = [state EXCEPT ![t] = s]

-----------------------------------------------------------------------------
\* The publisher.

\* Mutant: the unique option is lost.
StoreWithoutLock(t, j, scheduled) ==
    /\ state[t] = "none"
    /\ Move(t, IF scheduled THEN "scheduled" ELSE "pending")
    /\ jobOf' = [jobOf EXCEPT ![t] = j]
    /\ stored' = stored \cup {j}
    /\ UNCHANGED lock

\* asynq stores task t for job j, unless the job's unique lock is taken (then
\* Enqueue answers ErrDuplicateTask and nothing changes); schedule_in delays it.
Store(t, j, scheduled) ==
    /\ state[t] = "none"
    /\ Unique => lock[j] = NoTask
    /\ Move(t, IF scheduled THEN "scheduled" ELSE "pending")
    /\ jobOf' = [jobOf EXCEPT ![t] = j]
    /\ lock' = IF Unique THEN [lock EXCEPT ![j] = t] ELSE lock
    /\ stored' = stored \cup {j}

\* Task.Publish succeeds.
Publish(t, j, scheduled) ==
    /\ Store(t, j, scheduled)
    /\ accepted' = accepted \cup {j}
    /\ UNCHANGED <<retried, attempts, orphans, overdue, faults, requeued,
                   cutOff, failed, succeeded, archivedJobs, lockExpired>>

\* Enqueue answers an error though Redis stored the task: the client is told
\* 500 and will try again.
PublishUnheard(t, j, scheduled) ==
    /\ Fault
    /\ Store(t, j, scheduled)
    /\ UNCHANGED <<retried, attempts, orphans, overdue, requeued, cutOff,
                   accepted, failed, succeeded, archivedJobs, lockExpired>>

-----------------------------------------------------------------------------
\* The worker.

Quiet == UNCHANGED <<jobOf, overdue, stored, accepted, lockExpired>>

\* Mutant: only scheduled tasks are forwarded.
ForwardScheduled(t) ==
    /\ state[t] = "scheduled"
    /\ Move(t, "pending")
    /\ UNCHANGED <<retried, attempts, lock, orphans, faults, requeued, cutOff,
                   failed, succeeded, archivedJobs>>
    /\ Quiet

\* The delay of a scheduled task, or the back-off of a retry, is over.
Forward(t) ==
    /\ state[t] \in {"scheduled", "retry"}
    /\ Move(t, "pending")
    /\ UNCHANGED <<retried, attempts, lock, orphans, faults, requeued, cutOff,
                   failed, succeeded, archivedJobs>>
    /\ Quiet

Dequeue(t) ==
    /\ state[t] = "pending"
    /\ Cardinality({u \in TaskId : state[u] \in {"active", "called"}})
           < Concurrency
    /\ Move(t, "active")
    /\ attempts' = [attempts EXCEPT ![t] = @ + 1]
    /\ UNCHANGED <<retried, lock, orphans, faults, requeued, cutOff, failed,
                   succeeded, archivedJobs>>
    /\ Quiet

\* Mutant: the count is compared after it was incremented.
FailAttemptEarly(t) ==
    /\ failed' = failed \cup {jobOf[t]}
    /\ IF retried[t] + 1 >= EffectiveRetry
         THEN /\ Move(t, "archived")
              /\ archivedJobs' = archivedJobs \cup {jobOf[t]}
              /\ UNCHANGED retried
         ELSE /\ Move(t, "retry")
              /\ retried' = [retried EXCEPT ![t] = @ + 1]
              /\ UNCHANGED archivedJobs

\* Mutant: one attempt too many is counted.
FailAttemptOnceMore(t) ==
    /\ failed' = failed \cup {jobOf[t]}
    /\ IF retried[t] > EffectiveRetry
         THEN /\ Move(t, "archived")
              /\ archivedJobs' = archivedJobs \cup {jobOf[t]}
              /\ UNCHANGED retried
         ELSE /\ Move(t, "retry")
              /\ retried' = [retried EXCEPT ![t] = @ + 1]
              /\ UNCHANGED archivedJobs

\* An attempt failed: asynq archives the task or schedules its next attempt.
FailAttempt(t) ==
    /\ failed' = failed \cup {jobOf[t]}
    /\ IF retried[t] >= EffectiveRetry
         THEN /\ Move(t, "archived")
              /\ archivedJobs' = archivedJobs \cup {jobOf[t]}
              /\ UNCHANGED retried
         ELSE /\ Move(t, "retry")
              /\ retried' = [retried EXCEPT ![t] = @ + 1]
              /\ UNCHANGED archivedJobs

\* The context of the task is over: asynq starts no handler for it, and does not
\* wait for a running one.
Overdue(t) == overdue /\ jobOf[t] \in Deadlined

\* The handler calls the webhook, unless the task is overdue or its payload has
\* no base_url.
Calls(t) == ~Overdue(t) /\ jobOf[t] \notin NoUrl

NotifyOk(t) ==
    /\ state[t] = "active"
    /\ Calls(t)
    /\ Move(t, "called")
    /\ succeeded' = succeeded \cup {t}
    /\ UNCHANGED <<retried, attempts, lock, orphans, faults, requeued, cutOff,
                   failed, archivedJobs>>
    /\ Quiet

\* Mutant: the handler returns the error of insertInsights, so that an attempt
\* may fail after the webhook answered.
AttemptFailsLate(t) ==
    /\ state[t] \in {"active", "called"}
    /\ FailAttempt(t)
    /\ UNCHANGED <<attempts, lock, orphans, faults, requeued, cutOff, succeeded>>
    /\ Quiet

\* The handler returns an error (Validate or Notify failed), or the deadline
\* passes before it returned, be it after the webhook answered, while
\* insertInsights is at work.
AttemptFails(t) ==
    /\ state[t] = "active" \/ (state[t] = "called" /\ Overdue(t))
    /\ FailAttempt(t)
    /\ UNCHANGED <<attempts, lock, orphans, faults, requeued, cutOff, succeeded>>
    /\ Quiet

\* The same for an event without a deadline, whose attempts asynq gives a time
\* limit of its own (30 minutes, far above that of the webhook call).
AttemptTimesOut(t) ==
    /\ state[t] \in {"active", "called"}
    /\ jobOf[t] \notin Deadlined
    /\ FailAttempt(t)
    /\ cutOff' = cutOff \cup {t}
    /\ UNCHANGED <<attempts, lock, orphans, faults, requeued, succeeded>>
    /\ Quiet

\* asynq records the success and gives the lock back.
Complete(t) ==
    /\ state[t] = "called"
    /\ Move(t, "completed")
    /\ lock' = [j \in Job |-> IF lock[j] = t THEN NoTask ELSE lock[j]]
    /\ UNCHANGED <<retried, attempts, orphans, faults, requeued, cutOff, failed,
                   succeeded, archivedJobs>>
    /\ Quiet

-----------------------------------------------------------------------------
\* Time and faults.

LockExpires(j) ==
    /\ lock[j] # NoTask
    /\ lock' = [lock EXCEPT ![j] = NoTask]
    /\ lockExpired' = lockExpired \cup {j}
    /\ UNCHANGED <<taskVars, orphans, overdue, faults, requeued, cutOff, stored,
                   accepted, failed, succeeded, archivedJobs>>

DeadlinePasses ==
    /\ Deadlined # {}
    /\ ~overdue
    /\ overdue' = TRUE
    /\ UNCHANGED <<taskVars, lock, orphans, faults, requeued, cutOff, stored,
                   accepted, failed, succeeded, archivedJobs, lockExpired>>

\* The handler of a task that asynq gave up waiting for died with its process
\* or runs on without the task.
CutOff(t, handlerLives) ==
    /\ cutOff' = cutOff \cup {t}
    /\ orphans' = IF handlerLives /\ state[t] = "active"
                    THEN orphans \cup {t} ELSE orphans

\* Mutant: the recoverer puts the task back without counting the attempt.
LeaseUncounted(t, handlerLives) ==
    /\ state[t] \in {"active", "called"}
    /\ Fault
    /\ Move(t, "pending")
    /\ CutOff(t, handlerLives)
    /\ UNCHANGED <<retried, attempts, lock, requeued, failed, succeeded,
                   archivedJobs>>
    /\ Quiet

\* The lease of a running task ends and the recoverer treats that as a failed
\* attempt.
LeaseExpires(t, handlerLives) ==
    /\ state[t] \in {"active", "called"}
    /\ Fault
    /\ FailAttempt(t)
    /\ CutOff(t, handlerLives)
    /\ UNCHANGED <<attempts, lock, requeued, succeeded>>
    /\ Quiet

\* A handler without a lease ends; whatever its result, asynq writes nothing.
OrphanEnds(t, ok) ==
    /\ t \in orphans
    /\ ok => Calls(t)
    /\ orphans' = orphans \ {t}
    /\ succeeded' = IF ok THEN succeeded \cup {t} ELSE succeeded
    /\ UNCHANGED <<taskVars, lock, faults, requeued, cutOff, failed, archivedJobs>>
    /\ Quiet

\* Mutant: a stopping server gives its unfinished tasks up.
RequeueForgotten(t, handlerLives) ==
    /\ state[t] \in {"active", "called"}
    /\ Fault
    /\ Move(t, "completed")
    /\ requeued' = [requeued EXCEPT ![t] = @ + 1]
    /\ CutOff(t, handlerLives)
    /\ UNCHANGED <<retried, attempts, lock, failed, succeeded, archivedJobs>>
    /\ Quiet

\* The server is stopped and does not wait any longer for the handler.
Requeue(t, handlerLives) ==
    /\ state[t] \in {"active", "called"}
    /\ Fault
    /\ Move(t, "pending")
    /\ requeued' = [requeued EXCEPT ![t] = @ + 1]
    /\ CutOff(t, handlerLives)
    /\ UNCHANGED <<retried, attempts, lock, failed, succeeded, archivedJobs>>
    /\ Quiet

-----------------------------------------------------------------------------

Next ==
    \/ \E t \in TaskId, j \in Job, scheduled \in BOOLEAN :
           Publish(t, j, scheduled) \/ PublishUnheard(t, j, scheduled)
    \/ \E t \in TaskId :
           \/ Forward(t)
           \/ Dequeue(t)
           \/ NotifyOk(t)
           \/ AttemptFails(t)
           \/ AttemptTimesOut(t)
           \/ Complete(t)
    \/ \E t \in TaskId, b \in BOOLEAN :
           LeaseExpires(t, b) \/ Requeue(t, b) \/ OrphanEnds(t, b)
    \/ \E j \in Job : LockExpires(j)
    \/ DeadlinePasses

Spec == Init /\ [][Next]_vars

\* Delays pass, the worker takes pending tasks, and every attempt ends: the
\* webhook call has a time limit.
Fairness ==
    \A t \in TaskId :
        /\ WF_vars(Forward(t))
        /\ SF_vars(Dequeue(t))
        /\ WF_vars(NotifyOk(t) \/ AttemptFails(t))
        /\ WF_vars(Complete(t))

FairSpec == Spec /\ Fairness

-----------------------------------------------------------------------------
\* Properties.

delivered == {jobOf[t] : t \in succeeded}
live == {jobOf[t] : t \in {u \in TaskId : state[u] \in Unfinished}}
Outcome == delivered \cup archivedJobs

\* A task is archived only when the retries of its options are used up: every
\* one of its attempts failed or was cut off, whatever leases and restarts did.
ArchivedIsExhausted ==
    \A t \in TaskId : state[t] = "archived" =>
        /\ retried[t] = EffectiveRetry
        /\ attempts[t] > EffectiveRetry

\* A webhook is called at most once more than max_retries for one task. Only a
\* stopping server that puts the task back adds to that, one for each time: an
\* attempt cut off by a lost lease is counted like any other.
AttemptsWithinOption ==
    \A t \in TaskId : attempts[t] <= 1 + MaxRetries + requeued[t]

\* A webhook that took a task is not called for it again, unless asynq did not
\* wait for one of its handlers. A deadline that passes between the answer and
\* the handler's return fails the attempt and retries the task, but then no
\* handler is started for it any more.
TakenOnce ==
    \A t \in succeeded \ cutOff : state[t] = "active" => ~Calls(t)

\* While the unique lock of a job has not timed out, however often clients
\* publish it again, one task at most is under way for it.
OneTaskWhileUnique ==
    Unique => \A t, u \in TaskId :
        (/\ state[t] \in Unfinished /\ state[u] \in Unfinished
         /\ jobOf[t] = jobOf[u] /\ jobOf[t] \notin lockExpired) => t = u

\* Every stored task leaves the queue: lost leases, stopping servers, a passed
\* deadline and a consumer without url included.
EventuallySettled ==
    \A t \in TaskId :
        state[t] \in Unfinished ~> state[t] \in {"completed", "archived"}

\* The task path keeps the contract of DeliveryContract; it never drops.
Contract == INSTANCE DeliveryContract
                WITH discarded <- archivedJobs, dropped <- {}
ImplementsContract == Contract!Spec
=============================================================================
