------------------------ MODULE TaskDelivery_proofs ------------------------
(***************************************************************************)
(* Proofs about TaskDelivery, for any jobs, tasks, options, limits and     *)
(* faults.                                                                 *)
(***************************************************************************)
EXTENDS TaskDelivery, TLAPS

-----------------------------------------------------------------------------
\* The inductive invariant, part by part.

\* The attempts of a task are the failed ones that were counted, those a stopping
\* server put back, and one that is under way or ended the task.
Underway(t) == state[t] \in {"active", "called", "completed", "archived"}

CountsAgree ==
    \A t \in TaskId :
        /\ attempts[t] = retried[t] + requeued[t] + (IF Underway(t) THEN 1 ELSE 0)
        /\ state[t] = "archived" => retried[t] = EffectiveRetry

\* A handler runs without its task only when asynq did not wait for it, and any
\* other task that was taken is done, or about to be, or out of time.
CutOffsExplain ==
    /\ orphans \subseteq cutOff
    /\ \A t \in succeeded \ cutOff : state[t] \in {"called", "completed"} \/ Overdue(t)

\* The lock of a job is held by its unfinished task, unless it timed out.
UnfinishedHoldsLock ==
    Unique => \A t \in TaskId :
        state[t] \in Unfinished /\ jobOf[t] \notin lockExpired => lock[jobOf[t]] = t

\* What the tasks of a job say of its history.
Recorded ==
    \A t \in TaskId :
        /\ state[t] # "none" => jobOf[t] \in stored
        /\ t \in succeeded \cup orphans => state[t] # "none"
        /\ state[t] = "called" => t \in succeeded
        /\ retried[t] > 0 => jobOf[t] \in failed

Inv == TypeOK /\ CountsAgree /\ CutOffsExplain /\ UnfinishedHoldsLock /\ Recorded

-----------------------------------------------------------------------------
\* Type correctness.

\* There is always at least one retry.
LEMMA RetryFacts == EffectiveRetry \in 1 .. 5
  BY MaxRetriesAssumption DEF EffectiveRetry

\* A task that is moved is the only one whose state changes.
LEMMA MoveFacts ==
    ASSUME TypeOK, NEW t \in TaskId, NEW s \in State, Move(t, s)
    PROVE  /\ state' \in [TaskId -> State]
           /\ state'[t] = s
           /\ \A u \in TaskId \ {t} : state'[u] = state[u]
  BY DEF TypeOK, Move

\* A failed attempt is counted, or ends the task when the count is full.
LEMMA FailFacts ==
    ASSUME TypeOK, NEW t \in TaskId, state[t] # "none", FailAttempt(t)
    PROVE  /\ jobOf[t] \in Job /\ failed' = failed \cup {jobOf[t]}
           /\ state' \in [TaskId -> State] /\ retried' \in [TaskId -> 0 .. EffectiveRetry]
           /\ \A u \in TaskId \ {t} : state'[u] = state[u] /\ retried'[u] = retried[u]
           /\ \/ /\ state'[t] = "archived" /\ retried[t] = EffectiveRetry
                 /\ retried'[t] = retried[t]
                 /\ archivedJobs' = archivedJobs \cup {jobOf[t]}
              \/ /\ state'[t] = "retry" /\ retried'[t] = retried[t] + 1
                 /\ archivedJobs' = archivedJobs
  <1>1. jobOf[t] \in Job
    BY DEF TypeOK
  <1>2. retried[t] \in 0 .. EffectiveRetry /\ EffectiveRetry \in 1 .. 5
    BY RetryFacts DEF TypeOK
  <1>3. CASE retried[t] >= EffectiveRetry
    <2>1. Move(t, "archived") /\ UNCHANGED retried
      BY <1>3 DEF FailAttempt
    <2> QED  BY <1>1, <1>2, <1>3, <2>1, MoveFacts DEF FailAttempt, State, TypeOK
  <1>4. CASE ~(retried[t] >= EffectiveRetry)
    <2>1. Move(t, "retry") /\ retried' = [retried EXCEPT ![t] = @ + 1]
      BY <1>4 DEF FailAttempt
    <2> QED  BY <1>1, <1>2, <1>4, <2>1, MoveFacts DEF FailAttempt, State, TypeOK
  <1> QED  BY <1>3, <1>4

\* A task is stored under a free name, and the lock is its own.
LEMMA StoreFacts ==
    ASSUME TypeOK, NEW t \in TaskId, NEW j \in Job, NEW scheduled \in BOOLEAN,
           Store(t, j, scheduled)
    PROVE  /\ state[t] = "none" /\ state' \in [TaskId -> State]
           /\ state'[t] \in {"scheduled", "pending"} /\ jobOf'[t] = j
           /\ \A u \in TaskId \ {t} : state'[u] = state[u] /\ jobOf'[u] = jobOf[u]
           /\ jobOf' \in [TaskId -> Job \cup {NoJob}]
           /\ lock' \in [Job -> TaskId \cup {NoTask}]
           /\ stored' = stored \cup {j}
  <1>1. PICK s \in {"scheduled", "pending"} : Move(t, s)
    BY DEF Store
  <1>2. state' \in [TaskId -> State] /\ state'[t] = s
        /\ \A u \in TaskId \ {t} : state'[u] = state[u]
    BY <1>1, MoveFacts DEF State
  <1> QED  BY <1>2 DEF Store, TypeOK

LEMMA TypeInit == Init => TypeOK
  <1> SUFFICES ASSUME Init PROVE TypeOK  OBVIOUS
  <1>1. /\ state \in [TaskId -> State] /\ jobOf \in [TaskId -> Job \cup {NoJob}]
        /\ \A t \in TaskId : (state[t] = "none") <=> (jobOf[t] = NoJob)
    BY DEF Init, State
  <1>2. retried \in [TaskId -> 0 .. EffectiveRetry] /\ attempts \in [TaskId -> Nat]
    BY RetryFacts DEF Init
  <1>3. lock \in [Job -> TaskId \cup {NoTask}] /\ faults \in 0 .. MaxFaults
    BY MaxFaultsAssumption DEF Init
  <1>4. requeued \in [TaskId -> Nat]
    BY DEF Init
  <1> QED  BY <1>1, <1>2, <1>3, <1>4 DEF Init, TypeOK

LEMMA TypeNext == TypeOK /\ [Next]_vars => TypeOK'
  <1> SUFFICES ASSUME TypeOK, [Next]_vars PROVE TypeOK'  OBVIOUS
  <1> USE DEF TypeOK, Quiet, taskVars
  <1>1. ASSUME Fault PROVE faults' \in 0 .. MaxFaults
    BY <1>1, MaxFaultsAssumption DEF Fault
  <1>2. ASSUME NEW t \in TaskId, NEW j \in Job, NEW scheduled \in BOOLEAN,
               Publish(t, j, scheduled) \/ PublishUnheard(t, j, scheduled)
        PROVE  TypeOK'
    <2>1. /\ Store(t, j, scheduled)
          /\ accepted' \in {accepted, accepted \cup {j}}
          /\ faults' = faults \/ Fault
          /\ UNCHANGED <<retried, attempts, orphans, overdue, requeued, cutOff, failed,
                         succeeded, archivedJobs, lockExpired>>
      BY <1>2 DEF Publish, PublishUnheard
    <2>2. \A u \in TaskId : (state'[u] = "none") <=> (jobOf'[u] = NoJob)
      BY <2>1, StoreFacts, NoneAssumption
    <2> QED  BY <1>1, <2>1, <2>2, StoreFacts
  <1>3. ASSUME NEW t \in TaskId, state[t] # "none", NEW s \in State \ {"none"}, Move(t, s),
               UNCHANGED <<jobOf, retried, overdue, stored, accepted, failed, archivedJobs,
                           lockExpired>>,
               attempts' \in [TaskId -> Nat], lock' \in [Job -> TaskId \cup {NoTask}],
               orphans' \subseteq TaskId, succeeded' \subseteq TaskId,
               requeued' \in [TaskId -> Nat], cutOff' \subseteq TaskId,
               faults' = faults \/ Fault
        PROVE  TypeOK'
    BY <1>1, <1>3, MoveFacts
  <1>4. ASSUME NEW t \in TaskId, Forward(t) \/ Dequeue(t) PROVE TypeOK'
    BY <1>3, <1>4 DEF Forward, Dequeue, State
  <1>5. ASSUME NEW t \in TaskId, NotifyOk(t) \/ Complete(t) PROVE TypeOK'
    BY <1>3, <1>5 DEF NotifyOk, Complete, State
  <1>6. ASSUME NEW t \in TaskId, NEW b \in BOOLEAN, Requeue(t, b) PROVE TypeOK'
    <2>1. requeued' \in [TaskId -> Nat]
      BY <1>6 DEF Requeue
    <2>2. cutOff' \subseteq TaskId /\ orphans' \subseteq TaskId
      BY <1>6 DEF Requeue, CutOff
    <2> QED  BY <1>3, <1>6, <2>1, <2>2 DEF Requeue, State
  <1>7. ASSUME NEW t \in TaskId, NEW b \in BOOLEAN,
               AttemptFails(t) \/ AttemptTimesOut(t) \/ LeaseExpires(t, b)
        PROVE  TypeOK'
    <2>1. /\ state[t] # "none" /\ FailAttempt(t)
          /\ faults' = faults \/ Fault
          /\ orphans' \subseteq TaskId /\ cutOff' \subseteq TaskId
          /\ UNCHANGED <<attempts, lock, requeued, succeeded, jobOf, overdue, stored, accepted,
                         lockExpired>>
      BY <1>7 DEF AttemptFails, AttemptTimesOut, LeaseExpires, CutOff
    <2>2. /\ jobOf[t] \in Job /\ failed' = failed \cup {jobOf[t]}
          /\ state' \in [TaskId -> State] /\ retried' \in [TaskId -> 0 .. EffectiveRetry]
          /\ \A u \in TaskId \ {t} : state'[u] = state[u]
          /\ state'[t] # "none"
          /\ archivedJobs' \subseteq Job
      BY <2>1, FailFacts
    <2>3. \A u \in TaskId : (state'[u] = "none") <=> (jobOf'[u] = NoJob)
      BY <2>1, <2>2, NoneAssumption
    <2> QED  BY <1>1, <2>1, <2>2, <2>3
  <1>8. ASSUME NEW t \in TaskId, NEW b \in BOOLEAN, OrphanEnds(t, b) PROVE TypeOK'
    BY <1>8 DEF OrphanEnds
  <1>9. ASSUME NEW j \in Job, LockExpires(j) PROVE TypeOK'
    BY <1>9 DEF LockExpires
  <1>10. CASE DeadlinePasses
    BY <1>10 DEF DeadlinePasses
  <1>11. CASE UNCHANGED vars
    BY <1>11 DEF vars
  <1> QED  BY <1>2, <1>4, <1>5, <1>6, <1>7, <1>8, <1>9, <1>10, <1>11 DEF Next

\* Tasks, counts, locks and histories have their types.
THEOREM TypeCorrect == Spec => []TypeOK
  BY TypeInit, TypeNext, PTL DEF Spec

-----------------------------------------------------------------------------
\* Counts.

\* Every step keeps the sum of a task's counts.
LEMMA CountsNext == TypeOK /\ CountsAgree /\ [Next]_vars => CountsAgree'
  <1> SUFFICES ASSUME TypeOK, CountsAgree, [Next]_vars PROVE CountsAgree'  OBVIOUS
  <1>1. /\ EffectiveRetry \in 1 .. 5
        /\ \A t \in TaskId : /\ retried[t] \in Nat /\ attempts[t] \in Nat
                             /\ requeued[t] \in Nat /\ state[t] \in State
    BY RetryFacts DEF TypeOK
  <1>2. ASSUME NEW t \in TaskId, NEW s \in State, Move(t, s),
               \A u \in TaskId \ {t} : /\ retried'[u] = retried[u]
                                       /\ attempts'[u] = attempts[u]
                                       /\ requeued'[u] = requeued[u],
               attempts'[t] = retried'[t] + requeued'[t] +
                   (IF s \in {"active", "called", "completed", "archived"} THEN 1 ELSE 0),
               s = "archived" => retried'[t] = EffectiveRetry
        PROVE  CountsAgree'
    <2> SUFFICES ASSUME NEW u \in TaskId
                 PROVE  /\ attempts'[u] = retried'[u] + requeued'[u] +
                               (IF state'[u] \in {"active", "called", "completed", "archived"}
                                  THEN 1 ELSE 0)
                        /\ state'[u] = "archived" => retried'[u] = EffectiveRetry
      BY DEF CountsAgree, Underway, EffectiveRetry
    <2>1. CASE u = t
      BY <1>2, <2>1, MoveFacts
    <2>2. CASE u # t
      BY <1>2, <2>2, MoveFacts DEF CountsAgree, Underway
    <2> QED  BY <2>1, <2>2
  <1>3. ASSUME NEW t \in TaskId, NEW j \in Job, NEW scheduled \in BOOLEAN,
               Publish(t, j, scheduled) \/ PublishUnheard(t, j, scheduled)
        PROVE  CountsAgree'
    <2>1. PICK s \in {"scheduled", "pending"} : Move(t, s)
      BY <1>3 DEF Publish, PublishUnheard, Store
    <2>2. state[t] = "none" /\ UNCHANGED <<retried, attempts, requeued>>
      BY <1>3 DEF Publish, PublishUnheard, Store
    <2>3. attempts[t] = retried[t] + requeued[t] + 0
      BY <2>2 DEF CountsAgree, Underway
    <2> QED  BY <1>2, <2>1, <2>2, <2>3 DEF State
  <1>4. ASSUME NEW t \in TaskId, Forward(t) \/ NotifyOk(t) \/ Complete(t) PROVE CountsAgree'
    <2>1. UNCHANGED <<retried, attempts, requeued>>
      BY <1>4 DEF Forward, NotifyOk, Complete
    <2>2. CASE Forward(t)
      <3>1. state[t] \in {"scheduled", "retry"} /\ Move(t, "pending")
        BY <2>2 DEF Forward
      <3>2. attempts[t] = retried[t] + requeued[t] + 0
        BY <3>1 DEF CountsAgree, Underway
      <3> QED  BY <1>2, <2>1, <3>1, <3>2 DEF State
    <2>3. CASE NotifyOk(t) \/ Complete(t)
      <3>1. PICK s \in {"called", "completed"} : Move(t, s)
        BY <2>3 DEF NotifyOk, Complete
      <3>2. attempts[t] = retried[t] + requeued[t] + 1
        BY <2>3 DEF NotifyOk, Complete, CountsAgree, Underway
      <3> QED  BY <1>2, <2>1, <3>1, <3>2 DEF State
    <2> QED  BY <1>4, <2>2, <2>3
  <1>5. ASSUME NEW t \in TaskId, Dequeue(t) PROVE CountsAgree'
    <2>1. /\ state[t] = "pending" /\ Move(t, "active") /\ UNCHANGED <<retried, requeued>>
          /\ attempts'[t] = attempts[t] + 1
          /\ \A u \in TaskId \ {t} : attempts'[u] = attempts[u]
      BY <1>5 DEF Dequeue, TypeOK
    <2>2. attempts[t] = retried[t] + requeued[t] + 0
      BY <2>1 DEF CountsAgree, Underway
    <2> QED  BY <1>1, <1>2, <2>1, <2>2 DEF State
  <1>6. ASSUME NEW t \in TaskId, NEW b \in BOOLEAN, Requeue(t, b) PROVE CountsAgree'
    <2>1. /\ state[t] \in {"active", "called"} /\ Move(t, "pending")
          /\ UNCHANGED <<retried, attempts>>
          /\ requeued'[t] = requeued[t] + 1
          /\ \A u \in TaskId \ {t} : requeued'[u] = requeued[u]
      BY <1>6 DEF Requeue, TypeOK
    <2>2. attempts[t] = retried[t] + requeued[t] + 1
      BY <2>1 DEF CountsAgree, Underway
    <2> QED  BY <1>1, <1>2, <2>1, <2>2 DEF State
  <1>7. ASSUME NEW t \in TaskId, NEW b \in BOOLEAN,
               AttemptFails(t) \/ AttemptTimesOut(t) \/ LeaseExpires(t, b)
        PROVE  CountsAgree'
    <2>1. /\ state[t] \in {"active", "called"} /\ FailAttempt(t)
          /\ UNCHANGED <<attempts, requeued>>
      BY <1>7 DEF AttemptFails, AttemptTimesOut, LeaseExpires
    <2>2. attempts[t] = retried[t] + requeued[t] + 1
      BY <2>1 DEF CountsAgree, Underway
    <2>3. \A u \in TaskId \ {t} : retried'[u] = retried[u]
      BY <2>1, FailFacts
    <2>4. CASE retried[t] >= EffectiveRetry
      <3>1. Move(t, "archived") /\ retried'[t] = EffectiveRetry /\ retried'[t] = retried[t]
        BY <1>1, <2>1, <2>4 DEF FailAttempt, TypeOK
      <3> QED  BY <1>1, <1>2, <2>1, <2>2, <2>3, <3>1 DEF State
    <2>5. CASE ~(retried[t] >= EffectiveRetry)
      <3>1. Move(t, "retry") /\ retried'[t] = retried[t] + 1
        BY <2>1, <2>5 DEF FailAttempt, TypeOK
      <3> QED  BY <1>1, <1>2, <2>1, <2>2, <2>3, <3>1 DEF State
    <2> QED  BY <2>4, <2>5
  <1>8. CASE \/ \E t \in TaskId, b \in BOOLEAN : OrphanEnds(t, b)
             \/ \E j \in Job : LockExpires(j)
             \/ DeadlinePasses
             \/ UNCHANGED vars
    BY <1>8 DEF OrphanEnds, LockExpires, DeadlinePasses, vars, taskVars, CountsAgree, Underway
  <1> QED  BY <1>3, <1>4, <1>5, <1>6, <1>7, <1>8 DEF Next

-----------------------------------------------------------------------------
\* Cut-off handlers, locks and histories.

LEMMA CutOffsNext == TypeOK /\ CutOffsExplain /\ [Next]_vars => CutOffsExplain'
  <1> SUFFICES ASSUME TypeOK, CutOffsExplain, [Next]_vars PROVE CutOffsExplain'  OBVIOUS
  <1> USE DEF CutOffsExplain, Overdue
  <1>1. ASSUME NEW t \in TaskId, NEW s \in State, Move(t, s),
               \/ s \in {"called", "completed"}
               \/ t \notin succeeded' \ cutOff'
               \/ Overdue(t),
               UNCHANGED <<jobOf, overdue>>,
               succeeded' \in {succeeded, succeeded \cup {t}},
               cutOff' \in {cutOff, cutOff \cup {t}}, orphans' \subseteq cutOff'
        PROVE  CutOffsExplain'
    <2>1. ASSUME NEW u \in succeeded' \ cutOff'
          PROVE  state'[u] \in {"called", "completed"} \/ Overdue(u)'
      <3>1. CASE u = t
        BY <1>1, <2>1, <3>1, MoveFacts
      <3>2. CASE u # t
        <4>1. u \in succeeded \ cutOff /\ u \in TaskId
          BY <1>1, <2>1, <3>2 DEF TypeOK
        <4>2. state'[u] = state[u]
          BY <1>1, <3>2, <4>1, MoveFacts
        <4> QED  BY <1>1, <4>1, <4>2
      <3> QED  BY <3>1, <3>2
    <2> QED  BY <1>1, <2>1
  <1>2. ASSUME NEW t \in TaskId, NEW j \in Job, NEW scheduled \in BOOLEAN,
               Publish(t, j, scheduled) \/ PublishUnheard(t, j, scheduled)
        PROVE  CutOffsExplain'
    <2>1. /\ Store(t, j, scheduled) /\ UNCHANGED <<orphans, overdue, cutOff, succeeded>>
      BY <1>2 DEF Publish, PublishUnheard
    <2>2. /\ state[t] = "none"
          /\ \A u \in TaskId \ {t} : state'[u] = state[u] /\ jobOf'[u] = jobOf[u]
      BY <2>1, StoreFacts
    <2>3. \A u \in succeeded \ cutOff : u \in TaskId /\ (u = t => Overdue(t))
      BY <2>2 DEF TypeOK
    <2>4. ~Overdue(t)
      BY <2>2, OptionAssumption, NoneAssumption DEF TypeOK
    <2> QED  BY <2>1, <2>2, <2>3, <2>4
  <1>3. ASSUME NEW t \in TaskId, Forward(t) \/ Dequeue(t) PROVE CutOffsExplain'
    <2>1. PICK s \in {"pending", "active"} : Move(t, s)
      BY <1>3 DEF Forward, Dequeue
    <2>2. /\ state[t] \notin {"called", "completed"}
          /\ UNCHANGED <<jobOf, orphans, overdue, cutOff, succeeded>>
      BY <1>3 DEF Forward, Dequeue, Quiet
    <2>3. t \notin succeeded' \ cutOff' \/ Overdue(t)
      BY <2>2
    <2> QED  BY <1>1, <2>1, <2>2, <2>3 DEF State
  <1>4. ASSUME NEW t \in TaskId, NotifyOk(t) \/ Complete(t) PROVE CutOffsExplain'
    <2>1. PICK s \in {"called", "completed"} : Move(t, s)
      BY <1>4 DEF NotifyOk, Complete
    <2>2. /\ UNCHANGED <<jobOf, orphans, overdue, cutOff>>
          /\ succeeded' \in {succeeded, succeeded \cup {t}}
      BY <1>4 DEF NotifyOk, Complete, Quiet
    <2> QED  BY <1>1, <2>1, <2>2 DEF State
  <1>5. ASSUME NEW t \in TaskId, AttemptFails(t) PROVE CutOffsExplain'
    <2>1. PICK s \in {"archived", "retry"} : Move(t, s)
      BY <1>5 DEF AttemptFails, FailAttempt
    <2>2. UNCHANGED <<jobOf, orphans, overdue, cutOff, succeeded>>
      BY <1>5 DEF AttemptFails, Quiet
    <2>3. t \notin succeeded' \ cutOff' \/ Overdue(t)
      BY <1>5, <2>2 DEF AttemptFails
    <2> QED  BY <1>1, <2>1, <2>2, <2>3 DEF State
  <1>6. ASSUME NEW t \in TaskId, NEW b \in BOOLEAN,
               AttemptTimesOut(t) \/ LeaseExpires(t, b) \/ Requeue(t, b)
        PROVE  CutOffsExplain'
    <2>1. PICK s \in {"archived", "retry", "pending"} : Move(t, s)
      BY <1>6 DEF AttemptTimesOut, LeaseExpires, Requeue, FailAttempt
    <2>2. /\ UNCHANGED <<jobOf, overdue, succeeded>> /\ cutOff' = cutOff \cup {t}
          /\ orphans' \subseteq orphans \cup {t}
      BY <1>6 DEF AttemptTimesOut, LeaseExpires, Requeue, CutOff, Quiet
    <2> QED  BY <1>1, <2>1, <2>2 DEF State
  <1>7. ASSUME NEW t \in TaskId, NEW b \in BOOLEAN, OrphanEnds(t, b) PROVE CutOffsExplain'
    BY <1>7 DEF OrphanEnds, Quiet, taskVars
  <1>8. CASE (\E j \in Job : LockExpires(j)) \/ DeadlinePasses \/ UNCHANGED vars
    BY <1>8 DEF LockExpires, DeadlinePasses, vars, taskVars, TypeOK
  <1> QED  BY <1>2, <1>3, <1>4, <1>5, <1>6, <1>7, <1>8 DEF Next

LEMMA LockNext == TypeOK /\ UnfinishedHoldsLock /\ [Next]_vars => UnfinishedHoldsLock'
  <1> SUFFICES ASSUME TypeOK, UnfinishedHoldsLock, [Next]_vars, Unique
               PROVE  UnfinishedHoldsLock'
    BY DEF UnfinishedHoldsLock
  <1> USE DEF UnfinishedHoldsLock
  <1>1. ASSUME NEW t \in TaskId, NEW s \in State, Move(t, s),
               s \in Unfinished => state[t] \in Unfinished,
               UNCHANGED <<jobOf, lock, lockExpired>>
        PROVE  UnfinishedHoldsLock'
    <2>1. \A u \in TaskId : state'[u] \in Unfinished => state[u] \in Unfinished
      BY <1>1, MoveFacts
    <2> QED  BY <1>1, <2>1
  <1>2. ASSUME NEW t \in TaskId, NEW j \in Job, NEW scheduled \in BOOLEAN,
               Publish(t, j, scheduled) \/ PublishUnheard(t, j, scheduled)
        PROVE  UnfinishedHoldsLock'
    <2>1. /\ Store(t, j, scheduled) /\ lock[j] = NoTask /\ lock' = [lock EXCEPT ![j] = t]
          /\ UNCHANGED lockExpired
      BY <1>2 DEF Publish, PublishUnheard, Store
    <2>2. /\ jobOf'[t] = j
          /\ \A u \in TaskId \ {t} : state'[u] = state[u] /\ jobOf'[u] = jobOf[u]
      BY <2>1, StoreFacts
    <2>3. lock'[j] = t /\ \A i \in Job \ {j} : lock'[i] = lock[i]
      BY <2>1 DEF TypeOK
    <2> SUFFICES ASSUME NEW u \in TaskId, state'[u] \in Unfinished, jobOf'[u] \notin lockExpired'
                 PROVE  lock'[jobOf'[u]] = u
      OBVIOUS
    <2>4. CASE u = t
      BY <2>2, <2>3, <2>4
    <2>5. CASE u # t
      <3>1. lock[jobOf[u]] = u /\ jobOf'[u] = jobOf[u]
        BY <2>1, <2>2, <2>5
      <3>2. jobOf[u] \in Job
        BY <2>2, <2>5 DEF TypeOK, Unfinished
      <3> QED  BY <2>1, <2>3, <3>1, <3>2, NoneAssumption
    <2> QED  BY <2>4, <2>5
  <1>3. ASSUME NEW t \in TaskId, NEW b \in BOOLEAN,
               Forward(t) \/ Dequeue(t) \/ NotifyOk(t) \/ Requeue(t, b)
        PROVE  UnfinishedHoldsLock'
    BY <1>1, <1>3 DEF Forward, Dequeue, NotifyOk, Requeue, Quiet, State, Unfinished
  <1>4. ASSUME NEW t \in TaskId, NEW b \in BOOLEAN,
               AttemptFails(t) \/ AttemptTimesOut(t) \/ LeaseExpires(t, b)
        PROVE  UnfinishedHoldsLock'
    <2>1. PICK s \in {"archived", "retry"} : Move(t, s)
      BY <1>4 DEF AttemptFails, AttemptTimesOut, LeaseExpires, FailAttempt
    <2>2. state[t] \in Unfinished /\ UNCHANGED <<jobOf, lock, lockExpired>>
      BY <1>4 DEF AttemptFails, AttemptTimesOut, LeaseExpires, Quiet, Unfinished
    <2> QED  BY <1>1, <2>1, <2>2 DEF State
  <1>5. ASSUME NEW t \in TaskId, Complete(t)
        PROVE  UnfinishedHoldsLock'
    <2>1. /\ Move(t, "completed") /\ UNCHANGED <<jobOf, lockExpired>>
          /\ lock' = [j \in Job |-> IF lock[j] = t THEN NoTask ELSE lock[j]]
      BY <1>5 DEF Complete, Quiet
    <2>2. /\ state'[t] = "completed"
          /\ \A u \in TaskId \ {t} : state'[u] = state[u]
      BY <2>1, MoveFacts DEF State
    <2> SUFFICES ASSUME NEW u \in TaskId, state'[u] \in Unfinished, jobOf'[u] \notin lockExpired'
                 PROVE  lock'[jobOf'[u]] = u
      OBVIOUS
    <2>3. u # t /\ state[u] \in Unfinished
      BY <2>2 DEF Unfinished
    <2>4. jobOf[u] \in Job /\ lock[jobOf[u]] = u
      BY <2>1, <2>3 DEF TypeOK, Unfinished
    <2> QED  BY <2>1, <2>3, <2>4
  <1>6. ASSUME NEW j \in Job, LockExpires(j)
        PROVE  UnfinishedHoldsLock'
    <2> SUFFICES ASSUME NEW u \in TaskId, state'[u] \in Unfinished, jobOf'[u] \notin lockExpired'
                 PROVE  lock'[jobOf'[u]] = u
      OBVIOUS
    <2> QED  BY <1>6 DEF LockExpires, taskVars, TypeOK, Unfinished
  <1>7. CASE (\E t \in TaskId, b \in BOOLEAN : OrphanEnds(t, b)) \/ DeadlinePasses
             \/ UNCHANGED vars
    BY <1>7 DEF OrphanEnds, DeadlinePasses, vars, taskVars, Quiet
  <1> QED  BY <1>2, <1>3, <1>4, <1>5, <1>6, <1>7 DEF Next

LEMMA RecordedNext == TypeOK /\ Recorded /\ [Next]_vars => Recorded'
  <1> SUFFICES ASSUME TypeOK, Recorded, [Next]_vars PROVE Recorded'  OBVIOUS
  <1>1. ASSUME NEW t \in TaskId, state[t] # "none", NEW s \in State \ {"none"}, Move(t, s),
               UNCHANGED <<jobOf, retried, stored, failed>>, orphans' \subseteq orphans \cup {t},
               succeeded' \in {succeeded, succeeded \cup {t}},
               s = "called" => t \in succeeded'
        PROVE  Recorded'
    BY <1>1, MoveFacts DEF Recorded
  <1>2. ASSUME NEW t \in TaskId, NEW j \in Job, NEW scheduled \in BOOLEAN,
               Publish(t, j, scheduled) \/ PublishUnheard(t, j, scheduled)
        PROVE  Recorded'
    <2>1. Store(t, j, scheduled) /\ UNCHANGED <<retried, orphans, failed, succeeded>>
      BY <1>2 DEF Publish, PublishUnheard
    <2>2. /\ state[t] = "none" /\ state'[t] \in {"scheduled", "pending"} /\ jobOf'[t] = j
          /\ \A u \in TaskId \ {t} : state'[u] = state[u] /\ jobOf'[u] = jobOf[u]
          /\ stored' = stored \cup {j}
      BY <2>1, StoreFacts
    <2>3. retried[t] = 0
      <3>1. retried[t] > 0 => jobOf[t] \in failed
        BY DEF Recorded
      <3>2. jobOf[t] = NoJob /\ retried[t] \in Nat
        BY <2>2, RetryFacts DEF TypeOK
      <3> QED  BY <3>1, <3>2, NoneAssumption DEF TypeOK
    <2>4. ASSUME NEW u \in TaskId
          PROVE  /\ state'[u] # "none" => jobOf'[u] \in stored'
                 /\ u \in succeeded' \cup orphans' => state'[u] # "none"
                 /\ state'[u] = "called" => u \in succeeded'
                 /\ retried'[u] > 0 => jobOf'[u] \in failed'
      <3>1. CASE u = t
        BY <2>1, <2>2, <2>3, <3>1
      <3>2. CASE u # t
        BY <2>1, <2>2, <3>2 DEF Recorded
      <3> QED  BY <3>1, <3>2
    <2> QED  BY <2>4 DEF Recorded
  <1>3. ASSUME NEW t \in TaskId, NEW b \in BOOLEAN,
               Forward(t) \/ Dequeue(t) \/ NotifyOk(t) \/ Complete(t) \/ Requeue(t, b)
        PROVE  Recorded'
    BY <1>1, <1>3 DEF Forward, Dequeue, NotifyOk, Complete, Requeue, CutOff, Quiet, State
  <1>4. ASSUME NEW t \in TaskId, NEW b \in BOOLEAN,
               AttemptFails(t) \/ AttemptTimesOut(t) \/ LeaseExpires(t, b)
        PROVE  Recorded'
    <2>1. /\ state[t] # "none" /\ FailAttempt(t)
          /\ UNCHANGED <<jobOf, stored, succeeded>> /\ orphans' \subseteq orphans \cup {t}
      BY <1>4 DEF AttemptFails, AttemptTimesOut, LeaseExpires, CutOff, Quiet
    <2>2. /\ failed' = failed \cup {jobOf[t]} /\ state'[t] \in {"archived", "retry"}
          /\ \A u \in TaskId \ {t} : state'[u] = state[u] /\ retried'[u] = retried[u]
      BY <2>1, FailFacts
    <2> QED  BY <2>1, <2>2 DEF Recorded
  <1>5. ASSUME NEW t \in TaskId, NEW b \in BOOLEAN, OrphanEnds(t, b)
        PROVE  Recorded'
    <2>1. /\ t \in orphans /\ UNCHANGED <<state, jobOf, retried, stored, failed>>
          /\ orphans' \subseteq orphans /\ succeeded' \in {succeeded, succeeded \cup {t}}
      BY <1>5 DEF OrphanEnds, Quiet, taskVars
    <2> QED  BY <2>1 DEF Recorded
  <1>6. CASE (\E j \in Job : LockExpires(j)) \/ DeadlinePasses \/ UNCHANGED vars
    BY <1>6 DEF LockExpires, DeadlinePasses, vars, taskVars, Recorded
  <1> QED  BY <1>2, <1>3, <1>4, <1>5, <1>6 DEF Next

-----------------------------------------------------------------------------
\* The invariant, and the properties that follow from it.

LEMMA InvInit == Init => Inv
  <1> SUFFICES ASSUME Init PROVE Inv  OBVIOUS
  <1>1. TypeOK
    BY TypeInit
  <1>2. CountsAgree
    BY DEF Init, CountsAgree, Underway
  <1>3. CutOffsExplain /\ UnfinishedHoldsLock
    BY DEF Init, CutOffsExplain, UnfinishedHoldsLock, Unfinished
  <1>4. Recorded
    BY DEF Init, Recorded
  <1> QED  BY <1>1, <1>2, <1>3, <1>4 DEF Inv

LEMMA InvNext == Inv /\ [Next]_vars => Inv'
  BY TypeNext, CountsNext, CutOffsNext, LockNext, RecordedNext DEF Inv

LEMMA Invariant == Spec => []Inv
  BY InvInit, InvNext, PTL DEF Spec

\* A task is given up only after all the attempts its options allow.
THEOREM ArchivedCorrect == Spec => []ArchivedIsExhausted
  <1>1. Inv => ArchivedIsExhausted
    <2> SUFFICES ASSUME Inv, NEW t \in TaskId, state[t] = "archived"
                 PROVE  retried[t] = EffectiveRetry /\ attempts[t] > EffectiveRetry
      BY DEF ArchivedIsExhausted
    <2>1. attempts[t] = retried[t] + requeued[t] + 1 /\ retried[t] = EffectiveRetry
      BY DEF Inv, CountsAgree, Underway
    <2>2. requeued[t] \in Nat
      BY DEF Inv, TypeOK
    <2> QED  BY <2>1, <2>2, RetryFacts
  <1> QED  BY <1>1, Invariant, PTL

\* With an option of at least one retry, a webhook is called at most once more than
\* the option says for one task, and once more for each time a stopping server put
\* it back (with the option 0, which means three retries, it is called more often:
\* run task_zero_retries).
THEOREM AttemptsCorrect == Spec => [](MaxRetries > 0 => AttemptsWithinOption)
  <1>1. Inv => (MaxRetries > 0 => AttemptsWithinOption)
    <2> SUFFICES ASSUME Inv, MaxRetries > 0, NEW t \in TaskId
                 PROVE  attempts[t] <= 1 + MaxRetries + requeued[t]
      BY DEF AttemptsWithinOption
    <2>1. EffectiveRetry = MaxRetries /\ MaxRetries \in 1 .. 5
      BY MaxRetriesAssumption DEF EffectiveRetry
    <2>2. retried[t] \in 0 .. MaxRetries /\ attempts[t] \in Nat /\ requeued[t] \in Nat
      BY <2>1 DEF Inv, TypeOK
    <2>3. attempts[t] = retried[t] + requeued[t] + (IF Underway(t) THEN 1 ELSE 0)
      BY DEF Inv, CountsAgree
    <2> QED  BY <2>1, <2>2, <2>3
  <1> QED  BY <1>1, Invariant, PTL

\* A webhook that took a task is not called for it again, unless asynq did not wait
\* for one of its handlers; deadlines that pass at any moment included.
THEOREM TakenOnceCorrect == Spec => []TakenOnce
  <1>1. Inv => TakenOnce
    BY DEF Inv, CutOffsExplain, TakenOnce, Calls
  <1> QED  BY <1>1, Invariant, PTL

\* The unique lock keeps a second task of its job out while it is held.
THEOREM UniqueCorrect == Spec => []OneTaskWhileUnique
  <1>1. Inv => OneTaskWhileUnique
    <2> SUFFICES ASSUME Inv, Unique, NEW t \in TaskId, NEW u \in TaskId,
                        state[t] \in Unfinished, state[u] \in Unfinished,
                        jobOf[t] = jobOf[u], jobOf[t] \notin lockExpired
                 PROVE  t = u
      BY DEF OneTaskWhileUnique
    <2> QED  BY DEF Inv, UnfinishedHoldsLock
  <1> QED  BY <1>1, Invariant, PTL

-----------------------------------------------------------------------------
\* The contract of DeliveryContract.

\* What a step must be shown to be.
ContractStep == [Contract!Next]_(Contract!vars)

\* A step that moves one stored task from one unfinished state to another, or to a
\* finished one, changes the liveness of its job at most.
LEMMA MoveLive ==
    ASSUME TypeOK, NEW t \in TaskId, state[t] # "none", UNCHANGED jobOf,
           \A u \in TaskId \ {t} : state'[u] = state[u]
    PROVE  /\ state[t] \in Unfinished /\ state'[t] \in Unfinished => live' = live
           /\ state[t] \in Unfinished /\ state'[t] \notin Unfinished =>
                  live' \in {live, live \ {jobOf[t]}}
  <1>1. ASSUME state[t] \in Unfinished, state'[t] \in Unfinished
        PROVE  live' = live
    <2>1. \A u \in TaskId : state'[u] \in Unfinished <=> state[u] \in Unfinished
      BY <1>1
    <2> QED  BY <2>1 DEF live
  <1>2. ASSUME state[t] \in Unfinished, state'[t] \notin Unfinished
        PROVE  live' \in {live, live \ {jobOf[t]}}
    <2>1. live = live' \cup {jobOf[t]}
      BY <1>2 DEF live
    <2> QED  BY <2>1
  <1> QED  BY <1>1, <1>2

\* A step the contract does not see.
LEMMA StutterRefines ==
    ASSUME live' = live, UNCHANGED <<jobOf, succeeded, stored, accepted, failed, archivedJobs>>
    PROVE  ContractStep
  BY DEF ContractStep, Contract!vars, delivered

\* A webhook took the job of a task, or asynq learns that it did.
LEMMA DeliverRefines ==
    ASSUME Inv, NEW t \in TaskId, state[t] # "none",
           succeeded' = succeeded \cup {t}, live' \in {live, live \ {jobOf[t]}},
           UNCHANGED <<jobOf, stored, accepted, failed, archivedJobs>>
    PROVE  ContractStep
  <1>1. jobOf[t] \in stored /\ jobOf[t] \in Job
    BY DEF Inv, TypeOK, Recorded
  <1>2. delivered' = delivered \cup {jobOf[t]}
    BY DEF delivered
  <1>3. Contract!Deliver(jobOf[t])
    BY <1>1, <1>2 DEF Contract!Deliver, Contract!MayRetire
  <1> QED  BY <1>1, <1>3 DEF ContractStep, Contract!Next

\* A failed attempt fails the job, or gives it up: since there is at least one
\* retry, a job that is given up has failed before.
LEMMA FailRefines ==
    ASSUME Inv, NEW t \in TaskId, state[t] \in Unfinished, FailAttempt(t),
           UNCHANGED <<jobOf, stored, accepted, succeeded>>
    PROVE  ContractStep
  <1>1. jobOf[t] \in stored /\ jobOf[t] \in Job /\ state[t] # "none"
    BY DEF Inv, TypeOK, Recorded, Unfinished
  <1>2. delivered' = delivered
    BY DEF delivered
  <1>3. /\ failed' = failed \cup {jobOf[t]}
        /\ \A u \in TaskId \ {t} : state'[u] = state[u]
        /\ \/ /\ state'[t] = "archived" /\ retried[t] = EffectiveRetry
              /\ archivedJobs' = archivedJobs \cup {jobOf[t]}
           \/ state'[t] = "retry" /\ archivedJobs' = archivedJobs
    BY <1>1, FailFacts DEF Inv
  <1>4. CASE /\ state'[t] = "archived" /\ retried[t] = EffectiveRetry
             /\ archivedJobs' = archivedJobs \cup {jobOf[t]}
    <2>1. jobOf[t] \in failed /\ failed' = failed
      BY <1>3, <1>4, RetryFacts DEF Inv, Recorded
    <2>2. live' \in {live, live \ {jobOf[t]}}
      BY <1>1, <1>3, <1>4, MoveLive DEF Inv, Unfinished
    <2>3. Contract!Discard(jobOf[t])
      BY <1>2, <1>4, <2>1, <2>2 DEF Contract!Discard, Contract!MayRetire
    <2> QED  BY <1>1, <2>3 DEF ContractStep, Contract!Next
  <1>5. CASE state'[t] = "retry" /\ archivedJobs' = archivedJobs
    <2>1. live' = live
      BY <1>1, <1>3, <1>5, MoveLive DEF Inv, Unfinished
    <2>2. Contract!Fail(jobOf[t])
      BY <1>1, <1>2, <1>3, <1>5, <2>1 DEF Contract!Fail
    <2> QED  BY <1>1, <2>2 DEF ContractStep, Contract!Next
  <1> QED  BY <1>3, <1>4, <1>5

\* A task stored for a job makes it live.
LEMMA StoreRefines ==
    ASSUME Inv, NEW t \in TaskId, NEW j \in Job, NEW scheduled \in BOOLEAN,
           Publish(t, j, scheduled) \/ PublishUnheard(t, j, scheduled)
    PROVE  ContractStep
  <1>1. PICK answered \in BOOLEAN :
            /\ Store(t, j, scheduled) /\ UNCHANGED <<failed, succeeded, archivedJobs>>
            /\ accepted' = IF answered THEN accepted \cup {j} ELSE accepted
    BY DEF Publish, PublishUnheard
  <1>2. /\ state[t] = "none" /\ state'[t] \in {"scheduled", "pending"} /\ jobOf'[t] = j
        /\ \A u \in TaskId \ {t} : state'[u] = state[u] /\ jobOf'[u] = jobOf[u]
        /\ stored' = stored \cup {j}
    BY <1>1, StoreFacts DEF Inv
  <1>3. live' = live \cup {j}
    BY <1>2 DEF live, Unfinished
  <1>4. delivered' = delivered
    <2>1. t \notin succeeded /\ succeeded \subseteq TaskId
      BY <1>2 DEF Inv, Recorded, TypeOK
    <2> QED  BY <1>1, <1>2, <2>1 DEF delivered
  <1>5. Contract!Store(j, answered)
    BY <1>1, <1>2, <1>3, <1>4 DEF Contract!Store
  <1> QED  BY <1>5 DEF ContractStep, Contract!Next

\* Each action of the task path is one of the contract or a stutter.
LEMMA StepRefines == Inv /\ [Next]_vars => ContractStep
  <1> SUFFICES ASSUME Inv, [Next]_vars PROVE ContractStep  OBVIOUS
  <1> USE DEF Quiet, taskVars
  <1>1. ASSUME NEW t \in TaskId, NEW j \in Job, NEW scheduled \in BOOLEAN,
               Publish(t, j, scheduled) \/ PublishUnheard(t, j, scheduled)
        PROVE  ContractStep
    BY <1>1, StoreRefines
  <1>2. ASSUME NEW t \in TaskId, state[t] \in Unfinished, NEW s \in Unfinished, Move(t, s),
               UNCHANGED jobOf
        PROVE  live' = live
    <2>1. state'[t] = s /\ \A u \in TaskId \ {t} : state'[u] = state[u]
      BY <1>2, MoveFacts DEF Inv, State, Unfinished
    <2> QED  BY <1>2, <2>1, MoveLive DEF Inv, Unfinished
  <1>3. ASSUME NEW t \in TaskId, NEW b \in BOOLEAN, Forward(t) \/ Dequeue(t) \/ Requeue(t, b)
        PROVE  ContractStep
    <2>1. live' = live
      BY <1>2, <1>3 DEF Forward, Dequeue, Requeue, Unfinished
    <2> QED  BY <1>3, <2>1, StutterRefines DEF Forward, Dequeue, Requeue
  <1>4. ASSUME NEW t \in TaskId, NotifyOk(t)
        PROVE  ContractStep
    <2>1. live' = live /\ state[t] # "none"
      BY <1>2, <1>4 DEF NotifyOk, Unfinished
    <2> QED  BY <1>4, <2>1, DeliverRefines DEF NotifyOk
  <1>5. ASSUME NEW t \in TaskId, Complete(t)
        PROVE  ContractStep
    <2>1. state[t] = "called" /\ Move(t, "completed") /\ succeeded' = succeeded \cup {t}
      BY <1>5 DEF Complete, Inv, Recorded
    <2>2. state'[t] = "completed" /\ \A u \in TaskId \ {t} : state'[u] = state[u]
      BY <2>1, MoveFacts DEF Inv, State
    <2>3. live' \in {live, live \ {jobOf[t]}}
      BY <1>5, <2>1, <2>2, MoveLive DEF Complete, Inv, Unfinished
    <2> QED  BY <1>5, <2>1, <2>3, DeliverRefines DEF Complete
  <1>6. ASSUME NEW t \in TaskId, NEW b \in BOOLEAN,
               AttemptFails(t) \/ AttemptTimesOut(t) \/ LeaseExpires(t, b)
        PROVE  ContractStep
    <2>1. /\ state[t] \in Unfinished /\ FailAttempt(t)
          /\ UNCHANGED <<jobOf, stored, accepted, succeeded>>
      BY <1>6 DEF AttemptFails, AttemptTimesOut, LeaseExpires, Unfinished
    <2> QED  BY <2>1, FailRefines
  <1>7. ASSUME NEW t \in TaskId, NEW b \in BOOLEAN, OrphanEnds(t, b)
        PROVE  ContractStep
    <2>1. /\ t \in orphans /\ UNCHANGED <<state, jobOf, stored, accepted, failed, archivedJobs>>
          /\ succeeded' = succeeded \/ succeeded' = succeeded \cup {t}
      BY <1>7 DEF OrphanEnds
    <2>2. live' = live /\ state[t] # "none"
      BY <2>1 DEF live, Inv, Recorded
    <2>3. CASE succeeded' = succeeded
      BY <2>1, <2>2, <2>3, StutterRefines
    <2>4. CASE succeeded' = succeeded \cup {t}
      BY <2>1, <2>2, <2>4, DeliverRefines
    <2> QED  BY <2>1, <2>3, <2>4
  <1>8. CASE (\E j \in Job : LockExpires(j)) \/ DeadlinePasses \/ UNCHANGED vars
    <2>1. UNCHANGED <<state, jobOf, succeeded, stored, accepted, failed, archivedJobs>>
      BY <1>8 DEF LockExpires, DeadlinePasses, vars
    <2>2. live' = live
      BY <2>1 DEF live
    <2> QED  BY <2>1, <2>2, StutterRefines
  <1> QED  BY <1>1, <1>3, <1>4, <1>5, <1>6, <1>7, <1>8 DEF Next

\* The task path, with its retries, lost leases, orphans, unheard answers and
\* servers that stop, implements the contract of a job, and never drops one.
THEOREM ContractImplemented == Spec => ImplementsContract
  <1>1. Init => Contract!Init
    BY DEF Init, Contract!Init, live, delivered, Unfinished
  <1>2. Inv /\ [Next]_vars => [Contract!Next]_(Contract!vars)
    BY StepRefines DEF ContractStep
  <1> QED  BY <1>1, <1>2, Invariant, PTL DEF Spec, ImplementsContract, Contract!Spec

-----------------------------------------------------------------------------
\* No job is lost.

\* A contract step loses no job.
LEMMA ContractConserves ==
    Contract!Conservation /\ ContractStep => Contract!Conservation'
  BY DEF Contract!Conservation, ContractStep, Contract!Next, Contract!vars,
         Contract!Outcome, Contract!Store, Contract!Redeliver, Contract!Fail,
         Contract!Deliver, Contract!Discard, Contract!Drop, Contract!MayRetire

\* A job asynq ever stored still has a task that will be worked on, or its webhook
\* took it, or it was archived after its retries.
THEOREM NoLossCorrect == Spec => [](stored \subseteq live \cup Outcome)
  <1>1. Init => Contract!Conservation
    BY DEF Init, Contract!Conservation
  <1>2. Inv /\ Contract!Conservation /\ [Next]_vars => Contract!Conservation'
    BY StepRefines, ContractConserves
  <1>3. Contract!Conservation => stored \subseteq live \cup Outcome
    BY DEF Contract!Conservation, Contract!Outcome, Outcome
  <1> QED  BY <1>1, <1>2, <1>3, Invariant, PTL DEF Spec
=============================================================================
