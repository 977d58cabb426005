----------------------- MODULE PubSubDelivery_proofs -----------------------
(***************************************************************************)
(* Proofs about PubSubDelivery, for any sets of jobs and callbacks and any *)
(* retry and fault limits: types and wrap counts, giving up, duplicates    *)
(* without faults, and the refinement of DeliveryContract.                 *)
(***************************************************************************)
EXTENDS PubSubDelivery, FiniteSetTheorems, TLAPS

-----------------------------------------------------------------------------
\* The inductive invariant, part by part.

\* Only a request whose retries are not used up is waiting for another one, and
\* only one whose retries are used up is being archived.
HeldShape ==
    \A w \in Worker :
        /\ pc[w] \in {"waiting", "republishing"} =>
               held[w].topic = "request" /\ held[w].retry < MaxRetries
        /\ pc[w] = "archiving" =>
               held[w].topic = "request" /\ held[w].retry = MaxRetries

\* What WrapsMatchRetries says of one message.
Balanced(m) ==
    IF m.topic = "request"
      THEN m.wraps = m.retry
      ELSE m.retry = MaxRetries /\ m.wraps = MaxRetries + 1

\* TypeOK needs the other two: without them a wrap count could leave its range.
ShapeInv == TypeOK /\ WrapsMatchRetries /\ HeldShape

-----------------------------------------------------------------------------
\* Storing and taking a message.

\* One more copy of m is available after a Put, and no other message changes.
LEMMA PutFacts ==
    ASSUME NEW q \in [Message -> Nat], NEW m \in Message
    PROVE  /\ Put(q, m) \in [Message -> Nat]
           /\ \A n \in Message : Put(q, m)[n] > 0 <=> (q[n] > 0 \/ n = m)
  BY DEF Put

\* Taking a copy of m leaves no message available that was not.
LEMMA TakeFacts ==
    ASSUME NEW q \in [Message -> Nat], NEW m \in Message, q[m] > 0
    PROVE  /\ [q EXCEPT ![m] = @ - 1] \in [Message -> Nat]
           /\ \A n \in Message : [q EXCEPT ![m] = @ - 1][n] > 0 => q[n] > 0
           /\ \A n \in Message : n # m => [q EXCEPT ![m] = @ - 1][n] = q[n]
  OBVIOUS

\* What the publisher sends is a message.
LEMMA RequestIsMessage ==
    ASSUME NEW j \in Job
    PROVE  /\ Request(j) \in Message
           /\ Request(j).topic = "request" /\ Request(j).job = j
           /\ Request(j).wraps = 0 /\ Request(j).retry = 0
  BY MaxRetriesAssumption DEF Request, Message, Topic

\* A retried request is a request of the same job, one wrap and one retry on.
LEMMA RewrappedIsMessage ==
    ASSUME NEW m \in Message, m.topic = "request", m.wraps = m.retry,
           m.retry < MaxRetries
    PROVE  /\ Rewrapped(m) \in Message
           /\ Rewrapped(m).topic = "request" /\ Rewrapped(m).job = m.job
           /\ Rewrapped(m).wraps = m.wraps + 1
           /\ Rewrapped(m).retry = m.retry + 1
  BY MaxRetriesAssumption DEF Rewrapped, Message, Topic

\* An archived request is a dead letter of the same job.
LEMMA ArchivedIsMessage ==
    ASSUME NEW m \in Message, m.wraps = m.retry, m.retry = MaxRetries
    PROVE  /\ Archived(m) \in Message
           /\ Archived(m).topic = "dead_letter" /\ Archived(m).job = m.job
           /\ Archived(m).wraps = MaxRetries + 1
           /\ Archived(m).retry = MaxRetries
  BY MaxRetriesAssumption DEF Archived, Message, Topic

\* After a restart exactly the messages that were available or leased are
\* available.
LEMMA RestartFacts ==
    ASSUME TypeOK
    PROVE  LET q == [m \in Message |-> queue[m] + CopiesLeased(m)]
           IN  /\ q \in [Message -> Nat]
               /\ \A m \in Message :
                      q[m] > 0 <=> \/ queue[m] > 0
                                   \/ \E w \in Worker : leased[w] /\ held[w] = m
  <1> DEFINE L(m) == {w \in Worker : leased[w] /\ held[w] = m}
  <1>1. ASSUME NEW m \in Message
        PROVE  /\ CopiesLeased(m) \in Nat
               /\ CopiesLeased(m) = 0 <=> L(m) = {}
    <2>1. IsFiniteSet(L(m))
      BY WorkerAssumption, FS_Subset
    <2> QED  BY <2>1, FS_CardinalityType, FS_EmptySet DEF CopiesLeased
  <1>2. queue \in [Message -> Nat]
    BY DEF TypeOK
  <1> QED  BY <1>1, <1>2

-----------------------------------------------------------------------------
\* Type correctness and the wrap count.

\* In the initial state nothing is in the system.
LEMMA ShapeInit == Init => ShapeInv
  <1> SUFFICES ASSUME Init PROVE ShapeInv
    OBVIOUS
  <1>1. TypeOK
    BY MaxFaultsAssumption DEF Init, TypeOK, PC
  <1>2. WrapsMatchRetries /\ HeldShape
    BY NoMessageAssumption DEF Init, WrapsMatchRetries, InSystem, HeldShape
  <1> QED  BY <1>1, <1>2 DEF ShapeInv

\* The message a busy callback holds.
LEMMA HeldFacts ==
    ASSUME ShapeInv, NEW w \in Worker, pc[w] # "idle"
    PROVE  held[w] \in Message /\ Balanced(held[w])
  <1>1. held[w] \in Message
    BY DEF ShapeInv, TypeOK
  <1> QED  BY <1>1 DEF ShapeInv, WrapsMatchRetries, InSystem, Balanced

\* A callback whose request failed goes where HeldShape wants it.
LEMMA AfterFailureFacts ==
    ASSUME NEW m \in Message
    PROVE  /\ AfterFailure(m) \in {"waiting", "archiving"}
           /\ AfterFailure(m) = "waiting" => m.retry < MaxRetries
           /\ AfterFailure(m) = "archiving" => m.retry = MaxRetries
  <1>1. m.retry \in 0 .. MaxRetries
    BY DEF Message
  <1> QED  BY <1>1, MaxRetriesAssumption DEF AfterFailure

\* Storing a balanced message on the way to the Ack keeps the invariant.
LEMMA ForwardedShape ==
    ASSUME ShapeInv, NEW w \in Worker, pc[w] # "idle",
           NEW m \in Message, Balanced(m), Forwarded(w, m)
    PROVE  ShapeInv'
  <1>1. TypeOK'
    BY PutFacts DEF ShapeInv, TypeOK, Forwarded, PC, ghostVars
  <1>2. WrapsMatchRetries'
    <2>1. \A n \in Message : queue'[n] > 0 => queue[n] > 0 \/ n = m
      BY PutFacts DEF ShapeInv, TypeOK, Forwarded
    <2> QED  BY <2>1 DEF ShapeInv, Forwarded, WrapsMatchRetries, InSystem,
                         Balanced
  <1>3. HeldShape'
    BY DEF ShapeInv, TypeOK, Forwarded, HeldShape
  <1> QED  BY <1>1, <1>2, <1>3 DEF ShapeInv

\* So does the failure of the publish, whatever was stored.
LEMMA ForwardFailsShape ==
    ASSUME ShapeInv, NEW w \in Worker, pc[w] # "idle", NEW m \in Message,
           Balanced(m), NEW isStored \in BOOLEAN, ForwardFails(w, m, isStored)
    PROVE  ShapeInv'
  <1> DEFINE q == IF isStored THEN Put(queue, m) ELSE queue
  <1>1. held[w] \in Message /\ Balanced(held[w])
    BY HeldFacts
  <1>2. /\ q \in [Message -> Nat]
        /\ \A n \in Message : q[n] > 0 => queue[n] > 0 \/ n = m
    BY PutFacts DEF ShapeInv, TypeOK
  <1>3. queue' = IF leased[w] THEN Put(q, held[w]) ELSE q
    BY DEF ForwardFails
  <1>4. /\ queue' \in [Message -> Nat]
        /\ \A n \in Message :
               queue'[n] > 0 => queue[n] > 0 \/ n = m \/ n = held[w]
    <2> HIDE DEF q
    <2> QED  BY <1>1, <1>2, <1>3, PutFacts
  <1>5. TypeOK'
    BY <1>4, NoMessageAssumption, MaxFaultsAssumption
    DEF ShapeInv, TypeOK, ForwardFails, Fault, Return, PC, ghostVars
  <1>6. WrapsMatchRetries'
    BY <1>1, <1>4, NoMessageAssumption
    DEF ShapeInv, TypeOK, ForwardFails, Return, WrapsMatchRetries, InSystem,
        Balanced
  <1>7. HeldShape'
    BY DEF ShapeInv, TypeOK, ForwardFails, Return, HeldShape
  <1> QED  BY <1>5, <1>6, <1>7 DEF ShapeInv

\* Every step keeps the shape.
LEMMA ShapeNext == ShapeInv /\ [Next]_vars => ShapeInv'
  <1> SUFFICES ASSUME ShapeInv, [Next]_vars PROVE ShapeInv'
    OBVIOUS
  <1>1. ASSUME NEW j \in Job, Publish(j) PROVE ShapeInv'
    <2>1. Request(j) \in Message /\ Balanced(Request(j))
      BY RequestIsMessage DEF Balanced
    <2>2. /\ queue' \in [Message -> Nat]
          /\ \A n \in Message : queue'[n] > 0 => queue[n] > 0 \/ n = Request(j)
      BY <1>1, <2>1, PutFacts DEF ShapeInv, TypeOK, Publish
    <2>3. TypeOK'
      BY <1>1, <2>2 DEF ShapeInv, TypeOK, Publish
    <2>4. WrapsMatchRetries'
      BY <1>1, <2>1, <2>2
      DEF ShapeInv, Publish, WrapsMatchRetries, InSystem, Balanced
    <2> QED  BY <1>1, <2>3, <2>4 DEF ShapeInv, Publish, HeldShape
  <1>2. ASSUME NEW j \in Job, NEW isStored \in BOOLEAN,
               PublishFails(j, isStored)
        PROVE  ShapeInv'
    <2>1. Request(j) \in Message /\ Balanced(Request(j))
      BY RequestIsMessage DEF Balanced
    <2>2. /\ queue' \in [Message -> Nat]
          /\ \A n \in Message : queue'[n] > 0 => queue[n] > 0 \/ n = Request(j)
      BY <1>2, <2>1, PutFacts DEF ShapeInv, TypeOK, PublishFails
    <2>3. TypeOK'
      BY <1>2, <2>2, MaxFaultsAssumption
      DEF ShapeInv, TypeOK, PublishFails, Fault
    <2>4. WrapsMatchRetries'
      BY <1>2, <2>1, <2>2
      DEF ShapeInv, PublishFails, WrapsMatchRetries, InSystem, Balanced
    <2> QED  BY <1>2, <2>3, <2>4 DEF ShapeInv, PublishFails, HeldShape
  <1>3. ASSUME NEW w \in Worker, NEW m \in Message, Receive(w, m)
        PROVE  ShapeInv'
    <2>1. /\ queue' \in [Message -> Nat]
          /\ \A n \in Message : queue'[n] > 0 => queue[n] > 0
      BY <1>3, TakeFacts DEF ShapeInv, TypeOK, Receive
    <2>2. TypeOK'
      BY <1>3, <2>1, NoMessageAssumption
      DEF ShapeInv, TypeOK, Receive, PC, ghostVars
    <2>3. WrapsMatchRetries'
      BY <1>3, <2>1
      DEF ShapeInv, TypeOK, Receive, WrapsMatchRetries, InSystem
    <2> QED  BY <1>3, <2>2, <2>3 DEF ShapeInv, TypeOK, Receive, HeldShape
  <1>4. ASSUME NEW w \in Worker, DecodeFails(w) PROVE ShapeInv'
    <2>1. held[w] \in Message
      BY <1>4, HeldFacts DEF DecodeFails
    <2>2. TypeOK'
      BY <1>4, <2>1, AfterFailureFacts
      DEF ShapeInv, TypeOK, DecodeFails, PC, brokerVars, ghostVars
    <2>3. HeldShape'
      BY <1>4, <2>1, AfterFailureFacts
      DEF ShapeInv, TypeOK, DecodeFails, HeldShape, brokerVars
    <2> QED  BY <1>4, <2>2, <2>3
             DEF ShapeInv, DecodeFails, WrapsMatchRetries, InSystem, brokerVars
  <1>5. ASSUME NEW w \in Worker, NotifyOk(w) PROVE ShapeInv'
    <2>1. held[w] \in Message /\ held[w].job \in Job
      BY <1>5, HeldFacts DEF NotifyOk, Message
    <2>2. TypeOK'
      BY <1>5, <2>1 DEF ShapeInv, TypeOK, NotifyOk, PC, brokerVars
    <2>3. HeldShape'
      BY <1>5 DEF ShapeInv, TypeOK, NotifyOk, HeldShape, brokerVars
    <2> QED  BY <1>5, <2>2, <2>3
             DEF ShapeInv, NotifyOk, WrapsMatchRetries, InSystem, brokerVars
  <1>6. ASSUME NEW w \in Worker, NotifyFails(w) PROVE ShapeInv'
    <2>1. held[w] \in Message /\ held[w].job \in Job
      BY <1>6, HeldFacts DEF NotifyFails, Message
    <2>2. TypeOK'
      BY <1>6, <2>1, AfterFailureFacts
      DEF ShapeInv, TypeOK, NotifyFails, PC, brokerVars
    <2>3. HeldShape'
      BY <1>6, <2>1, AfterFailureFacts
      DEF ShapeInv, TypeOK, NotifyFails, HeldShape, brokerVars
    <2> QED  BY <1>6, <2>2, <2>3
             DEF ShapeInv, NotifyFails, WrapsMatchRetries, InSystem, brokerVars
  <1>7. ASSUME NEW w \in Worker, HandleDeadLetter(w) PROVE ShapeInv'
    <2>1. held[w] \in Message /\ held[w].job \in Job
      BY <1>7, HeldFacts DEF HandleDeadLetter, Message
    <2>2. TypeOK'
      BY <1>7, <2>1 DEF ShapeInv, TypeOK, HandleDeadLetter, PC, brokerVars
    <2>3. HeldShape'
      BY <1>7 DEF ShapeInv, TypeOK, HandleDeadLetter, HeldShape, brokerVars
    <2> QED  BY <1>7, <2>2, <2>3
             DEF ShapeInv, HandleDeadLetter, WrapsMatchRetries, InSystem,
                 brokerVars
  <1>8. ASSUME NEW w \in Worker, WaitElapsed(w) PROVE ShapeInv'
    <2>1. TypeOK'
      BY <1>8 DEF ShapeInv, TypeOK, WaitElapsed, PC, brokerVars, ghostVars
    <2>2. HeldShape'
      BY <1>8 DEF ShapeInv, TypeOK, WaitElapsed, HeldShape, brokerVars
    <2> QED  BY <1>8, <2>1, <2>2
             DEF ShapeInv, WaitElapsed, WrapsMatchRetries, InSystem, brokerVars
  <1>9. ASSUME NEW w \in Worker, WaitCancelled(w) PROVE ShapeInv'
    <2>1. held[w] \in Message /\ held[w].job \in Job
      BY <1>9, HeldFacts DEF WaitCancelled, Message
    <2>2. TypeOK'
      BY <1>9, <2>1, NoMessageAssumption
      DEF ShapeInv, TypeOK, WaitCancelled, Return, PC
    <2>3. WrapsMatchRetries'
      BY <1>9, NoMessageAssumption
      DEF ShapeInv, TypeOK, WaitCancelled, Return, WrapsMatchRetries, InSystem
    <2> QED  BY <1>9, <2>2, <2>3
             DEF ShapeInv, TypeOK, WaitCancelled, Return, HeldShape
  <1>10. ASSUME NEW w \in Worker, Republish(w) PROVE ShapeInv'
    <2>1. /\ pc[w] # "idle"
          /\ held[w].topic = "request" /\ held[w].retry < MaxRetries
      BY <1>10 DEF Republish, ShapeInv, HeldShape
    <2>2. held[w] \in Message /\ held[w].wraps = held[w].retry
      BY <2>1, HeldFacts DEF Balanced
    <2>3. Rewrapped(held[w]) \in Message /\ Balanced(Rewrapped(held[w]))
      BY <2>1, <2>2, RewrappedIsMessage DEF Balanced
    <2> QED
      BY <1>10, <2>1, <2>3, ForwardedShape, ForwardFailsShape DEF Republish
  <1>11. ASSUME NEW w \in Worker, Archive(w) PROVE ShapeInv'
    <2>1. /\ pc[w] # "idle"
          /\ held[w].topic = "request" /\ held[w].retry = MaxRetries
      BY <1>11 DEF Archive, ShapeInv, HeldShape
    <2>2. held[w] \in Message /\ held[w].wraps = held[w].retry
      BY <2>1, HeldFacts DEF Balanced
    <2>3. Archived(held[w]) \in Message /\ Balanced(Archived(held[w]))
      BY <2>1, <2>2, ArchivedIsMessage DEF Balanced
    <2> QED  BY <1>11, <2>1, <2>3, ForwardedShape, ForwardFailsShape DEF Archive
  <1>12. ASSUME NEW w \in Worker, Ack(w) PROVE ShapeInv'
    <2>1. TypeOK'
      BY <1>12, NoMessageAssumption
      DEF ShapeInv, TypeOK, Ack, Return, PC, ghostVars
    <2>2. WrapsMatchRetries'
      BY <1>12, NoMessageAssumption
      DEF ShapeInv, TypeOK, Ack, Return, WrapsMatchRetries, InSystem
    <2> QED  BY <1>12, <2>1, <2>2 DEF ShapeInv, TypeOK, Ack, Return, HeldShape
  <1>13. ASSUME NEW w \in Worker, LeaseExpires(w) PROVE ShapeInv'
    <2>1. held[w] \in Message
      BY <1>13 DEF ShapeInv, TypeOK, LeaseExpires
    <2>2. /\ queue' \in [Message -> Nat]
          /\ \A n \in Message : queue'[n] > 0 => queue[n] > 0 \/ n = held[w]
      BY <1>13, <2>1, PutFacts DEF ShapeInv, TypeOK, LeaseExpires
    <2>3. TypeOK'
      BY <1>13, <2>2, MaxFaultsAssumption
      DEF ShapeInv, TypeOK, LeaseExpires, Fault, ghostVars
    <2>4. WrapsMatchRetries'
      BY <1>13, <2>2 DEF ShapeInv, LeaseExpires, WrapsMatchRetries, InSystem
    <2> QED  BY <1>13, <2>3, <2>4 DEF ShapeInv, LeaseExpires, HeldShape
  <1>14. ASSUME NEW t \in Topic, ReceiveFails(t) PROVE ShapeInv'
    <2>1. TypeOK'
      BY <1>14, MaxFaultsAssumption
      DEF ShapeInv, TypeOK, ReceiveFails, Fault, ghostVars
    <2> QED  BY <1>14, <2>1
             DEF ShapeInv, ReceiveFails, WrapsMatchRetries, InSystem, HeldShape
  <1>15. ASSUME Restart PROVE ShapeInv'
    <2>1. /\ queue' \in [Message -> Nat]
          /\ \A n \in Message : queue'[n] > 0 => InSystem(n)
      BY <1>15, RestartFacts DEF ShapeInv, Restart, InSystem
    <2>2. TypeOK'
      BY <1>15, <2>1, MaxFaultsAssumption
      DEF ShapeInv, TypeOK, Restart, Fault, PC, ghostVars
    <2>3. WrapsMatchRetries'
      BY <1>15, <2>1, NoMessageAssumption
      DEF ShapeInv, Restart, WrapsMatchRetries, InSystem
    <2> QED  BY <1>15, <2>2, <2>3 DEF ShapeInv, Restart, HeldShape
  <1>16. CASE UNCHANGED vars
    BY <1>16 DEF vars, ShapeInv, TypeOK, WrapsMatchRetries, InSystem, HeldShape
  <1> QED
    BY <1>1, <1>2, <1>3, <1>4, <1>5, <1>6, <1>7, <1>8, <1>9, <1>10, <1>11,
       <1>12, <1>13, <1>14, <1>15, <1>16 DEF Next, Step

\* The invariant holds throughout.
LEMMA ShapeInvariant == Spec => []ShapeInv
  BY ShapeInit, ShapeNext, PTL DEF Spec

\* Type correctness: in particular no counter of a message leaves its range.
THEOREM TypeCorrect == Spec => []TypeOK
  <1>1. ShapeInv => TypeOK
    BY DEF ShapeInv
  <1> QED  BY <1>1, ShapeInvariant, PTL

\* Every message was wrapped once per retry, and what is in the dead-letter
\* topic has used up its retries, in any interleaving of callbacks and faults.
THEOREM WrapsCorrect == Spec => []WrapsMatchRetries
  <1>1. ShapeInv => WrapsMatchRetries
    BY DEF ShapeInv
  <1> QED  BY <1>1, ShapeInvariant, PTL

-----------------------------------------------------------------------------
\* What the history variables say of the messages.

\* A message that is in the system was stored, one that is wrapped carries a job
\* that failed, and so does one that is about to be wrapped.
Remembered ==
    /\ \A m \in Message : InSystem(m) =>
           m.job \in stored /\ (m.wraps > 0 => m.job \in failed)
    /\ \A w \in Worker : pc[w] \in {"waiting", "republishing", "archiving"} =>
           held[w].job \in failed

\* GivenUpOnlyAfterFailure with the facts that make it inductive.
GhostInv ==
    /\ accepted \subseteq stored
    /\ failed \subseteq stored
    /\ delivered \subseteq stored
    /\ Remembered
    /\ GivenUpOnlyAfterFailure

\* A message that a step brings into the system is a request just published or
\* the wrapped form of one whose callback is forwarding it.
LEMMA WhereMessagesComeFrom ==
    ASSUME ShapeInv, Next, NEW n \in Message, InSystem(n)'
    PROVE  \/ InSystem(n)
           \/ n.job \in stored' /\ n.wraps = 0
           \/ \E w \in Worker : /\ pc[w] \in {"republishing", "archiving"}
                                 /\ n.job = held[w].job
  <1> DEFINE New == \/ n.job \in stored' /\ n.wraps = 0
                    \/ \E w \in Worker :
                           /\ pc[w] \in {"republishing", "archiving"}
                           /\ n.job = held[w].job
  <1> USE NoMessageAssumption
  <1>1. ASSUME NEW j \in Job, Publish(j) PROVE InSystem(n) \/ New
    BY <1>1, RequestIsMessage, PutFacts DEF ShapeInv, TypeOK, Publish, InSystem
  <1>2. ASSUME NEW j \in Job, NEW isStored \in BOOLEAN,
               PublishFails(j, isStored)
        PROVE  InSystem(n) \/ New
    BY <1>2, RequestIsMessage, PutFacts
    DEF ShapeInv, TypeOK, PublishFails, InSystem
  <1>3. ASSUME NEW w \in Worker, NEW m \in Message, Receive(w, m)
        PROVE  InSystem(n)
    BY <1>3, TakeFacts DEF ShapeInv, TypeOK, Receive, InSystem
  <1>4. ASSUME NEW w \in Worker, DecodeFails(w) \/ NotifyOk(w) \/ NotifyFails(w)
                   \/ HandleDeadLetter(w) \/ WaitElapsed(w)
        PROVE  InSystem(n)
    BY <1>4 DEF DecodeFails, NotifyOk, NotifyFails, HandleDeadLetter,
                WaitElapsed, InSystem, brokerVars
  <1>5. ASSUME NEW w \in Worker, WaitCancelled(w) \/ Ack(w) PROVE InSystem(n)
    BY <1>5 DEF ShapeInv, TypeOK, WaitCancelled, Ack, Return, InSystem
  <1>6. ASSUME NEW w \in Worker, NEW m \in Message, m.job = held[w].job,
               pc[w] \in {"republishing", "archiving"},
               \/ Forwarded(w, m)
               \/ \E isStored \in BOOLEAN : ForwardFails(w, m, isStored)
        PROVE  InSystem(n) \/ New
    <2>1. held[w] \in Message
      BY <1>6, HeldFacts
    <2>2. CASE Forwarded(w, m)
      BY <1>6, <2>2, PutFacts DEF ShapeInv, TypeOK, Forwarded, InSystem
    <2>3. ASSUME NEW isStored \in BOOLEAN, ForwardFails(w, m, isStored)
          PROVE  InSystem(n) \/ New
      <3> DEFINE q == IF isStored THEN Put(queue, m) ELSE queue
      <3>1. q \in [Message -> Nat] /\ (q[n] > 0 => queue[n] > 0 \/ n = m)
        BY PutFacts DEF ShapeInv, TypeOK
      <3>2. queue' = IF leased[w] THEN Put(q, held[w]) ELSE q
        BY <2>3 DEF ForwardFails
      <3>3. queue'[n] > 0 => queue[n] > 0 \/ n = m \/ n = held[w]
        <4> HIDE DEF q
        <4> QED  BY <2>1, <3>1, <3>2, PutFacts
      <3> QED  BY <1>6, <2>3, <3>3
               DEF ShapeInv, TypeOK, ForwardFails, Return, InSystem
    <2> QED  BY <1>6, <2>2, <2>3
  <1>7. ASSUME NEW w \in Worker, Republish(w) PROVE InSystem(n) \/ New
    <2>1. /\ pc[w] = "republishing"
          /\ held[w].topic = "request" /\ held[w].retry < MaxRetries
      BY <1>7 DEF Republish, ShapeInv, HeldShape
    <2>2. held[w] \in Message /\ held[w].wraps = held[w].retry
      BY <2>1, HeldFacts DEF Balanced
    <2>3. Rewrapped(held[w]) \in Message /\ Rewrapped(held[w]).job = held[w].job
      BY <2>1, <2>2, RewrappedIsMessage
    <2> QED  BY <1>6, <1>7, <2>1, <2>3 DEF Republish
  <1>8. ASSUME NEW w \in Worker, Archive(w) PROVE InSystem(n) \/ New
    <2>1. /\ pc[w] = "archiving"
          /\ held[w].topic = "request" /\ held[w].retry = MaxRetries
      BY <1>8 DEF Archive, ShapeInv, HeldShape
    <2>2. held[w] \in Message /\ held[w].wraps = held[w].retry
      BY <2>1, HeldFacts DEF Balanced
    <2>3. Archived(held[w]) \in Message /\ Archived(held[w]).job = held[w].job
      BY <2>1, <2>2, ArchivedIsMessage
    <2> QED  BY <1>6, <1>8, <2>1, <2>3 DEF Archive
  <1>9. ASSUME NEW w \in Worker, LeaseExpires(w) PROVE InSystem(n)
    <2>1. held[w] \in Message
      BY <1>9 DEF ShapeInv, TypeOK, LeaseExpires
    <2> QED
      BY <1>9, <2>1, PutFacts DEF ShapeInv, TypeOK, LeaseExpires, InSystem
  <1>10. ASSUME NEW t \in Topic, ReceiveFails(t) PROVE InSystem(n)
    BY <1>10 DEF ReceiveFails, InSystem
  <1>11. ASSUME Restart PROVE InSystem(n)
    BY <1>11, RestartFacts DEF ShapeInv, Restart, InSystem
  <1> QED
    BY <1>1, <1>2, <1>3, <1>4, <1>5, <1>7, <1>8, <1>9, <1>10, <1>11
    DEF Next, Step

\* Initially nothing is remembered and nothing is in the system.
LEMMA GhostInit == Init => GhostInv
  BY NoMessageAssumption
  DEF Init, GhostInv, Remembered, InSystem, GivenUpOnlyAfterFailure

\* A callback that holds a message holds one that was stored.
LEMMA HeldIsStored ==
    ASSUME ShapeInv, GhostInv, NEW w \in Worker, pc[w] # "idle"
    PROVE  /\ held[w] \in Message /\ Balanced(held[w])
           /\ held[w].job \in stored
           /\ held[w].wraps > 0 => held[w].job \in failed
  BY HeldFacts DEF GhostInv, Remembered, InSystem

\* No job is forgotten, whatever the step.
LEMMA HistoryGrows ==
    Next => /\ stored \subseteq stored' /\ accepted \subseteq accepted'
            /\ failed \subseteq failed' /\ delivered \subseteq delivered'
            /\ discarded \subseteq discarded' /\ dropped \subseteq dropped'
  BY DEF Next, Step, Publish, PublishFails, Receive, DecodeFails, NotifyOk,
         NotifyFails, HandleDeadLetter, WaitElapsed, WaitCancelled, Republish,
         Archive, Forwarded, ForwardFails, Ack, LeaseExpires, ReceiveFails,
         Restart, ghostVars

\* Every step keeps what is remembered true.
LEMMA GhostNext == ShapeInv /\ GhostInv /\ [Next]_vars => GhostInv'
  <1> SUFFICES ASSUME ShapeInv, GhostInv, Next PROVE GhostInv'
    BY DEF vars, GhostInv, Remembered, InSystem, GivenUpOnlyAfterFailure
  <1>1. \A m \in Message : InSystem(m)' =>
            m.job \in stored' /\ (m.wraps > 0 => m.job \in failed')
    <2> TAKE m \in Message
    <2> HAVE InSystem(m)'
    <2>1. CASE InSystem(m)
      BY <2>1, HistoryGrows DEF GhostInv, Remembered
    <2>2. CASE m.job \in stored' /\ m.wraps = 0
      BY <2>2
    <2>3. ASSUME NEW w \in Worker, pc[w] \in {"republishing", "archiving"},
                 m.job = held[w].job
          PROVE  m.job \in stored' /\ m.job \in failed'
      BY <2>3, HistoryGrows DEF GhostInv, Remembered
    <2> QED  BY <2>1, <2>2, <2>3, WhereMessagesComeFrom
  <1>2. ASSUME NEW w \in Worker,
               pc'[w] \in {"waiting", "republishing", "archiving"}
        PROVE  held'[w].job \in failed'
    <2>1. CASE pc'[w] = pc[w] /\ held'[w] = held[w]
      BY <1>2, <2>1, HistoryGrows DEF GhostInv, Remembered
    <2>2. CASE DecodeFails(w)
      <3>1. held[w] \in Message /\ held[w].wraps \in Nat /\ held[w].wraps # 0
        BY <2>2, HeldFacts, MaxRetriesAssumption
        DEF DecodeFails, Decodes, Message
      <3> QED  BY <2>2, <3>1, HeldIsStored, HistoryGrows
               DEF DecodeFails, brokerVars
    <2>3. CASE NotifyFails(w)
      BY <2>3 DEF NotifyFails, brokerVars
    <2>4. CASE WaitElapsed(w)
      BY <2>4, HistoryGrows DEF WaitElapsed, brokerVars, GhostInv, Remembered
    <2> QED
      BY <1>2, <2>1, <2>2, <2>3, <2>4
      DEF ShapeInv, TypeOK, Next, Step, Publish, PublishFails, Receive,
          DecodeFails, NotifyOk, NotifyFails, HandleDeadLetter, WaitElapsed,
          WaitCancelled, Republish, Archive, Forwarded, ForwardFails, Ack,
          Return, LeaseExpires, ReceiveFails, Restart, brokerVars
  <1>3. accepted' \subseteq stored'
    BY HistoryGrows
    DEF GhostInv, Next, Step, Publish, PublishFails, Receive, DecodeFails,
        NotifyOk, NotifyFails, HandleDeadLetter, WaitElapsed, WaitCancelled,
        Republish, Archive, Forwarded, ForwardFails, Ack, LeaseExpires,
        ReceiveFails, Restart, ghostVars
  <1>4. failed' \subseteq stored' /\ delivered' \subseteq stored'
    <2>1. ASSUME NEW w \in Worker, NotifyOk(w) \/ NotifyFails(w)
          PROVE  failed' \subseteq stored' /\ delivered' \subseteq stored'
      BY <2>1, HeldIsStored DEF GhostInv, NotifyOk, NotifyFails
    <2> QED
      BY <2>1, HistoryGrows
      DEF GhostInv, Next, Step, Publish, PublishFails, Receive, DecodeFails,
          HandleDeadLetter, WaitElapsed, WaitCancelled, Republish, Archive,
          Forwarded, ForwardFails, Ack, LeaseExpires, ReceiveFails, Restart,
          ghostVars
  <1>5. GivenUpOnlyAfterFailure'
    <2>1. ASSUME NEW w \in Worker, HandleDeadLetter(w)
          PROVE  GivenUpOnlyAfterFailure'
      <3>1. held[w].wraps > 0
        BY <2>1, HeldIsStored, MaxRetriesAssumption
        DEF HandleDeadLetter, Balanced
      <3> QED  BY <2>1, <3>1, HeldIsStored
               DEF HandleDeadLetter, GhostInv, GivenUpOnlyAfterFailure
    <2>2. ASSUME NEW w \in Worker, WaitCancelled(w)
          PROVE  GivenUpOnlyAfterFailure'
      BY <2>2 DEF WaitCancelled, GhostInv, Remembered, GivenUpOnlyAfterFailure
    <2> QED
      BY <2>1, <2>2, HistoryGrows
      DEF GhostInv, GivenUpOnlyAfterFailure, Next, Step, Publish, PublishFails,
          Receive, DecodeFails, NotifyOk, NotifyFails, WaitElapsed, Republish,
          Archive, Forwarded, ForwardFails, Ack, LeaseExpires, ReceiveFails,
          Restart, ghostVars
  <1> QED  BY <1>1, <1>2, <1>3, <1>4, <1>5 DEF GhostInv, Remembered

\* Both parts hold throughout.
LEMMA GhostInvariant == Spec => [](ShapeInv /\ GhostInv)
  <1>1. Init => ShapeInv /\ GhostInv
    BY ShapeInit, GhostInit
  <1>2. ShapeInv /\ GhostInv /\ [Next]_vars => (ShapeInv /\ GhostInv)'
    BY ShapeNext, GhostNext
  <1> QED  BY <1>1, <1>2, PTL DEF Spec

\* No job is given up by the dead-letter handler or a stopping callback unless a
\* call to its webhook failed, for any number of jobs, callbacks and faults.
THEOREM GivenUpCorrect == Spec => []GivenUpOnlyAfterFailure
  <1>1. ShapeInv /\ GhostInv => GivenUpOnlyAfterFailure
    BY DEF GhostInv
  <1> QED  BY <1>1, GhostInvariant, PTL

-----------------------------------------------------------------------------
(* Without faults a job never has two copies that are worked on, and none once *)
(* it has an outcome.                                                          *)

\* The callback may still call the webhook or forward its message.
Undecided(w) == pc[w] \notin {"idle", "acking"}

\* A job has one copy at most, available or in the hands of an undecided callback,
\* and none when it has an outcome.
SingleCopy ==
    /\ \A m \in Message : queue[m] <= 1
    /\ \A m, n \in Message : queue[m] > 0 /\ queue[n] > 0 /\ m.job = n.job => m = n
    /\ \A m \in Message, w \in Worker :
           queue[m] > 0 /\ Undecided(w) => held[w].job # m.job
    /\ \A v, w \in Worker :
           Undecided(v) /\ Undecided(w) /\ held[v].job = held[w].job => v = w
    /\ \A m \in Message : queue[m] > 0 => m.job \notin Outcome
    /\ \A w \in Worker : Undecided(w) => held[w].job \notin Outcome

\* What is stored is known to its publisher, so nobody publishes it again.
Undisturbed == faults = 0 => SingleCopy /\ stored \subseteq accepted

CopiesInv == ShapeInv /\ GhostInv /\ Undisturbed

-----------------------------------------------------------------------------
\* The steps without faults.

\* The publish of a job that was not stored before.
LEMMA PublishSingle ==
    ASSUME ShapeInv, GhostInv, SingleCopy, stored \subseteq accepted, NEW j \in Job, Publish(j)
    PROVE  SingleCopy' /\ stored' \subseteq accepted'
  <1>1. /\ Request(j) \in Message /\ Request(j).job = j
        /\ \A n \in Message : queue'[n] > 0 <=> queue[n] > 0 \/ n = Request(j)
        /\ \A n \in Message : n # Request(j) => queue'[n] = queue[n]
        /\ queue'[Request(j)] = queue[Request(j)] + 1
    BY RequestIsMessage, PutFacts DEF ShapeInv, TypeOK, Publish, Put
  <1>2. j \notin stored /\ j \notin Outcome
    BY DEF Publish, GhostInv, GivenUpOnlyAfterFailure, Outcome
  <1>3. /\ \A m \in Message : queue[m] > 0 => m.job # j
        /\ \A w \in Worker : Undecided(w) => held[w].job # j
    BY <1>2, HeldIsStored DEF GhostInv, Remembered, InSystem, Undecided
  <1>4. queue[Request(j)] = 0
    BY <1>1, <1>3 DEF ShapeInv, TypeOK
  <1>5. UNCHANGED <<pc, held, Outcome>>
    BY DEF Publish, Outcome
  <1>6. SingleCopy'
    BY <1>1, <1>2, <1>3, <1>4, <1>5 DEF SingleCopy, Undecided
  <1> QED  BY <1>6 DEF Publish

\* A callback gets the copy of a job, the only one.
LEMMA ReceiveSingle ==
    ASSUME ShapeInv, SingleCopy, NEW w \in Worker, NEW m \in Message, Receive(w, m)
    PROVE  SingleCopy'
  <1>1. /\ queue[m] = 1 /\ queue'[m] = 0
        /\ \A n \in Message : n # m => queue'[n] = queue[n]
    BY DEF Receive, SingleCopy, ShapeInv, TypeOK
  <1>2. /\ held'[w] = m /\ ~Undecided(w)
        /\ \A v \in Worker \ {w} : held'[v] = held[v] /\ pc'[v] = pc[v]
    BY DEF Receive, Undecided, ShapeInv, TypeOK
  <1>3. UNCHANGED Outcome
    BY DEF Receive, ghostVars, Outcome
  <1> QED  BY <1>1, <1>2, <1>3 DEF SingleCopy, Undecided

\* A callback goes on with its message.
LEMMA UndecidedSingle ==
    ASSUME ShapeInv, SingleCopy, NEW w \in Worker, Undecided(w),
           UNCHANGED <<queue, held, Outcome>>, pc' = [pc EXCEPT ![w] = pc'[w]]
    PROVE  SingleCopy'
  <1>1. \A v \in Worker : Undecided(v)' => Undecided(v)
    BY DEF Undecided, ShapeInv, TypeOK
  <1> QED  BY <1>1 DEF SingleCopy, Undecided

\* A callback decides, and its job may get an outcome.
LEMMA DecidedSingle ==
    ASSUME ShapeInv, SingleCopy, NEW w \in Worker, Undecided(w), ~Undecided(w)',
           UNCHANGED queue, \A v \in Worker \ {w} : pc'[v] = pc[v] /\ held'[v] = held[v],
           Outcome' \subseteq Outcome \cup {held[w].job}
    PROVE  SingleCopy'
  <1>1. \A v \in Worker : Undecided(v)' => v # w /\ Undecided(v) /\ held'[v] = held[v]
    BY DEF Undecided
  <1> QED  BY <1>1 DEF SingleCopy, Undecided

\* A callback hands its copy back in another form.
LEMMA ForwardedSingle ==
    ASSUME ShapeInv, SingleCopy, NEW w \in Worker, Undecided(w),
           NEW m \in Message, m.job = held[w].job, Forwarded(w, m)
    PROVE  SingleCopy'
  <1>1. /\ \A n \in Message : queue'[n] > 0 <=> queue[n] > 0 \/ n = m
        /\ \A n \in Message : n # m => queue'[n] = queue[n]
        /\ queue'[m] = queue[m] + 1
    BY PutFacts DEF ShapeInv, TypeOK, Forwarded, Put
  <1>2. queue[m] = 0
    BY DEF SingleCopy, ShapeInv, TypeOK
  <1>3. \A v \in Worker : Undecided(v)' => v # w /\ Undecided(v) /\ held'[v] = held[v]
    BY DEF Forwarded, Undecided, ShapeInv, TypeOK
  <1>4. UNCHANGED Outcome
    BY DEF Forwarded, ghostVars, Outcome
  <1> QED  BY <1>1, <1>2, <1>3, <1>4 DEF SingleCopy, Undecided

\* Each step of a callback, without a fault, leaves one copy at most.
LEMMA StepSingle ==
    ASSUME ShapeInv, GhostInv, SingleCopy, NEW w \in Worker, Step(w), faults' = faults
    PROVE  SingleCopy'
  <1> USE DEF brokerVars, ghostVars
  <1>1. faults \in Nat
    BY MaxFaultsAssumption DEF ShapeInv, TypeOK
  <1>2. CASE DecodeFails(w) \/ NotifyFails(w) \/ WaitElapsed(w)
    <2>1. /\ Undecided(w) /\ pc' = [pc EXCEPT ![w] = pc'[w]]
          /\ UNCHANGED <<queue, held, delivered, discarded, dropped>>
      BY <1>2 DEF DecodeFails, NotifyFails, WaitElapsed, Undecided, ShapeInv, TypeOK
    <2> QED  BY <2>1, UndecidedSingle DEF Outcome
  <1>3. CASE NotifyOk(w) \/ HandleDeadLetter(w)
    <2>1. /\ Undecided(w) /\ pc' = [pc EXCEPT ![w] = "acking"] /\ UNCHANGED <<queue, held>>
          /\ Outcome' \subseteq Outcome \cup {held[w].job}
      BY <1>3 DEF NotifyOk, HandleDeadLetter, Undecided, Outcome
    <2>2. ~Undecided(w)' /\ \A v \in Worker \ {w} : pc'[v] = pc[v] /\ held'[v] = held[v]
      BY <2>1 DEF Undecided, ShapeInv, TypeOK
    <2> QED  BY <2>1, <2>2, DecidedSingle
  <1>4. CASE WaitCancelled(w)
    <2>1. /\ Undecided(w) /\ Return(w) /\ UNCHANGED queue
          /\ Outcome' \subseteq Outcome \cup {held[w].job}
      BY <1>4 DEF WaitCancelled, Undecided, Outcome
    <2>2. ~Undecided(w)' /\ \A v \in Worker \ {w} : pc'[v] = pc[v] /\ held'[v] = held[v]
      BY <2>1 DEF Return, Undecided, ShapeInv, TypeOK
    <2> QED  BY <2>1, <2>2, DecidedSingle
  <1>5. ASSUME NEW m \in Message, NEW b \in BOOLEAN, ForwardFails(w, m, b)
        PROVE  FALSE
    BY <1>1, <1>5 DEF ForwardFails, Fault
  <1>6. CASE Republish(w)
    <2>1. Undecided(w) /\ held[w].topic = "request" /\ held[w].retry < MaxRetries
      BY <1>6 DEF Republish, Undecided, ShapeInv, HeldShape
    <2>2. held[w] \in Message /\ held[w].wraps = held[w].retry
      BY <2>1, HeldFacts DEF Undecided, Balanced
    <2>3. Rewrapped(held[w]) \in Message /\ Rewrapped(held[w]).job = held[w].job
      BY <2>1, <2>2, RewrappedIsMessage
    <2>4. Forwarded(w, Rewrapped(held[w]))
      BY <1>5, <1>6, <2>3 DEF Republish
    <2> QED  BY <2>1, <2>3, <2>4, ForwardedSingle
  <1>7. CASE Archive(w)
    <2>1. Undecided(w) /\ held[w].topic = "request" /\ held[w].retry = MaxRetries
      BY <1>7 DEF Archive, Undecided, ShapeInv, HeldShape
    <2>2. held[w] \in Message /\ held[w].wraps = held[w].retry
      BY <2>1, HeldFacts DEF Undecided, Balanced
    <2>3. Archived(held[w]) \in Message /\ Archived(held[w]).job = held[w].job
      BY <2>1, <2>2, ArchivedIsMessage
    <2>4. Forwarded(w, Archived(held[w]))
      BY <1>5, <1>7, <2>3 DEF Archive
    <2> QED  BY <2>1, <2>3, <2>4, ForwardedSingle
  <1>8. CASE Ack(w)
    <2>1. \A v \in Worker : Undecided(v)' => Undecided(v) /\ held'[v] = held[v]
      BY <1>8 DEF Ack, Return, Undecided, ShapeInv, TypeOK
    <2>2. UNCHANGED <<queue, Outcome>>
      BY <1>8 DEF Ack, Outcome
    <2> QED  BY <2>1, <2>2 DEF SingleCopy
  <1> QED  BY <1>2, <1>3, <1>4, <1>6, <1>7, <1>8 DEF Step

-----------------------------------------------------------------------------
\* The invariant, and what follows from it.

LEMMA UndisturbedNext == CopiesInv /\ [Next]_vars => Undisturbed'
  <1> SUFFICES ASSUME CopiesInv, [Next]_vars, faults' = 0
               PROVE  SingleCopy' /\ stored' \subseteq accepted'
    BY DEF Undisturbed
  <1> USE DEF CopiesInv
  <1>1. faults \in Nat /\ (Fault => faults' > 0)
    BY MaxFaultsAssumption DEF ShapeInv, TypeOK, Fault
  <1>2. ~Fault
    BY <1>1
  <1>3. CASE UNCHANGED vars
    BY <1>3 DEF vars, Undisturbed, SingleCopy, Undecided, Outcome
  <1>4. ASSUME faults' = faults
        PROVE  SingleCopy /\ stored \subseteq accepted
    BY <1>4 DEF Undisturbed
  <1>5. ASSUME NEW j \in Job, Publish(j)
        PROVE  SingleCopy' /\ stored' \subseteq accepted'
    BY <1>4, <1>5, PublishSingle DEF Publish
  <1>6. ASSUME NEW w \in Worker, NEW m \in Message, Receive(w, m)
        PROVE  SingleCopy' /\ stored' \subseteq accepted'
    BY <1>4, <1>6, ReceiveSingle DEF Receive, ghostVars
  <1>7. ASSUME NEW w \in Worker, Step(w)
        PROVE  SingleCopy' /\ stored' \subseteq accepted'
    <2>1. faults' = faults /\ UNCHANGED <<stored, accepted>>
      BY <1>2, <1>7 DEF Step, DecodeFails, NotifyOk, NotifyFails, HandleDeadLetter, WaitElapsed,
                        WaitCancelled, Republish, Archive, Forwarded, ForwardFails, Ack, ghostVars
    <2> QED  BY <1>4, <1>7, <2>1, StepSingle
  <1>8. ASSUME \/ \E j \in Job, isStored \in BOOLEAN : PublishFails(j, isStored)
               \/ \E w \in Worker : LeaseExpires(w)
               \/ \E t \in Topic : ReceiveFails(t)
               \/ Restart
        PROVE  FALSE
    BY <1>2, <1>8 DEF PublishFails, LeaseExpires, ReceiveFails, Restart
  <1> QED  BY <1>3, <1>5, <1>6, <1>7, <1>8 DEF Next

LEMMA UndisturbedInit == Init => Undisturbed
  BY DEF Init, Undisturbed, SingleCopy, Undecided, Outcome

\* Without faults a job that was delivered, given up or dropped has no copy left
\* that would call its webhook again: each of its callbacks hands its copy back
\* before it acknowledges, and only then, in any interleaving of any number of
\* callbacks.
THEOREM NoWorkCorrect == Spec => []NoWorkAfterOutcome
  <1>1. Init => CopiesInv
    BY ShapeInit, GhostInit, UndisturbedInit DEF CopiesInv
  <1>2. CopiesInv /\ [Next]_vars => CopiesInv'
    BY ShapeNext, GhostNext, UndisturbedNext DEF CopiesInv
  <1>3. CopiesInv => NoWorkAfterOutcome
    <2> SUFFICES ASSUME CopiesInv, faults = 0, NEW j \in Outcome, Live(j) PROVE FALSE
      BY DEF NoWorkAfterOutcome
    <2>1. SingleCopy /\ \A w \in Worker : leased[w] => pc[w] # "idle"
      BY DEF CopiesInv, Undisturbed, ShapeInv, TypeOK
    <2> QED  BY <2>1 DEF Live, SingleCopy, Undecided
  <1> QED  BY <1>1, <1>2, <1>3, PTL DEF Spec

-----------------------------------------------------------------------------
(* The refinement of DeliveryContract, and the absence of loss. *)

\* How the steps change the set of live jobs.

LiveJobs == {j \in Job : Live(j)}

\* Storing a request makes its job live and changes no other.
LEMMA StoreLive ==
    ASSUME ShapeInv, NEW j \in Job, queue' = Put(queue, Request(j)),
           UNCHANGED <<pc, held, leased>>
    PROVE  LiveJobs' = LiveJobs \cup {j}
  <1>1. /\ Request(j) \in Message /\ Request(j).job = j
        /\ \A n \in Message : queue'[n] > 0 <=> (queue[n] > 0 \/ n = Request(j))
    BY RequestIsMessage, PutFacts DEF ShapeInv, TypeOK
  <1> QED  BY <1>1 DEF LiveJobs, Live

\* Handing a message to a callback changes no job's liveness.
LEMMA ReceiveLive ==
    ASSUME ShapeInv, NEW w \in Worker, NEW m \in Message, Receive(w, m)
    PROVE  LiveJobs' = LiveJobs
  <1>1. /\ queue[m] > 0
        /\ \A n \in Message : /\ queue'[n] > 0 => queue[n] > 0
                              /\ n # m => queue'[n] = queue[n]
    BY TakeFacts DEF ShapeInv, TypeOK, Receive
  <1>2. /\ leased'[w] /\ pc'[w] = "handling" /\ held'[w] = m
        /\ ~leased[w]
        /\ \A v \in Worker \ {w} :
               pc'[v] = pc[v] /\ held'[v] = held[v] /\ leased'[v] = leased[v]
    BY DEF ShapeInv, TypeOK, Receive
  <1>3. LiveJobs' \subseteq LiveJobs
    <2> SUFFICES ASSUME NEW j \in Job, Live(j)' PROVE Live(j)
      BY DEF LiveJobs
    <2>1. ASSUME NEW n \in Message, n.job = j, queue'[n] > 0 PROVE Live(j)
      <3>1. queue[n] > 0
        BY <1>1, <2>1
      <3> QED  BY <2>1, <3>1 DEF Live
    <2>2. ASSUME NEW v \in Worker, leased'[v], pc'[v] # "acking",
                 held'[v].job = j
          PROVE  Live(j)
      <3>1. CASE v = w
        BY <1>1, <1>2, <2>2, <3>1 DEF Live
      <3>2. CASE v # w
        BY <1>2, <2>2, <3>2 DEF Live
      <3> QED  BY <3>1, <3>2
    <2> QED  BY <2>1, <2>2 DEF Live
  <1>4. LiveJobs \subseteq LiveJobs'
    <2> SUFFICES ASSUME NEW j \in LiveJobs PROVE j \in LiveJobs'
      OBVIOUS
    <2>1. CASE j = m.job
      BY <1>2, <2>1 DEF LiveJobs, Live
    <2>2. CASE j # m.job
      BY <1>1, <1>2, <2>2 DEF LiveJobs, Live
    <2> QED  BY <2>1, <2>2
  <1> QED  BY <1>3, <1>4

\* A callback that has not decided to acknowledge keeps its job live.
LEMMA UndecidedLive ==
    ASSUME NEW w \in Worker, TypeOK, UNCHANGED <<queue, held, leased>>,
           pc' = [pc EXCEPT ![w] = pc'[w]],
           pc[w] # "acking", pc'[w] # "acking"
    PROVE  LiveJobs' = LiveJobs
  <1>1. \A v \in Worker : pc'[v] = "acking" <=> pc[v] = "acking"
    BY DEF TypeOK
  <1> QED  BY <1>1 DEF LiveJobs, Live

\* One that decides to acknowledge, or returns, may retire its own job only.
LEMMA RetireLive ==
    ASSUME ShapeInv, NEW w \in Worker, pc[w] # "idle",
           queue' = queue,
           \/ pc' = [pc EXCEPT ![w] = "acking"] /\ UNCHANGED <<held, leased>>
           \/ Return(w)
    PROVE  /\ LiveJobs' \in {LiveJobs, LiveJobs \ {held[w].job}}
           /\ ~leased[w] \/ pc[w] = "acking" => LiveJobs' = LiveJobs
  <1>1. \A v \in Worker \ {w} :
            pc'[v] = pc[v] /\ held'[v] = held[v] /\ leased'[v] = leased[v]
    BY DEF ShapeInv, TypeOK, Return
  <1>2. ~leased'[w] \/ pc'[w] = "acking"
    BY DEF ShapeInv, TypeOK, Return
  <1>3. /\ LiveJobs' \subseteq LiveJobs
        /\ \A j \in LiveJobs : j = held[w].job \/ j \in LiveJobs'
        /\ ~leased[w] \/ pc[w] = "acking" => LiveJobs \subseteq LiveJobs'
    BY <1>1, <1>2 DEF LiveJobs, Live
  <1> QED  BY <1>3

\* Putting the message held by w, or a wrapped form of it, into the broker makes
\* the job live and leaves the others alone, even if w acknowledges its copy.
LEMMA PutBackLive ==
    ASSUME ShapeInv, NEW w \in Worker, pc[w] # "idle",
           NEW m \in Message, m.job = held[w].job,
           \A n \in Message : queue[n] > 0 => queue'[n] > 0,
           \A n \in Message : queue'[n] > 0 =>
                                  queue[n] > 0 \/ n = m \/ n = held[w],
           queue'[m] > 0 \/ queue'[held[w]] > 0,
           \A v \in Worker \ {w} :
               pc'[v] = pc[v] /\ held'[v] = held[v] /\ leased'[v] = leased[v],
           ~leased'[w] \/ pc'[w] = "acking"
    PROVE  LiveJobs' = LiveJobs \cup {held[w].job}
  <1>1. held[w] \in Message /\ held[w].job \in Job
    BY HeldFacts DEF Message
  <1> QED  BY <1>1 DEF LiveJobs, Live

-----------------------------------------------------------------------------
\* Every step is a step of the contract.

\* What a step must be shown to be.
ContractStep == [Contract!Next]_(Contract!vars)

\* A publish that succeeds, or that stores the message and fails.
LEMMA StoreRefines ==
    ASSUME NEW j \in Job, NEW answered \in BOOLEAN,
           LiveJobs' = LiveJobs \cup {j}, stored' = stored \cup {j},
           accepted' = IF answered THEN accepted \cup {j} ELSE accepted,
           UNCHANGED <<failed, delivered, discarded, dropped>>
    PROVE  ContractStep
  <1>1. Contract!Store(j, answered)
    BY DEF Contract!Store, LiveJobs
  <1> QED  BY <1>1 DEF ContractStep, Contract!Next

\* A step that makes stored jobs live.
LEMMA RedeliverRefines ==
    ASSUME NEW S \in SUBSET Job, S \subseteq stored,
           LiveJobs' = LiveJobs \cup S,
           UNCHANGED <<stored, accepted, failed, delivered, discarded, dropped>>
    PROVE  ContractStep
  <1>1. Contract!Redeliver(S)
    BY DEF Contract!Redeliver, LiveJobs
  <1> QED  BY <1>1 DEF ContractStep, Contract!Next

\* The same for one job.
LEMMA RedeliverOneRefines ==
    ASSUME NEW j \in Job, j \in stored, LiveJobs' = LiveJobs \cup {j},
           UNCHANGED <<stored, accepted, failed, delivered, discarded, dropped>>
    PROVE  ContractStep
  <1>1. {j} \in SUBSET Job /\ {j} \subseteq stored
    OBVIOUS
  <1> QED  BY <1>1, RedeliverRefines

\* A step the contract does not see.
LEMMA StutterRefines ==
    ASSUME LiveJobs' = LiveJobs,
           UNCHANGED <<stored, accepted, failed, delivered, discarded, dropped>>
    PROVE  ContractStep
  BY DEF ContractStep, Contract!vars, LiveJobs

\* The publish of a retry or of an archived message.
LEMMA ForwardRefines ==
    ASSUME ShapeInv, GhostInv, NEW w \in Worker, pc[w] # "idle",
           NEW m \in Message, m.job = held[w].job,
           \/ Forwarded(w, m)
           \/ \E isStored \in BOOLEAN : ForwardFails(w, m, isStored)
    PROVE  ContractStep
  <1>1. held[w] \in Message /\ held[w].job \in stored /\ held[w].job \in Job
    BY HeldIsStored DEF Message
  <1>2. CASE Forwarded(w, m)
    <2>1. LiveJobs' = LiveJobs \cup {held[w].job}
      <3>1. \A n \in Message : queue'[n] > 0 <=> (queue[n] > 0 \/ n = m)
        BY <1>2, PutFacts DEF Forwarded, ShapeInv, TypeOK
      <3>2. /\ pc'[w] = "acking"
            /\ \A v \in Worker \ {w} :
                   pc'[v] = pc[v] /\ held'[v] = held[v] /\ leased'[v] = leased[v]
        BY <1>2 DEF Forwarded, ShapeInv, TypeOK
      <3> QED  BY <3>1, <3>2, PutBackLive
    <2> QED  BY <1>1, <1>2, <2>1, RedeliverOneRefines DEF Forwarded, ghostVars
  <1>3. ASSUME NEW isStored \in BOOLEAN, ForwardFails(w, m, isStored)
        PROVE  ContractStep
    <2> DEFINE q == IF isStored THEN Put(queue, m) ELSE queue
    <2>1. /\ q \in [Message -> Nat]
          /\ \A n \in Message : q[n] > 0 <=> queue[n] > 0 \/ (isStored /\ n = m)
      BY PutFacts DEF ShapeInv, TypeOK
    <2>2. queue' = IF leased[w] THEN Put(q, held[w]) ELSE q
      BY <1>3 DEF ForwardFails
    <2>3. \A n \in Message :
              queue'[n] > 0 <=> \/ queue[n] > 0
                                \/ isStored /\ n = m
                                \/ leased[w] /\ n = held[w]
      <3> HIDE DEF q
      <3> QED  BY <1>1, <2>1, <2>2, PutFacts DEF ShapeInv, TypeOK
    <2>4. /\ ~leased'[w]
          /\ \A v \in Worker \ {w} :
                 pc'[v] = pc[v] /\ held'[v] = held[v] /\ leased'[v] = leased[v]
      BY <1>3 DEF ForwardFails, Return, ShapeInv, TypeOK
    <2>5. CASE isStored \/ leased[w]
      <3>1. LiveJobs' = LiveJobs \cup {held[w].job}
        BY <1>1, <2>3, <2>4, <2>5, PutBackLive
      <3> QED  BY <1>1, <1>3, <3>1, RedeliverOneRefines
               DEF ForwardFails, ghostVars
    <2>6. CASE ~isStored /\ ~leased[w]
      <3>1. queue' = queue
        BY <2>2, <2>6
      <3>2. LiveJobs' = LiveJobs
        BY <1>3, <2>6, <3>1, RetireLive DEF ForwardFails
      <3> QED  BY <1>3, <3>2, StutterRefines DEF ForwardFails, ghostVars
    <2> QED  BY <2>5, <2>6
  <1> QED  BY <1>2, <1>3

\* Each action of the system is one of the contract or a stutter.
LEMMA StepRefines == ShapeInv /\ GhostInv /\ [Next]_vars => ContractStep
  <1> SUFFICES ASSUME ShapeInv, GhostInv, [Next]_vars PROVE ContractStep
    OBVIOUS
  <1> USE DEF ghostVars, brokerVars
  <1>1. ASSUME NEW j \in Job, Publish(j) PROVE ContractStep
    BY <1>1, StoreLive, StoreRefines DEF Publish
  <1>2. ASSUME NEW j \in Job, NEW isStored \in BOOLEAN,
               PublishFails(j, isStored)
        PROVE  ContractStep
    <2>1. CASE isStored
      BY <1>2, <2>1, StoreLive, StoreRefines DEF PublishFails
    <2>2. CASE ~isStored
      <3>1. LiveJobs' = LiveJobs
        BY <1>2, <2>2 DEF PublishFails, LiveJobs, Live
      <3> QED  BY <1>2, <2>2, <3>1, StutterRefines DEF PublishFails
    <2> QED  BY <2>1, <2>2
  <1>3. ASSUME NEW w \in Worker, NEW m \in Message, Receive(w, m)
        PROVE  ContractStep
    BY <1>3, ReceiveLive, StutterRefines DEF Receive
  <1>4. ASSUME NEW w \in Worker, DecodeFails(w) \/ WaitElapsed(w)
        PROVE  ContractStep
    <2>1. /\ pc[w] \in {"handling", "waiting"}
          /\ pc'[w] \in {"waiting", "archiving", "republishing"}
          /\ pc' = [pc EXCEPT ![w] = pc'[w]]
      BY <1>4, HeldFacts, AfterFailureFacts
      DEF DecodeFails, WaitElapsed, ShapeInv, TypeOK
    <2>2. LiveJobs' = LiveJobs
      BY <1>4, <2>1, UndecidedLive DEF DecodeFails, WaitElapsed, ShapeInv
    <2> QED  BY <1>4, <2>2, StutterRefines DEF DecodeFails, WaitElapsed
  <1>5. ASSUME NEW w \in Worker, NotifyOk(w) PROVE ContractStep
    <2>1. held[w].job \in stored /\ held[w].job \in Job
      BY <1>5, HeldIsStored DEF NotifyOk, Message
    <2>2. LiveJobs' \in {LiveJobs, LiveJobs \ {held[w].job}}
      BY <1>5, RetireLive DEF NotifyOk
    <2>3. Contract!Deliver(held[w].job)
      BY <1>5, <2>1, <2>2
      DEF NotifyOk, Contract!Deliver, Contract!MayRetire, LiveJobs
    <2> QED  BY <2>1, <2>3 DEF ContractStep, Contract!Next
  <1>6. ASSUME NEW w \in Worker, NotifyFails(w) PROVE ContractStep
    <2>1. held[w].job \in stored /\ held[w].job \in Job
      BY <1>6, HeldIsStored DEF NotifyFails, Message
    <2>2. /\ pc[w] = "handling"
          /\ pc'[w] \in {"waiting", "archiving"}
          /\ pc' = [pc EXCEPT ![w] = pc'[w]]
      BY <1>6, HeldFacts, AfterFailureFacts DEF NotifyFails, ShapeInv, TypeOK
    <2>3. LiveJobs' = LiveJobs
      BY <1>6, <2>2, UndecidedLive DEF NotifyFails, ShapeInv
    <2>4. Contract!Fail(held[w].job)
      BY <1>6, <2>1, <2>3 DEF NotifyFails, Contract!Fail, LiveJobs
    <2> QED  BY <2>1, <2>4 DEF ContractStep, Contract!Next
  <1>7. ASSUME NEW w \in Worker, HandleDeadLetter(w) PROVE ContractStep
    <2>1. held[w].wraps > 0 /\ pc[w] # "idle"
      BY <1>7, HeldIsStored, MaxRetriesAssumption DEF HandleDeadLetter, Balanced
    <2>2. held[w].job \in failed /\ held[w].job \in Job
      BY <2>1, HeldIsStored DEF Message
    <2>3. LiveJobs' \in {LiveJobs, LiveJobs \ {held[w].job}}
      BY <1>7, RetireLive DEF HandleDeadLetter
    <2>4. Contract!Discard(held[w].job)
      BY <1>7, <2>2, <2>3
      DEF HandleDeadLetter, Contract!Discard, Contract!MayRetire, LiveJobs
    <2> QED  BY <2>2, <2>4 DEF ContractStep, Contract!Next
  <1>8. ASSUME NEW w \in Worker, WaitCancelled(w) PROVE ContractStep
    <2>1. /\ held[w].job \in failed /\ held[w].job \in Job
          /\ pc[w] = "waiting"
      BY <1>8, HeldFacts DEF WaitCancelled, GhostInv, Remembered, Message
    <2>2. /\ LiveJobs' \in {LiveJobs, LiveJobs \ {held[w].job}}
          /\ ~leased[w] => LiveJobs' = LiveJobs
      BY <1>8, <2>1, RetireLive DEF WaitCancelled
    <2>3. CASE leased[w]
      <3>1. Contract!Drop(held[w].job)
        BY <1>8, <2>1, <2>2, <2>3
        DEF WaitCancelled, Contract!Drop, Contract!MayRetire, LiveJobs
      <3> QED  BY <2>1, <3>1 DEF ContractStep, Contract!Next
    <2>4. CASE ~leased[w]
      BY <1>8, <2>2, <2>4, StutterRefines DEF WaitCancelled
    <2> QED  BY <2>3, <2>4
  <1>9. ASSUME NEW w \in Worker, Republish(w) PROVE ContractStep
    <2>1. /\ pc[w] # "idle"
          /\ held[w].topic = "request" /\ held[w].retry < MaxRetries
      BY <1>9 DEF Republish, ShapeInv, HeldShape
    <2>2. held[w] \in Message /\ held[w].wraps = held[w].retry
      BY <2>1, HeldFacts DEF Balanced
    <2>3. Rewrapped(held[w]) \in Message /\ Rewrapped(held[w]).job = held[w].job
      BY <2>1, <2>2, RewrappedIsMessage
    <2> QED  BY <1>9, <2>1, <2>3, ForwardRefines DEF Republish
  <1>10. ASSUME NEW w \in Worker, Archive(w) PROVE ContractStep
    <2>1. /\ pc[w] # "idle"
          /\ held[w].topic = "request" /\ held[w].retry = MaxRetries
      BY <1>10 DEF Archive, ShapeInv, HeldShape
    <2>2. held[w] \in Message /\ held[w].wraps = held[w].retry
      BY <2>1, HeldFacts DEF Balanced
    <2>3. Archived(held[w]) \in Message /\ Archived(held[w]).job = held[w].job
      BY <2>1, <2>2, ArchivedIsMessage
    <2> QED  BY <1>10, <2>1, <2>3, ForwardRefines DEF Archive
  <1>11. ASSUME NEW w \in Worker, Ack(w) PROVE ContractStep
    BY <1>11, RetireLive, StutterRefines DEF Ack
  <1>12. ASSUME NEW w \in Worker, LeaseExpires(w) PROVE ContractStep
    <2>1. pc[w] # "idle" /\ leased[w]
      BY <1>12 DEF LeaseExpires, ShapeInv, TypeOK
    <2>2. /\ held[w] \in Message
          /\ held[w].job \in stored /\ held[w].job \in Job
      BY <2>1, HeldIsStored DEF Message
    <2>3. \A n \in Message : queue'[n] > 0 <=> (queue[n] > 0 \/ n = held[w])
      BY <1>12, <2>2, PutFacts DEF LeaseExpires, ShapeInv, TypeOK
    <2>4. /\ ~leased'[w]
          /\ \A v \in Worker \ {w} :
                 pc'[v] = pc[v] /\ held'[v] = held[v] /\ leased'[v] = leased[v]
      BY <1>12 DEF LeaseExpires, ShapeInv, TypeOK
    <2>5. LiveJobs' = LiveJobs \cup {held[w].job}
      BY <2>1, <2>2, <2>3, <2>4, PutBackLive
    <2> QED  BY <1>12, <2>2, <2>5, RedeliverOneRefines DEF LeaseExpires
  <1>13. ASSUME NEW t \in Topic, ReceiveFails(t) PROVE ContractStep
    <2>1. LiveJobs' = LiveJobs
      BY <1>13 DEF ReceiveFails, LiveJobs, Live
    <2> QED  BY <1>13, <2>1, StutterRefines DEF ReceiveFails
  <1>14. ASSUME Restart PROVE ContractStep
    <2> DEFINE S == {j \in Job : \E w \in Worker : leased[w] /\ held[w].job = j}
    <2>1. S \subseteq stored
      BY HeldIsStored DEF ShapeInv, TypeOK
    <2>2. \A m \in Message :
              queue'[m] > 0 <=> \/ queue[m] > 0
                                \/ \E w \in Worker : leased[w] /\ held[w] = m
      BY <1>14, RestartFacts DEF Restart, ShapeInv
    <2>3. \A w \in Worker : ~leased'[w] /\ (leased[w] => held[w] \in Message)
      BY <1>14 DEF Restart, ShapeInv, TypeOK
    <2>4. LiveJobs' = LiveJobs \cup S
      BY <2>2, <2>3 DEF LiveJobs, Live
    <2> QED  BY <1>14, <2>1, <2>4, RedeliverRefines DEF Restart
  <1>15. CASE UNCHANGED vars
    <2>1. LiveJobs' = LiveJobs
      BY <1>15 DEF vars, LiveJobs, Live
    <2> QED  BY <1>15, <2>1, StutterRefines DEF vars
  <1> QED
    BY <1>1, <1>2, <1>3, <1>4, <1>5, <1>6, <1>7, <1>8, <1>9, <1>10, <1>11,
       <1>12, <1>13, <1>14, <1>15 DEF Next, Step

\* Nothing is live in the initial state.
LEMMA InitRefines == Init => Contract!Init
  BY NoMessageAssumption DEF Init, Contract!Init, Live

\* The Pub/Sub path, with its retries, archiving, lost leases, failed publishes
\* and crashes, implements the contract of a job.
THEOREM ContractImplemented == Spec => ImplementsContract
  <1>1. Init => Contract!Init
    BY InitRefines
  <1>2. ShapeInv /\ GhostInv /\ [Next]_vars => [Contract!Next]_(Contract!vars)
    BY StepRefines DEF ContractStep
  <1> QED  BY <1>1, <1>2, GhostInvariant, PTL
           DEF Spec, ImplementsContract, Contract!Spec

-----------------------------------------------------------------------------
\* No job is lost: the argument is about the contract alone.

\* A contract step loses no job.
LEMMA ContractConserves ==
    Contract!Conservation /\ ContractStep => Contract!Conservation'
  BY DEF Contract!Conservation, ContractStep, Contract!Next, Contract!vars,
         Contract!Outcome, Contract!Store, Contract!Redeliver, Contract!Fail,
         Contract!Deliver, Contract!Discard, Contract!Drop, Contract!MayRetire

\* A job the broker took in, and so every job whose publisher was told so, is
\* still to be worked on or has an outcome: for any number of jobs, callbacks,
\* retries and faults.
THEOREM NoLossCorrect == Spec => []NoSilentLoss
  <1> DEFINE Inv == ShapeInv /\ GhostInv /\ Contract!Conservation
  <1>1. Init => Inv
    BY ShapeInit, GhostInit DEF Init, Contract!Conservation
  <1>2. Inv /\ [Next]_vars => Inv'
    BY ShapeNext, GhostNext, StepRefines, ContractConserves
  <1>3. Inv => NoSilentLoss
    BY DEF GhostInv, Contract!Conservation, Contract!Outcome, NoSilentLoss,
           Outcome
  <1> HIDE DEF Inv
  <1> QED  BY <1>1, <1>2, <1>3, PTL DEF Spec
=============================================================================
