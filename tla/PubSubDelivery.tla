-------------------------- MODULE PubSubDelivery --------------------------
(***************************************************************************)
(* The life of a job on the Google Pub/Sub path of gqueue, from the        *)
(* publish of the HTTP handler to its acknowledgement: the two subscribers *)
(* of cmd/setup/pubsub/consumer.go, the wrapper ToGPubSubHandler around    *)
(* their handlers (retry, archive, ack, nack), the request handler that    *)
(* calls the webhook and the dead-letter handler.                          *)
(*                                                                         *)
(* Pub/Sub itself is external and is modelled by what the code relies on:  *)
(* unordered at-least-once delivery under a lease.  A message is handed to *)
(* a callback with a lease; Ack removes it, Nack or the end of the lease   *)
(* (a lost extension, a crash) makes it available again.  Only the first   *)
(* of Ack and Nack counts, so "defer msg.Ack()" after a Nack has no effect.*)
(***************************************************************************)
EXTENDS Naturals, FiniteSets

CONSTANTS
    Job,        \* (event, consumer) pairs to be published
    Worker,     \* concurrent callbacks of the two subscriptions
    MaxRetries, \* the value of the "max_retries" attribute ("1" in the code)
    MaxFaults,  \* bound on the faults of a behaviour
    NoMessage   \* what an idle worker holds

Topic == {"request", "dead_letter"}

\* wraps is how many times the message was marshalled as the payload of
\* another one; retry is its "retry_count" attribute (absent: 0).
Message == [topic : Topic, job : Job,
            wraps : 0 .. MaxRetries + 1, retry : 0 .. MaxRetries]

ASSUME MaxRetriesAssumption == MaxRetries \in Nat
ASSUME MaxFaultsAssumption  == MaxFaults \in Nat
ASSUME WorkerAssumption     == IsFiniteSet(Worker)
ASSUME NoMessageAssumption  == NoMessage \notin Message

VARIABLES
    queue,      \* number of available copies of each message
    pc,         \* where each callback is
    held,       \* the message each callback was given
    leased,     \* whether the callback still owns that message
    receiving,  \* per topic: Receive runs and its context is not done
    faults,     \* faults so far
    stored, accepted, calls, failed, delivered, discarded, dropped, notified

brokerVars == <<queue, held, leased>>
ghostVars  == <<stored, accepted, calls, failed, delivered, discarded,
                dropped, notified>>
vars == <<queue, pc, held, leased, receiving, faults, stored, accepted, calls,
          failed, delivered, discarded, dropped, notified>>

PC == {"idle", "handling", "waiting", "republishing", "archiving", "acking"}

TypeOK ==
    /\ queue \in [Message -> Nat]
    /\ pc \in [Worker -> PC]
    /\ held \in [Worker -> Message \cup {NoMessage}]
    /\ leased \in [Worker -> BOOLEAN]
    /\ \A w \in Worker : (pc[w] = "idle") <=> (held[w] = NoMessage)
    /\ \A w \in Worker : leased[w] => pc[w] # "idle"
    /\ receiving \in [Topic -> BOOLEAN]
    /\ faults \in 0 .. MaxFaults
    /\ stored \subseteq Job
    /\ accepted \subseteq Job
    /\ calls \in [Job -> Nat]
    /\ failed \subseteq Job
    /\ delivered \subseteq Job
    /\ discarded \subseteq Job
    /\ dropped \subseteq Job
    /\ notified \subseteq Job

Init ==
    /\ queue = [m \in Message |-> 0]
    /\ pc = [w \in Worker |-> "idle"]
    /\ held = [w \in Worker |-> NoMessage]
    /\ leased = [w \in Worker |-> FALSE]
    /\ receiving = [t \in Topic |-> TRUE]
    /\ faults = 0
    /\ stored = {}
    /\ accepted = {}
    /\ calls = [j \in Job |-> 0]
    /\ failed = {}
    /\ delivered = {}
    /\ discarded = {}
    /\ dropped = {}
    /\ notified = {}

-----------------------------------------------------------------------------
\* The messages.

\* What the publisher handler sends: a RequestPayload, no retry_count.
Request(j) == [topic |-> "request", job |-> j, wraps |-> 0, retry |-> 0]

\* Publish marshals its payload argument.  retryable hands it the whole
\* *pubsub.Message, so the message becomes the Data of the new one.
Rewrapped(m) == [topic |-> m.topic, job |-> m.job,
                 wraps |-> m.wraps + 1, retry |-> m.retry + 1]

\* archivedMsg does the same, with the attributes unchanged.
Archived(m) == [topic |-> "dead_letter", job |-> m.job,
                wraps |-> m.wraps + 1, retry |-> m.retry]

\* Mutant: the request handler expects the wrapped form.
DecodesWrapped(m) == m.wraps > 0

\* Payload() unmarshals Data into a RequestPayload.  A wrapped message has a
\* string where RequestPayload.Data is a map, so decoding it fails.
Decodes(m) == m.wraps = 0

\* Mutant: the last retry is not used.
AfterFailureEarly(m) ==
    IF m.retry + 1 >= MaxRetries THEN "archiving" ELSE "waiting"

\* The failure path of the wrapper: archive when the retries are used up.
AfterFailure(m) == IF m.retry >= MaxRetries THEN "archiving" ELSE "waiting"

\* MemStore.GetAllSchedulers answers EventNotFound whatever it holds.
SchedulersFound == FALSE

Put(q, m) == [q EXCEPT ![m] = @ + 1]

Fault ==
    /\ faults < MaxFaults
    /\ faults' = faults + 1

\* Mutant: the lease outlives the callback.
ReturnWithLease(w) ==
    /\ pc' = [pc EXCEPT ![w] = "idle"]
    /\ held' = [held EXCEPT ![w] = NoMessage]
    /\ UNCHANGED leased

\* The callback of w returns and w is free for another message.
Return(w) ==
    /\ pc' = [pc EXCEPT ![w] = "idle"]
    /\ held' = [held EXCEPT ![w] = NoMessage]
    /\ leased' = [leased EXCEPT ![w] = FALSE]

-----------------------------------------------------------------------------
\* The publisher.

\* The publish of one consumer of the fan-out succeeds.
Publish(j) ==
    /\ j \notin accepted
    /\ queue' = Put(queue, Request(j))
    /\ stored' = stored \cup {j}
    /\ accepted' = accepted \cup {j}
    /\ UNCHANGED <<pc, held, leased, receiving, faults, calls, failed,
                   delivered, discarded, dropped, notified>>

\* The publish fails (Get returns an error, or its context ends first) and the
\* client is answered 500; the message may have been stored all the same.
PublishFails(j, isStored) ==
    /\ j \notin accepted
    /\ Fault
    /\ IF isStored
         THEN /\ queue' = Put(queue, Request(j))
              /\ stored' = stored \cup {j}
         ELSE UNCHANGED <<queue, stored>>
    /\ UNCHANGED <<pc, held, leased, receiving, accepted, calls, failed,
                   delivered, discarded, dropped, notified>>

-----------------------------------------------------------------------------
\* The subscribers.

\* Mutant: the dead-letter subscriber is not started.
ReceiveRequestsOnly(w, m) ==
    /\ m.topic = "request"
    /\ pc[w] = "idle"
    /\ receiving[m.topic]
    /\ queue[m] > 0
    /\ queue' = [queue EXCEPT ![m] = @ - 1]
    /\ pc' = [pc EXCEPT ![w] = "handling"]
    /\ held' = [held EXCEPT ![w] = m]
    /\ leased' = [leased EXCEPT ![w] = TRUE]
    /\ UNCHANGED <<receiving, faults, ghostVars>>

Receive(w, m) ==
    /\ pc[w] = "idle"
    /\ receiving[m.topic]
    /\ queue[m] > 0
    /\ queue' = [queue EXCEPT ![m] = @ - 1]
    /\ pc' = [pc EXCEPT ![w] = "handling"]
    /\ held' = [held EXCEPT ![w] = m]
    /\ leased' = [leased EXCEPT ![w] = TRUE]
    /\ UNCHANGED <<receiving, faults, ghostVars>>

\* A request whose payload does not decode never reaches the webhook.
DecodeFails(w) ==
    /\ pc[w] = "handling"
    /\ held[w].topic = "request"
    /\ ~Decodes(held[w])
    /\ pc' = [pc EXCEPT ![w] = AfterFailure(held[w])]
    /\ UNCHANGED <<brokerVars, receiving, faults, ghostVars>>

\* Notify returns nil: the webhook answered with a status below 300.
NotifyOk(w) ==
    /\ pc[w] = "handling"
    /\ held[w].topic = "request"
    /\ Decodes(held[w])
    /\ pc' = [pc EXCEPT ![w] = "acking"]
    /\ calls' = [calls EXCEPT ![held[w].job] = @ + 1]
    /\ delivered' = delivered \cup {held[w].job}
    /\ UNCHANGED <<brokerVars, receiving, faults, stored, accepted, failed,
                   discarded, dropped, notified>>

\* Notify returns an error: no answer in time, the context ended, or a status
\* above 299.  The webhook may have run, so the call counts.
NotifyFails(w) ==
    /\ pc[w] = "handling"
    /\ held[w].topic = "request"
    /\ Decodes(held[w])
    /\ pc' = [pc EXCEPT ![w] = AfterFailure(held[w])]
    /\ calls' = [calls EXCEPT ![held[w].job] = @ + 1]
    /\ failed' = failed \cup {held[w].job}
    /\ UNCHANGED <<brokerVars, receiving, faults, stored, accepted, delivered,
                   discarded, dropped, notified>>

\* The dead-letter handler: nil on EventNotFound, otherwise the archived
\* listeners are notified and errors of theirs ignored.
HandleDeadLetter(w) ==
    /\ pc[w] = "handling"
    /\ held[w].topic = "dead_letter"
    /\ pc' = [pc EXCEPT ![w] = "acking"]
    /\ discarded' = discarded \cup {held[w].job}
    /\ notified' = IF SchedulersFound THEN notified \cup {held[w].job}
                                      ELSE notified
    /\ UNCHANGED <<brokerVars, receiving, faults, stored, accepted, calls,
                   failed, delivered, dropped>>

\* The five seconds pass and the context is still good.
WaitElapsed(w) ==
    /\ pc[w] = "waiting"
    /\ receiving[held[w].topic]
    /\ pc' = [pc EXCEPT ![w] = "republishing"]
    /\ UNCHANGED <<brokerVars, receiving, faults, ghostVars>>

\* The context ends during the wait: retryable returns and its deferred Ack
\* removes the message, if w still owns it.
WaitCancelled(w) ==
    /\ pc[w] = "waiting"
    /\ ~receiving[held[w].topic]
    /\ dropped' = IF leased[w] THEN dropped \cup {held[w].job} ELSE dropped
    /\ Return(w)
    /\ UNCHANGED <<queue, receiving, faults, stored, accepted, calls, failed,
                   delivered, discarded, notified>>

\* Mutant: the result of the publish is not awaited before the Ack.
ForwardedUnawaited(w, m) ==
    /\ pc' = [pc EXCEPT ![w] = "acking"]
    /\ UNCHANGED <<brokerVars, receiving, faults, ghostVars>>

\* The Publish of retryable or archivedMsg succeeds; the Ack is still to come.
Forwarded(w, m) ==
    /\ queue' = Put(queue, m)
    /\ pc' = [pc EXCEPT ![w] = "acking"]
    /\ UNCHANGED <<held, leased, receiving, faults, ghostVars>>

\* Mutant: the deferred Ack wins over the Nack.
ForwardFailsAcked(w, m, isStored) ==
    /\ Fault
    /\ queue' = IF isStored THEN Put(queue, m) ELSE queue
    /\ Return(w)
    /\ UNCHANGED <<receiving, ghostVars>>

\* It fails, having stored the message or not, and the Nack gives the original
\* back if w still owns it.
ForwardFails(w, m, isStored) ==
    /\ Fault
    /\ LET q == IF isStored THEN Put(queue, m) ELSE queue
       IN queue' = IF leased[w] THEN Put(q, held[w]) ELSE q
    /\ Return(w)
    /\ UNCHANGED <<receiving, ghostVars>>

Republish(w) ==
    /\ pc[w] = "republishing"
    /\ \/ Forwarded(w, Rewrapped(held[w]))
       \/ \E isStored \in BOOLEAN :
              ForwardFails(w, Rewrapped(held[w]), isStored)

Archive(w) ==
    /\ pc[w] = "archiving"
    /\ \/ Forwarded(w, Archived(held[w]))
       \/ \E isStored \in BOOLEAN : ForwardFails(w, Archived(held[w]), isStored)

\* Mutant: the Ack is missing and the deferred Nack takes effect.
AckMissing(w) ==
    /\ pc[w] = "acking"
    /\ queue' = IF leased[w] THEN Put(queue, held[w]) ELSE queue
    /\ Return(w)
    /\ UNCHANGED <<receiving, faults, ghostVars>>

\* Ack removes the message; without the lease it has no effect.
Ack(w) ==
    /\ pc[w] = "acking"
    /\ Return(w)
    /\ UNCHANGED <<queue, receiving, faults, ghostVars>>

-----------------------------------------------------------------------------
\* Faults.

\* The lease of a message ends while its callback is still at work.
LeaseExpires(w) ==
    /\ leased[w]
    /\ Fault
    /\ leased' = [leased EXCEPT ![w] = FALSE]
    /\ queue' = Put(queue, held[w])
    /\ UNCHANGED <<pc, held, receiving, ghostVars>>

\* Receive returns an error: its goroutine logs it and ends, and the context
\* of the callbacks under way is cancelled.  Nothing starts it again.
ReceiveFails(t) ==
    /\ receiving[t]
    /\ Fault
    /\ receiving' = [receiving EXCEPT ![t] = FALSE]
    /\ UNCHANGED <<queue, pc, held, leased, ghostVars>>

\* The process dies and is started again: both subscribers are back and every
\* leased message is available.
CopiesLeased(m) == Cardinality({w \in Worker : leased[w] /\ held[w] = m})

Restart ==
    /\ Fault
    /\ queue' = [m \in Message |-> queue[m] + CopiesLeased(m)]
    /\ pc' = [w \in Worker |-> "idle"]
    /\ held' = [w \in Worker |-> NoMessage]
    /\ leased' = [w \in Worker |-> FALSE]
    /\ receiving' = [t \in Topic |-> TRUE]
    /\ UNCHANGED ghostVars

-----------------------------------------------------------------------------

\* What a callback does by itself once it has a message.
Step(w) ==
    \/ DecodeFails(w)
    \/ NotifyOk(w)
    \/ NotifyFails(w)
    \/ HandleDeadLetter(w)
    \/ WaitElapsed(w)
    \/ WaitCancelled(w)
    \/ Republish(w)
    \/ Archive(w)
    \/ Ack(w)

Next ==
    \/ \E j \in Job : Publish(j)
    \/ \E j \in Job, isStored \in BOOLEAN : PublishFails(j, isStored)
    \/ \E w \in Worker, m \in Message : Receive(w, m)
    \/ \E w \in Worker : Step(w)
    \/ \E w \in Worker : LeaseExpires(w)
    \/ \E t \in Topic : ReceiveFails(t)
    \/ Restart

Spec == Init /\ [][Next]_vars

\* Callbacks make progress (every wait in them has a time limit) and the
\* service goes on handing out a message that is available.
Fairness ==
    /\ \A w \in Worker : WF_vars(Step(w))
    /\ \A m \in Message : WF_vars(\E w \in Worker : Receive(w, m))

FairSpec == Spec /\ Fairness

-----------------------------------------------------------------------------
\* Properties.

Outcome == delivered \cup discarded \cup dropped

\* The job has a copy that the broker will hand out, now or when its holder
\* fails: an available one, or one leased to a callback that has not yet
\* decided to acknowledge it.
Live(j) ==
    \/ \E m \in Message : m.job = j /\ queue[m] > 0
    \/ \E w \in Worker : leased[w] /\ pc[w] # "acking" /\ held[w].job = j

\* No job is lost silently: whatever the interleaving of callbacks, failed
\* publishes, lost leases and crashes, a job the broker took in (so every job
\* whose publisher was told 201) is still to be worked on or has an outcome.
\* The order publish-then-ack of retryable and archivedMsg is what this
\* depends on.
NoSilentLoss == \A j \in stored \cup accepted : Live(j) \/ j \in Outcome

\* Every message in the system was wrapped once per retry, and a message in the
\* dead-letter topic has used up all its retries.
InSystem(m) == queue[m] > 0 \/ \E w \in Worker : held[w] = m
WrapsMatchRetries ==
    \A m \in Message : InSystem(m) =>
        IF m.topic = "request"
          THEN m.wraps = m.retry
          ELSE m.retry = MaxRetries /\ m.wraps = MaxRetries + 1

\* A job is given up, by the dead-letter handler or by a stopping worker, only
\* after a call to its webhook failed: no path leads a job that was never tried
\* out of the system.
GivenUpOnlyAfterFailure == discarded \cup dropped \subseteq failed

\* Duplicates come from faults alone: without one, a job that has an outcome has
\* no copy left that would call its webhook again or give up what was delivered.
NoWorkAfterOutcome == faults = 0 => \A j \in Outcome : ~Live(j)

\* While the two subscribers run, every accepted job gets an outcome.
EventuallySettled ==
    \A j \in Job :
        <>[](\A t \in Topic : receiving[t]) =>
            (j \in accepted ~> j \in Outcome)

\* The dead-letter handler tells the archived listeners of every job it takes
\* (deadletter_handle_test.go); it does not, because MemStore finds none.
DeadLettersAreNotified == discarded \subseteq notified

\* A retry is a retry of the consumer (telemetry/metrics.go: "Total of retries
\* for a consumer"): a job in the dead-letter topic was tried 1 + MaxRetries
\* times.
RetriesReachConsumer ==
    \A m \in Message :
        m.topic = "dead_letter" /\ queue[m] > 0
            => calls[m.job] >= 1 + MaxRetries

\* The Pub/Sub path keeps the contract of DeliveryContract.
Contract == INSTANCE DeliveryContract WITH live <- {j \in Job : Live(j)}
ImplementsContract == Contract!Spec
=============================================================================
