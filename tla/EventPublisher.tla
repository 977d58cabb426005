-------------------------- MODULE EventPublisher --------------------------
(***************************************************************************)
(* The two PublisherEvent handlers and their clients: a client posts an    *)
(* event, the handler takes the consumers the MemStore has for it at that  *)
(* moment and publishes one message for each in turn.  The first publish   *)
(* that fails ends the request with 500; the messages already published    *)
(* stay.  A client that was not told of a success posts its event again,   *)
(* possibly while its former handler is still at work.                     *)
(*                                                                         *)
(* With the unique_ttl option (task path) a message is refused while the   *)
(* lock of an equal one is held.  The refresh of the MemStore is that of   *)
(* EventCatalog, reduced to one event; the messages' further life is in    *)
(* PubSubDelivery and TaskDelivery, and shows here as locks that end.      *)
(***************************************************************************)
EXTENDS Naturals, Sequences, Functions

CONSTANTS
    Client,     \* each with one event to publish
    Data,       \* the payloads
    DataOf,     \* the payload of each client
    Handler,    \* requests the HTTP server works on at a time
    Consumer,
    Listing,    \* the lists of consumers the event may have
    Unique,     \* the task path with unique_ttl; FALSE without, and for Pub/Sub
    MaxRefreshes, MaxFaults,
    NotServed, NoClient, NoHandler

ASSUME DataAssumption == DataOf \in [Client -> Data]
\* Event.Validate asks for at least one consumer (and not for distinct ones,
\* which is an assumption here).
ASSUME ListingAssumption ==
    /\ Listing \subseteq Seq(Consumer)
    /\ \A l \in Listing :
           /\ l # <<>>
           /\ \A i, k \in 1 .. Len(l) : l[i] = l[k] => i = k
ASSUME BoundAssumption == MaxRefreshes \in Nat /\ MaxFaults \in Nat
ASSUME NoneAssumption ==
    /\ NotServed \notin Listing
    /\ NoClient \notin Client
    /\ NoHandler \notin Handler

VARIABLES
    served,     \* what the MemStore has for the event
    refreshes,  \* refreshes so far
    clientOf,   \* the request a handler works on (NoClient: it is free)
    consumers,  \* the handler's copy of the event's consumers
    next,       \* the position of its loop
    answer,     \* what a client was last answered
    waitsFor,   \* the handler a client is connected to
    lock,       \* unique locks held: <<payload, consumer>>
    faults,
    reached,    \* history: consumers that got a message of the client's event
    repeated,   \* history: those that got more than one
    promised,   \* history: the consumers at the time of the answered request
    troubled    \* history: clients with a request that did not succeed

handlerVars == <<clientOf, consumers, next>>
clientVars  == <<answer, waitsFor>>
history     == <<reached, repeated, promised, troubled>>
vars == <<served, refreshes, handlerVars, clientVars, lock, faults, history>>

Answer == {"none", "failed", "ok", "notFound"}

TypeOK ==
    /\ served \in Listing \cup {NotServed}
    /\ refreshes \in 0 .. MaxRefreshes
    /\ clientOf \in [Handler -> Client \cup {NoClient}]
    /\ consumers \in [Handler -> Listing \cup {<<>>}]
    /\ next \in [Handler -> Nat]
    /\ \A h \in Handler : next[h] \in 1 .. Len(consumers[h]) + 1
    /\ answer \in [Client -> Answer]
    /\ waitsFor \in [Client -> Handler \cup {NoHandler}]
    /\ \A c \in Client : waitsFor[c] # NoHandler =>
           clientOf[waitsFor[c]] = c /\ answer[c] \in {"none", "failed"}
    /\ lock \subseteq Data \X Consumer
    /\ faults \in 0 .. MaxFaults
    /\ reached \in [Client -> SUBSET Consumer]
    /\ repeated \in [Client -> SUBSET Consumer]
    /\ promised \in [Client -> SUBSET Consumer]
    /\ troubled \subseteq Client

Init ==
    /\ served \in Listing \cup {NotServed}
    /\ refreshes = 0
    /\ clientOf = [h \in Handler |-> NoClient]
    /\ consumers = [h \in Handler |-> <<>>]
    /\ next = [h \in Handler |-> 1]
    /\ answer = [c \in Client |-> "none"]
    /\ waitsFor = [c \in Client |-> NoHandler]
    /\ lock = {}
    /\ faults = 0
    /\ reached = [c \in Client |-> {}]
    /\ repeated = [c \in Client |-> {}]
    /\ promised = [c \in Client |-> {}]
    /\ troubled = {}

Fault ==
    /\ faults < MaxFaults
    /\ faults' = faults + 1

-----------------------------------------------------------------------------

\* The MemStore swaps in what it loaded.
Refresh(s) ==
    /\ refreshes < MaxRefreshes
    /\ refreshes' = refreshes + 1
    /\ served' = s
    /\ UNCHANGED <<handlerVars, clientVars, lock, faults, history>>

Unanswered(c) == answer[c] \in {"none", "failed"} /\ waitsFor[c] = NoHandler

\* GetEvent finds the event, and the loop over its consumers begins.
Request(c, h) ==
    /\ Unanswered(c)
    /\ clientOf[h] = NoClient
    /\ served # NotServed
    /\ clientOf' = [clientOf EXCEPT ![h] = c]
    /\ consumers' = [consumers EXCEPT ![h] = served]
    /\ next' = [next EXCEPT ![h] = 1]
    /\ waitsFor' = [waitsFor EXCEPT ![c] = h]
    /\ UNCHANGED <<served, refreshes, answer, lock, faults, history>>

\* GetEvent answers EventNotFound: 404.
RequestNotFound(c) ==
    /\ Unanswered(c)
    /\ served = NotServed
    /\ answer' = [answer EXCEPT ![c] = "notFound"]
    /\ UNCHANGED <<served, refreshes, handlerVars, waitsFor, lock, faults,
                   history>>

-----------------------------------------------------------------------------
\* One iteration of the loop.

InLoop(h) == clientOf[h] # NoClient /\ next[h] <= Len(consumers[h])

Target(h) == consumers[h][next[h]]

\* Mutant: the consumer is no part of what the lock is on.
KeyIgnoresTarget(h) == <<DataOf[clientOf[h]], consumers[h][1]>>

\* The lock is on the task's type and payload, which names the consumer.
Key(h) == <<DataOf[clientOf[h]], Target(h)>>

Refuses(h) == Unique /\ Key(h) \in lock

\* The broker has the message of the current consumer.
Stored(h) ==
    LET c == clientOf[h] IN
    /\ lock' = IF Unique THEN lock \cup {Key(h)} ELSE lock
    /\ reached' = [reached EXCEPT ![c] = @ \cup {Target(h)}]
    /\ repeated' = IF Target(h) \in reached[c]
                     THEN [repeated EXCEPT ![c] = @ \cup {Target(h)}]
                     ELSE repeated

\* Mutant: the loop publishes for the same consumer twice.
AdvanceLate(h) == next' = [next EXCEPT ![h] = IF repeated[clientOf[h]] = {}
                                                THEN @ ELSE @ + 1]

Advance(h) == next' = [next EXCEPT ![h] = @ + 1]

Publish(h) ==
    /\ InLoop(h)
    /\ ~Refuses(h)
    /\ Stored(h)
    /\ Advance(h)
    /\ UNCHANGED <<served, refreshes, clientOf, consumers, clientVars, faults,
                   promised, troubled>>

Connected(h) == waitsFor[clientOf[h]] = h

\* The handler returns.
Done(h) ==
    /\ clientOf' = [clientOf EXCEPT ![h] = NoClient]
    /\ consumers' = [consumers EXCEPT ![h] = <<>>]
    /\ next' = [next EXCEPT ![h] = 1]

\* Mutant: an error does not end the loop.
Answer500Continues(h) ==
    /\ Advance(h)
    /\ UNCHANGED <<clientOf, consumers, clientVars, troubled>>

\* http.Error(500) reaches the client if that is still connected.
Answer500(h) ==
    /\ Done(h)
    /\ troubled' = troubled \cup {clientOf[h]}
    /\ IF Connected(h)
         THEN /\ answer' = [answer EXCEPT ![clientOf[h]] = "failed"]
              /\ waitsFor' = [waitsFor EXCEPT ![clientOf[h]] = NoHandler]
         ELSE UNCHANGED clientVars

\* Enqueue answers ErrDuplicateTask.
PublishRefused(h) ==
    /\ InLoop(h)
    /\ Refuses(h)
    /\ Answer500(h)
    /\ UNCHANGED <<served, refreshes, lock, faults, reached, repeated,
                   promised>>

\* The publish fails; the message may have been stored.  Without a connected
\* client the context of the request is done, which alone can end a publish to
\* Pub/Sub; Enqueue does not take the context.
PublishFails(h, isStored) ==
    /\ InLoop(h)
    /\ ~Refuses(h)
    /\ IF Unique \/ Connected(h) THEN Fault ELSE UNCHANGED faults
    /\ IF isStored THEN Stored(h) ELSE UNCHANGED <<lock, reached, repeated>>
    /\ Answer500(h)
    /\ UNCHANGED <<served, refreshes, promised>>

\* The loop is over: 201 (Pub/Sub) or 202 (task).
AnswerOk(h) ==
    /\ clientOf[h] # NoClient
    /\ next[h] = Len(consumers[h]) + 1
    /\ Done(h)
    /\ IF Connected(h)
         THEN /\ answer' = [answer EXCEPT ![clientOf[h]] = "ok"]
              /\ waitsFor' = [waitsFor EXCEPT ![clientOf[h]] = NoHandler]
              /\ promised' = [promised EXCEPT ![clientOf[h]] =
                                  Range(consumers[h])]
         ELSE UNCHANGED <<clientVars, promised>>
    /\ UNCHANGED <<served, refreshes, lock, faults, reached, repeated,
                   troubled>>

-----------------------------------------------------------------------------

\* Mutant: the client's answer is recorded and its connection kept.
GiveUpConnected(c) ==
    /\ waitsFor[c] # NoHandler
    /\ Fault
    /\ answer' = [answer EXCEPT ![c] = "notFound"]
    /\ troubled' = troubled \cup {c}
    /\ UNCHANGED <<served, refreshes, handlerVars, waitsFor, lock, reached,
                   repeated, promised>>

\* The client's time is up, or the server's write timeout of 200 ms is and the
\* answer will not get through.  The handler does not stop.
GiveUp(c) ==
    /\ waitsFor[c] # NoHandler
    /\ Fault
    /\ answer' = [answer EXCEPT ![c] = "failed"]
    /\ waitsFor' = [waitsFor EXCEPT ![c] = NoHandler]
    /\ troubled' = troubled \cup {c}
    /\ UNCHANGED <<served, refreshes, handlerVars, lock, reached, repeated,
                   promised>>

\* The task of a message completes, or the lock's time is over.
LockEnds(key) ==
    /\ key \in lock
    /\ lock' = lock \ {key}
    /\ UNCHANGED <<served, refreshes, handlerVars, clientVars, faults,
                   history>>

Work(h) ==
    \/ Publish(h)
    \/ PublishRefused(h)
    \/ \E isStored \in BOOLEAN : PublishFails(h, isStored)
    \/ AnswerOk(h)

Next ==
    \/ \E s \in Listing \cup {NotServed} : Refresh(s)
    \/ \E c \in Client, h \in Handler : Request(c, h)
    \/ \E c \in Client : RequestNotFound(c) \/ GiveUp(c)
    \/ \E h \in Handler : Work(h)
    \/ \E key \in Data \X Consumer : LockEnds(key)

Spec == Init /\ [][Next]_vars

\* Handlers make progress, locks end, and clients post again until they are
\* answered with a success or a 404; requests for a free handler are queued.
Fairness ==
    /\ \A h \in Handler : WF_vars(Work(h))
    /\ \A key \in Data \X Consumer : WF_vars(LockEnds(key))
    /\ \A c \in Client : SF_vars(\E h \in Handler : Request(c, h))
                         /\ WF_vars(RequestNotFound(c))

FairSpec == Spec /\ Fairness

-----------------------------------------------------------------------------
\* Properties.

\* A client that is told of a success can rely on it: every consumer the event
\* had when that request was accepted got the message, whatever failed before,
\* however the catalog changed meanwhile, and with former handlers of the client
\* still at work.
PromiseKept == \A c \in Client : promised[c] \subseteq reached[c]

\* A consumer gets a client's message twice only if a request of that client
\* failed or was given up.
DuplicatesOnlyAfterFailure ==
    \A c \in Client : repeated[c] # {} => c \in troubled

\* With unique_ttl no client is turned away for good: one that keeps trying is
\* answered once faults and refreshes are over, even if its own half-published
\* event or the equal event of another client holds the locks.
RetriesGetThrough ==
    \A c \in Client : []<>(answer[c] \in {"ok", "notFound"})
=============================================================================
