----------------------------- MODULE Lifecycle -----------------------------
(***************************************************************************)
(* The life of the replicas of gqueue (cmd/api): main starts the services  *)
(* of its scope, waits for a signal, shuts the HTTP servers down one after *)
(* the other within one time limit, runs the closers, and returns, which   *)
(* ends the process whatever its goroutines are doing.                     *)
(*                                                                         *)
(* At start each subscriber creates its topic and its subscription unless  *)
(* they exist.  The replicas do this side by side, on a Pub/Sub that all   *)
(* of them share, and a subscriber that gets an error returns for good.    *)
(*                                                                         *)
(* External: net/http (Shutdown), os/signal, the asynq server, which       *)
(* listens for signals itself, Pub/Sub, and whoever starts replicas again. *)
(***************************************************************************)
EXTENDS Naturals, Sequences

CONSTANTS
    Process,    \* the replicas
    Scope,      \* the services each starts, in main's order
    Topic,      \* each with a subscriber in each process
    Request,    \* HTTP requests that may be under way at a time
    MaxEvents,  \* starts and faults, taken together
    None

Service == {"backoffice", "pubsub", "task"}

\* A request is under way at a server of a process.
Connection == [proc : Process, service : Service]

ASSUME ScopeAssumption == Scope \in [Process -> Seq(Service)]
ASSUME BoundAssumption == MaxEvents \in Nat
ASSUME NoneAssumption == None \notin Process \cup Connection

VARIABLES
    phase,      \* what main is doing
    at,         \* services started, servers shut down or clients closed so far
    expired,    \* the 15 seconds for all servers have passed
    open,       \* the services whose http.Server listens
    worker,     \* the asynq server of the process
    sub,        \* where the goroutine of each subscriber is
    topicBy,    \* who created the topic (None: it does not exist)
    subBy,      \* who created the subscription
    req,        \* the requests: where each is under way
    launches,   \* starts of a process so far
    faults,
    hit         \* history: subscribers a fault has ended since they started

mainVars == <<phase, at, expired>>
resources == <<topicBy, subBy>>
vars == <<mainVars, open, worker, sub, resources, req, launches,
          faults, hit>>

\* scopeOrAll
Starts(p, s) == \E i \in 1 .. Len(Scope[p]) : Scope[p][i] = s

\* The services whose client a closer closes, in the order of the closers.
Closers(p) ==
    (IF Starts(p, "pubsub") THEN <<"pubsub">> ELSE <<>>)
    \o (IF Starts(p, "task") THEN <<"task">> ELSE <<>>)

TypeOK ==
    /\ phase \in [Process -> {"off", "starting", "waiting", "draining", "closing"}]
    /\ at \in [Process -> Nat]
    /\ \A p \in Process :
           at[p] <= Len(IF phase[p] = "closing" THEN Closers(p) ELSE Scope[p])
    /\ expired \in [Process -> BOOLEAN]
    /\ open \in [Process -> SUBSET Service]
    /\ worker \in [Process -> {"none", "running", "stopped"}]
    /\ sub \in [Process -> [Topic -> {"none", "checkTopic", "createTopic",
                                      "checkSub", "createSub", "receiving", "ended"}]]
    /\ topicBy \in [Topic -> Process \cup {None}]
    /\ subBy \in [Topic -> Process \cup {None}]
    /\ \A t \in Topic : subBy[t] # None => topicBy[t] # None
    /\ req \in [Request -> Connection \cup {None}]
    /\ launches \in 0 .. MaxEvents
    /\ faults \in 0 .. MaxEvents
    /\ hit \subseteq Process \X Topic

Init ==
    /\ phase = [p \in Process |-> "off"]
    /\ at = [p \in Process |-> 0]
    /\ expired = [p \in Process |-> FALSE]
    /\ open = [p \in Process |-> {}]
    /\ worker = [p \in Process |-> "none"]
    /\ sub = [p \in Process |-> [t \in Topic |-> "none"]]
    /\ topicBy = [t \in Topic |-> None]
    /\ subBy = [t \in Topic |-> None]
    /\ req = [r \in Request |-> None]
    /\ launches = 0
    /\ faults = 0
    /\ hit = {}

Fault ==
    /\ launches + faults < MaxEvents
    /\ faults' = faults + 1

Up(p) == phase[p] # "off"

ClientClosed(p, s) ==
    /\ phase[p] = "closing"
    /\ \E i \in 1 .. at[p] : Closers(p)[i] = s

\* The requests a server of the process works on.
Active(p, s) == {r \in Request : req[r] = [proc |-> p, service |-> s]}

-----------------------------------------------------------------------------
(* Start *)

Launch(p) ==
    /\ phase[p] = "off"
    /\ launches + faults < MaxEvents
    /\ launches' = launches + 1
    /\ phase' = [phase EXCEPT ![p] = "starting"]
    /\ UNCHANGED <<at, expired, open, worker, sub, resources, req,
                   faults, hit>>

\* Start of a service: its goroutines are created, that of the server among
\* them, and get on when they are scheduled.
BackofficeStarts(p) ==
    /\ open' = [open EXCEPT ![p] = @ \cup {"backoffice"}]
    /\ UNCHANGED <<sub, worker>>

PubsubStarts(p) ==
    /\ open' = [open EXCEPT ![p] = @ \cup {"pubsub"}]
    /\ sub' = [sub EXCEPT ![p] = [t \in Topic |-> "checkTopic"]]
    /\ UNCHANGED worker

TaskStarts(p) ==
    /\ open' = [open EXCEPT ![p] = @ \cup {"task"}]
    /\ worker' = [worker EXCEPT ![p] = "running"]
    /\ UNCHANGED sub

StartService(p) ==
    /\ phase[p] = "starting"
    /\ at[p] < Len(Scope[p])
    /\ at' = [at EXCEPT ![p] = @ + 1]
    /\ LET s == Scope[p][at[p] + 1] IN
           \/ s = "backoffice" /\ BackofficeStarts(p)
           \/ s = "pubsub" /\ PubsubStarts(p)
           \/ s = "task" /\ TaskStarts(p)
    /\ UNCHANGED <<phase, expired, resources, req, launches, faults, hit>>

\* signal.Notify in waitForShutdown.
WaitForShutdown(p) ==
    /\ phase[p] = "starting"
    /\ at[p] = Len(Scope[p])
    /\ phase' = [phase EXCEPT ![p] = "waiting"]
    /\ at' = [at EXCEPT ![p] = 0]
    /\ UNCHANGED <<expired, open, worker, sub, resources, req,
                   launches, faults, hit>>

\* ListenAndServe returns, mostly at once because the port is taken: the error
\* is logged and the process goes on.
ListenFails(p, s) ==
    /\ Fault
    /\ s \in open[p]
    /\ open' = [open EXCEPT ![p] = @ \ {s}]
    /\ UNCHANGED <<mainVars, worker, sub, resources, req, launches, hit>>

-----------------------------------------------------------------------------
(* Subscribers *)

Subscriber(p, t, from, to) ==
    /\ sub[p][t] = from
    /\ ~ClientClosed(p, "pubsub")
    /\ sub' = [sub EXCEPT ![p][t] = to]
    /\ UNCHANGED <<mainVars, open, worker, req, launches, faults, hit>>

\* Mutant: the topic is created without a look at whether it exists.
TopicUnchecked(p, t) ==
    /\ Subscriber(p, t, "checkTopic", "createTopic")
    /\ UNCHANGED resources

TopicExists(p, t) ==
    /\ Subscriber(p, t, "checkTopic",
                  IF topicBy[t] # None THEN "checkSub" ELSE "createTopic")
    /\ UNCHANGED resources

\* Mutant: a created topic is taken for an error as well.
CreateTopicAndEnd(p, t) ==
    /\ Subscriber(p, t, "createTopic", "ended")
    /\ topicBy' = [topicBy EXCEPT ![t] = IF @ = None THEN p ELSE @]
    /\ UNCHANGED subBy

\* CreateTopic; AlreadyExists is an error like any other, and ends the
\* subscriber.
CreateTopic(p, t) ==
    /\ Subscriber(p, t, "createTopic",
                  IF topicBy[t] = None THEN "checkSub" ELSE "ended")
    /\ topicBy' = [topicBy EXCEPT ![t] = IF @ = None THEN p ELSE @]
    /\ UNCHANGED subBy

SubscriptionExists(p, t) ==
    /\ Subscriber(p, t, "checkSub",
                  IF subBy[t] # None THEN "receiving" ELSE "createSub")
    /\ UNCHANGED resources

CreateSubscription(p, t) ==
    /\ Subscriber(p, t, "createSub",
                  IF subBy[t] = None THEN "receiving" ELSE "ended")
    /\ subBy' = [subBy EXCEPT ![t] = IF @ = None THEN p ELSE @]
    /\ UNCHANGED topicBy

\* A call of the subscriber fails, or Receive does.  A Create that failed may
\* have created all the same.
SubscriberFails(p, t) ==
    /\ Fault
    /\ sub[p][t] \notin {"none", "ended"}
    /\ sub' = [sub EXCEPT ![p][t] = "ended"]
    /\ hit' = hit \cup {<<p, t>>}
    /\ \/ UNCHANGED resources
       \/ /\ sub[p][t] = "createTopic" /\ topicBy[t] = None
          /\ topicBy' = [topicBy EXCEPT ![t] = p]
          /\ UNCHANGED subBy
       \/ /\ sub[p][t] = "createSub" /\ subBy[t] = None
          /\ subBy' = [subBy EXCEPT ![t] = p]
          /\ UNCHANGED topicBy
    /\ UNCHANGED <<mainVars, open, worker, req, launches>>

\* The client was closed under the subscriber.
SubscriberEnds(p, t) ==
    /\ ClientClosed(p, "pubsub")
    /\ sub[p][t] \notin {"none", "ended"}
    /\ sub' = [sub EXCEPT ![p][t] = "ended"]
    /\ UNCHANGED <<mainVars, open, worker, resources, req, launches,
                   faults, hit>>

-----------------------------------------------------------------------------
(* HTTP requests *)

Arrive(p, s, r) ==
    /\ s \in open[p]
    /\ req[r] = None
    /\ req' = [req EXCEPT ![r] = [proc |-> p, service |-> s]]
    /\ UNCHANGED <<mainVars, open, worker, sub, resources, launches,
                   faults, hit>>

Answer(p, s, r) ==
    /\ r \in Active(p, s)
    /\ req' = [req EXCEPT ![r] = None]
    /\ UNCHANGED <<mainVars, open, worker, sub, resources, launches,
                   faults, hit>>

-----------------------------------------------------------------------------
(* Stop *)

\* The process is gone, whatever its handlers and goroutines were doing.  What
\* its callbacks held comes back (Restart of PubSubDelivery, Requeue and
\* LeaseExpires of TaskDelivery).
Die(p) ==
    /\ phase' = [phase EXCEPT ![p] = "off"]
    /\ at' = [at EXCEPT ![p] = 0]
    /\ expired' = [expired EXCEPT ![p] = FALSE]
    /\ open' = [open EXCEPT ![p] = {}]
    /\ worker' = [worker EXCEPT ![p] = "none"]
    /\ sub' = [sub EXCEPT ![p] = [t \in Topic |-> "none"]]
    /\ req' = [r \in Request |->
                  IF \E s \in Service : r \in Active(p, s) THEN None ELSE req[r]]
    /\ hit' = {h \in hit : h[1] # p}
    /\ UNCHANGED <<resources, launches>>

(***************************************************************************)
(* SIGINT or SIGTERM.  Go gives it to everyone who asked for it, and ends  *)
(* the process if nobody has.  main asks in waitForShutdown; asynqServer   *)
(* .Run asks too, some time after the task service was started, and stops  *)
(* the worker.  So a signal during the start may end the process, or be    *)
(* taken by asynq alone.                                                   *)
(***************************************************************************)
Signal(p) ==
    \/ /\ phase[p] = "starting"
       /\ worker[p] # "stopped"
       /\ Die(p)
       /\ UNCHANGED faults
    \/ /\ Up(p)
       /\ worker[p] # "none" \/ phase[p] # "starting"
       /\ phase' = [phase EXCEPT ![p] = IF @ = "waiting" THEN "draining" ELSE @]
       /\ worker' = [worker EXCEPT ![p] = IF @ = "running" THEN "stopped" ELSE @]
       /\ UNCHANGED <<at, expired, open, sub, resources, req, launches,
                      faults, hit>>

\* The server whose turn it is in the loop of waitForShutdown.
Draining(p) == Scope[p][at[p] + 1]

\* server.Shutdown closes the listener first.
CloseListener(p) ==
    /\ phase[p] = "draining"
    /\ at[p] < Len(Scope[p])
    /\ Draining(p) \in open[p]
    /\ open' = [open EXCEPT ![p] = @ \ {Draining(p)}]
    /\ UNCHANGED <<mainVars, worker, sub, resources, req, launches,
                   faults, hit>>

\* Mutant: http.Server.Close, which waits for nobody.
CloseReturns(p) ==
    /\ phase[p] = "draining"
    /\ at[p] < Len(Scope[p])
    /\ Draining(p) \notin open[p]
    /\ at' = [at EXCEPT ![p] = @ + 1]
    /\ UNCHANGED <<phase, expired, open, worker, sub, resources, req,
                   launches, faults, hit>>

\* Mutant: Shutdown with a context that never ends.
ShutdownWaits(p) ==
    /\ phase[p] = "draining"
    /\ at[p] < Len(Scope[p])
    /\ Draining(p) \notin open[p]
    /\ Active(p, Draining(p)) = {}
    /\ at' = [at EXCEPT ![p] = @ + 1]
    /\ UNCHANGED <<phase, expired, open, worker, sub, resources, req,
                   launches, faults, hit>>

\* server.Shutdown returns, when its requests are answered or at the end of
\* the time all servers share.
ShutdownReturns(p) ==
    /\ phase[p] = "draining"
    /\ at[p] < Len(Scope[p])
    /\ Draining(p) \notin open[p]
    /\ Active(p, Draining(p)) = {} \/ expired[p]
    /\ at' = [at EXCEPT ![p] = @ + 1]
    /\ UNCHANGED <<phase, expired, open, worker, sub, resources, req,
                   launches, faults, hit>>

\* The context of waitForShutdown ends.  Time passes while a Shutdown waits for
\* requests; the other steps of main take none to speak of.
TimeExpires(p) ==
    /\ phase[p] = "draining"
    /\ at[p] < Len(Scope[p])
    /\ Active(p, Draining(p)) # {}
    /\ ~expired[p]
    /\ expired' = [expired EXCEPT ![p] = TRUE]
    /\ UNCHANGED <<phase, at, open, worker, sub, resources, req,
                   launches, faults, hit>>

\* Mutant: the loop over the servers is left after the first.
FirstServerShutDown(p) ==
    /\ phase[p] = "draining"
    /\ at[p] = 1
    /\ phase' = [phase EXCEPT ![p] = "closing"]
    /\ at' = [at EXCEPT ![p] = 0]
    /\ UNCHANGED <<expired, open, worker, sub, resources, req,
                   launches, faults, hit>>

\* Mutant: the closers are counted on from the servers.
ServersNotReset(p) ==
    /\ phase[p] = "draining"
    /\ at[p] = Len(Scope[p])
    /\ phase' = [phase EXCEPT ![p] = "closing"]
    /\ UNCHANGED <<at, expired, open, worker, sub, resources, req,
                   launches, faults, hit>>

AllServersShutDown(p) ==
    /\ phase[p] = "draining"
    /\ at[p] = Len(Scope[p])
    /\ phase' = [phase EXCEPT ![p] = "closing"]
    /\ at' = [at EXCEPT ![p] = 0]
    /\ UNCHANGED <<expired, open, worker, sub, resources, req,
                   launches, faults, hit>>

\* Service.Close: the client of the Pub/Sub or the task service.
CloseClient(p) ==
    /\ phase[p] = "closing"
    /\ at[p] < Len(Closers(p))
    /\ at' = [at EXCEPT ![p] = @ + 1]
    /\ UNCHANGED <<phase, expired, open, worker, sub, resources, req,
                   launches, faults, hit>>

\* telemetry.Shutdown, and main returns.
MainReturns(p) ==
    /\ phase[p] = "closing"
    /\ at[p] = Len(Closers(p))
    /\ Die(p)
    /\ UNCHANGED faults

\* A panic, a log.Fatalf at start, or a kill.
Crash(p) ==
    /\ Fault
    /\ Up(p)
    /\ Die(p)

-----------------------------------------------------------------------------

Main(p) ==
    \/ StartService(p) \/ WaitForShutdown(p)
    \/ CloseListener(p) \/ ShutdownReturns(p) \/ AllServersShutDown(p)
    \/ CloseClient(p) \/ MainReturns(p)

Setup(p, t) ==
    \/ TopicExists(p, t) \/ CreateTopic(p, t)
    \/ SubscriptionExists(p, t) \/ CreateSubscription(p, t)

Next ==
    \/ \E p \in Process :
           \/ Launch(p) \/ Main(p) \/ TimeExpires(p)
           \/ Signal(p) \/ Crash(p)
    \/ \E p \in Process, t \in Topic :
           \/ Setup(p, t) \/ SubscriberFails(p, t) \/ SubscriberEnds(p, t)
    \/ \E p \in Process, s \in Service :
           \/ ListenFails(p, s)
           \/ \E r \in Request : Arrive(p, s, r) \/ Answer(p, s, r)

Spec == Init /\ [][Next]_vars

(***************************************************************************)
(* main and the subscribers get on with their work, and the 15 seconds     *)
(* pass.  Nothing is assumed of HTTP handlers, of signals, or of whoever   *)
(* starts replicas.                                                        *)
(***************************************************************************)
Fairness ==
    /\ \A p \in Process :
           /\ WF_vars(Main(p))
           /\ WF_vars(TimeExpires(p))
    /\ \A p \in Process, t \in Topic :
           /\ WF_vars(Setup(p, t))

FairSpec == Spec /\ Fairness

-----------------------------------------------------------------------------
(* Properties *)

\* A process ends without having answered the requests it accepted only if the
\* 15 seconds are over, if it was still starting (nobody waits for requests
\* then), or in a crash: waitForShutdown, also for requests that arrive at a
\* later server while an earlier one is being shut down.
RequestsAreAnswered ==
    [][\A p \in Process :
          Up(p) /\ ~Up(p)' /\ (\E s \in Service : Active(p, s) # {}) =>
              expired[p] \/ phase[p] = "starting" \/ faults' > faults]_vars

\* A publish handler finds its client closed only after the 15 seconds: main
\* runs the closers after all servers are shut down.
ClientOutlivesHandlers ==
    \A p \in Process, s \in Service :
        Active(p, s) # {} /\ ClientClosed(p, s) => expired[p]

\* A signal that reaches main ends the process, however long its handlers and
\* callbacks hang.
SignalledExits ==
    \A p \in Process : phase[p] = "draining" ~> phase[p] = "off"

\* A subscriber that ended without a fault, and not because its client was
\* closed, was not alone: its topic or its subscription was created by another
\* replica.
GivesUpOnlyAfterRace ==
    \A p \in Process, t \in Topic :
        sub[p][t] = "ended" /\ <<p, t>> \notin hit /\ ~ClientClosed(p, "pubsub") =>
            topicBy[t] \notin {p, None} \/ subBy[t] \notin {p, None}

Subscribers == {p \in Process : Starts(p, "pubsub")}

\* If from some time on all replicas stay up and no subscriber was ended by a
\* fault, then each topic is worked on by at least one of them for good.  (Not
\* if one of them stays down: the others may all have lost their race to it.)
SomebodyListens ==
    \A t \in Topic :
        <>[](/\ Subscribers # {}
             /\ \A p \in Subscribers : phase[p] \in {"starting", "waiting"}
                                       /\ <<p, t>> \notin hit)
            => <>[](\E p \in Subscribers : sub[p][t] = "receiving")
=============================================================================
