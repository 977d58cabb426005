-------------------------- MODULE Lifecycle_proofs --------------------------
(***************************************************************************)
(* Proofs about Lifecycle, for any processes, scopes, topics, requests and *)
(* numbers of faults: the order in which main stops what it has started.   *)
(***************************************************************************)
EXTENDS Lifecycle, TLAPS

-----------------------------------------------------------------------------
\* The inductive invariant, part by part.

\* The types of what matters for the order.
Typed ==
    /\ phase \in [Process -> {"off", "starting", "waiting", "draining", "closing"}]
    /\ at \in [Process -> Nat]
    /\ expired \in [Process -> BOOLEAN]
    /\ open \in [Process -> SUBSET Service]
    /\ req \in [Request -> Connection \cup {None}]
    /\ faults \in Nat

InScope(p) == {Scope[p][i] : i \in 1 .. Len(Scope[p])}

\* Only servers that main will shut down listen and have requests.
ScopeOnly ==
    \A p \in Process :
        /\ open[p] \subseteq InScope(p)
        /\ \A s \in Service : Active(p, s) # {} => s \in InScope(p)

\* A server that main has nothing to wait for.
Settled(p, s) ==
    /\ s \notin open[p]
    /\ Active(p, s) = {} \/ expired[p]

\* The loop over the servers begins at the first and leaves settled ones behind.
WaitingAtZero == \A p \in Process : phase[p] = "waiting" => at[p] = 0

DrainedInOrder ==
    \A p \in Process : phase[p] = "draining" =>
        /\ at[p] <= Len(Scope[p])
        /\ \A i \in 1 .. at[p] : Settled(p, Scope[p][i])

ClosingSettled ==
    \A p \in Process : phase[p] = "closing" => \A s \in Service : Settled(p, s)

Order == ScopeOnly /\ WaitingAtZero /\ DrainedInOrder /\ ClosingSettled

Inv == Typed /\ Order

-----------------------------------------------------------------------------
\* What several actions do.

LEMMA ScopeFacts ==
    ASSUME NEW p \in Process
    PROVE  /\ Len(Scope[p]) \in Nat
           /\ \A i \in 1 .. Len(Scope[p]) : Scope[p][i] \in Service
           /\ InScope(p) \subseteq Service
  BY ScopeAssumption DEF InScope

\* A step that opens no server and brings no request leaves the order as it is.
LEMMA Quiet ==
    ASSUME Inv, UNCHANGED <<phase, at>>,
           \A p \in Process : open'[p] \subseteq open[p] /\ (expired[p] => expired'[p]),
           \A p \in Process, s \in Service : Active(p, s)' \subseteq Active(p, s)
    PROVE  Order'
  <1>1. ScopeOnly'
    BY DEF Inv, Order, ScopeOnly, InScope
  <1>2. WaitingAtZero'
    BY DEF Inv, Order, WaitingAtZero
  <1>3. \A p \in Process, s \in Service : Settled(p, s) => Settled(p, s)'
    BY DEF Settled
  <1>4. DrainedInOrder'
    <2>1. \A p \in Process : at[p] \in Nat
      BY DEF Inv, Typed
    <2> QED
      BY <1>3, <2>1, ScopeFacts DEF Inv, Order, DrainedInOrder
  <1>5. ClosingSettled'
    BY <1>3 DEF Inv, Order, ClosingSettled
  <1> QED
    BY <1>1, <1>2, <1>4, <1>5 DEF Order

\* The end of a process leaves the others alone.
LEMMA DeathKeepsOrder ==
    ASSUME Inv, NEW p \in Process, Die(p), faults' \in Nat
    PROVE  Inv'
  <1>1. Typed'
    BY DEF Inv, Typed, Die
  <1>2. /\ \A q \in Process : q # p =>
               /\ phase'[q] = phase[q] /\ at'[q] = at[q]
               /\ open'[q] = open[q] /\ expired'[q] = expired[q]
        /\ phase'[p] = "off" /\ open'[p] = {}
    BY DEF Inv, Typed, Die
  <1>3. \A q \in Process, s \in Service :
            Active(q, s)' \subseteq Active(q, s) /\ (q = p => Active(q, s)' = {})
    <2> TAKE q \in Process, s \in Service
    <2> DEFINE c == [proc |-> q, service |-> s]
    <2>1. c \in Connection /\ c # None
      BY NoneAssumption DEF Connection
    <2>2. ASSUME NEW r \in Request, req'[r] = c
          PROVE  req[r] = c /\ q # p
      BY <2>1, <2>2 DEF Die, Active
    <2> QED
      BY <2>2 DEF Active
  <1>4. ScopeOnly'
    BY <1>2, <1>3 DEF Inv, Order, ScopeOnly, InScope
  <1>5. WaitingAtZero'
    BY <1>2 DEF Inv, Order, WaitingAtZero
  <1>6. \A q \in Process, s \in Service : q # p => (Settled(q, s) => Settled(q, s)')
    BY <1>2, <1>3 DEF Settled
  <1>7. DrainedInOrder'
    <2>1. \A q \in Process : at[q] \in Nat
      BY DEF Inv, Typed
    <2> QED
      BY <1>2, <1>6, <2>1, ScopeFacts DEF Inv, Order, DrainedInOrder
  <1>8. ClosingSettled'
    BY <1>2, <1>6 DEF Inv, Order, ClosingSettled
  <1> QED
    BY <1>1, <1>4, <1>5, <1>7, <1>8 DEF Inv, Order

-----------------------------------------------------------------------------
\* Each action.

LEMMA InitInv == Init => Inv
  <1> SUFFICES ASSUME Init PROVE Inv
    OBVIOUS
  <1>1. Typed
    BY DEF Init, Typed
  <1>2. \A p \in Process, s \in Service : Active(p, s) = {}
    <2> TAKE p \in Process, s \in Service
    <2> DEFINE c == [proc |-> p, service |-> s]
    <2>1. c \in Connection /\ c # None
      BY NoneAssumption DEF Connection
    <2> QED
      BY <2>1 DEF Init, Active
  <1>3. Order
    BY <1>2 DEF Init, Order, ScopeOnly, WaitingAtZero, DrainedInOrder, ClosingSettled
  <1> QED
    BY <1>1, <1>3 DEF Inv

\* The start: main is neither waiting nor stopping anything yet.
LEMMA StartKeepsInv ==
    ASSUME Inv, NEW p \in Process, Launch(p) \/ StartService(p) \/ WaitForShutdown(p)
    PROVE  Inv'
  <1>1. Typed'
    <2>1. CASE Launch(p) \/ WaitForShutdown(p)
      BY <2>1 DEF Inv, Typed, Launch, WaitForShutdown
    <2>2. CASE StartService(p)
      <3>1. UNCHANGED <<phase, expired, req, faults>>
        BY <2>2 DEF StartService
      <3>2. at' \in [Process -> Nat]
        BY <2>2 DEF Inv, Typed, StartService
      <3>3. open' \in [Process -> SUBSET Service]
        BY <2>2 DEF Inv, Typed, StartService, BackofficeStarts, PubsubStarts, TaskStarts, Service
      <3> QED
        BY <3>1, <3>2, <3>3 DEF Inv, Typed
    <2> QED
      BY <2>1, <2>2
  <1>2. /\ phase'[p] \in {"starting", "waiting"}
        /\ phase'[p] = "waiting" => at'[p] = 0
        /\ \A q \in Process : q # p =>
               phase'[q] = phase[q] /\ at'[q] = at[q] /\ open'[q] = open[q]
        /\ UNCHANGED <<expired, req>>
    BY DEF Inv, Typed, Launch, StartService, WaitForShutdown,
        BackofficeStarts, PubsubStarts, TaskStarts
  <1>3. open'[p] \subseteq open[p] \cup InScope(p)
    <2>1. CASE StartService(p)
      <3> DEFINE s == Scope[p][at[p] + 1]
      <3>1. s \in InScope(p)
        BY <2>1, ScopeFacts DEF Inv, Typed, StartService, InScope
      <3>2. open'[p] = open[p] \cup {s}
        BY <2>1 DEF Inv, Typed, StartService, BackofficeStarts, PubsubStarts, TaskStarts
      <3> QED
        BY <3>1, <3>2
    <2>2. CASE Launch(p) \/ WaitForShutdown(p)
      BY <2>2 DEF Launch, WaitForShutdown
    <2> QED
      BY <2>1, <2>2
  <1>4. \A q \in Process, s \in Service : Active(q, s)' = Active(q, s)
    BY <1>2 DEF Active
  <1>5. ScopeOnly'
    BY <1>2, <1>3, <1>4 DEF Inv, Order, ScopeOnly, InScope
  <1>6. WaitingAtZero'
    BY <1>2 DEF Inv, Order, WaitingAtZero
  <1>7. \A q \in Process, s \in Service : q # p => (Settled(q, s) => Settled(q, s)')
    BY <1>2, <1>4 DEF Settled
  <1>8. DrainedInOrder'
    <2>1. \A q \in Process : at[q] \in Nat
      BY DEF Inv, Typed
    <2> QED
      BY <1>2, <1>7, <2>1, ScopeFacts DEF Inv, Order, DrainedInOrder
  <1>9. ClosingSettled'
    BY <1>2, <1>7 DEF Inv, Order, ClosingSettled
  <1> QED
    BY <1>1, <1>5, <1>6, <1>8, <1>9 DEF Inv, Order

\* A request arrives where a server still listens, so nowhere that main has
\* left behind.
LEMMA ArriveKeepsInv ==
    ASSUME Inv, NEW p \in Process, NEW s \in Service, NEW r \in Request, Arrive(p, s, r)
    PROVE  Inv'
  <1>1. Typed'
    BY DEF Inv, Typed, Arrive, Connection, mainVars
  <1>2. UNCHANGED <<phase, at, expired, open>> /\ s \in open[p]
    BY DEF Arrive, mainVars
  <1>3. \A q \in Process, t \in Service :
            <<q, t>> # <<p, s>> => Active(q, t)' \subseteq Active(q, t)
    <2> TAKE q \in Process, t \in Service
    <2> HAVE <<q, t>> # <<p, s>>
    <2> DEFINE c == [proc |-> q, service |-> t]
    <2>1. c # [proc |-> p, service |-> s]
      OBVIOUS
    <2>2. \A x \in Request : req'[x] = c => req[x] = c
      BY <2>1 DEF Inv, Typed, Arrive
    <2> QED
      BY <2>2 DEF Active
  <1>4. \A q \in Process, t \in Service : Settled(q, t) => Settled(q, t)'
    BY <1>2, <1>3 DEF Settled
  <1>5. ScopeOnly'
    <2> SUFFICES ASSUME NEW q \in Process
                 PROVE  /\ open[q] \subseteq InScope(q)
                        /\ \A t \in Service : Active(q, t)' # {} => t \in InScope(q)
      BY <1>2 DEF ScopeOnly, InScope
    <2>1. open[q] \subseteq InScope(q)
      BY DEF Inv, Order, ScopeOnly
    <2>2. ASSUME NEW t \in Service, Active(q, t)' # {} PROVE t \in InScope(q)
      <3>1. CASE <<q, t>> = <<p, s>>
        BY <1>2, <2>1, <3>1
      <3>2. CASE <<q, t>> # <<p, s>>
        BY <1>3, <2>2, <3>2 DEF Inv, Order, ScopeOnly
      <3> QED
        BY <3>1, <3>2
    <2> QED
      BY <2>1, <2>2
  <1>6. WaitingAtZero' /\ ClosingSettled'
    BY <1>2, <1>4 DEF Inv, Order, WaitingAtZero, ClosingSettled
  <1>7. DrainedInOrder'
    <2>1. \A q \in Process : at[q] \in Nat
      BY DEF Inv, Typed
    <2> QED
      BY <1>2, <1>4, <2>1, ScopeFacts DEF Inv, Order, DrainedInOrder
  <1> QED
    BY <1>1, <1>5, <1>6, <1>7 DEF Inv, Order

\* A signal that main takes finds it at the first server.
LEMMA SignalKeepsInv ==
    ASSUME Inv, NEW p \in Process, Signal(p), ~Die(p)
    PROVE  Inv'
  <1>1. /\ Up(p)
        /\ phase' = [phase EXCEPT ![p] = IF @ = "waiting" THEN "draining" ELSE @]
        /\ UNCHANGED <<at, expired, open, req, faults>>
    BY DEF Signal, resources
  <1>2. Typed'
    BY <1>1 DEF Inv, Typed
  <1>3. \A q \in Process, s \in Service : Settled(q, s)' = Settled(q, s)
    BY <1>1 DEF Settled, Active
  <1>4. ScopeOnly'
    BY <1>1 DEF Inv, Order, ScopeOnly, InScope, Active
  <1>5. \A q \in Process :
            /\ phase'[q] = "waiting" => phase[q] = "waiting"
            /\ phase'[q] = "closing" => phase[q] = "closing"
            /\ phase'[q] = "draining" => phase[q] = "draining" \/ phase[q] = "waiting"
    BY <1>1 DEF Inv, Typed
  <1>6. WaitingAtZero' /\ ClosingSettled'
    BY <1>1, <1>3, <1>5 DEF Inv, Order, WaitingAtZero, ClosingSettled
  <1>7. DrainedInOrder'
    <2> SUFFICES ASSUME NEW q \in Process, phase'[q] = "draining"
                 PROVE  /\ at[q] <= Len(Scope[q])
                        /\ \A i \in 1 .. at[q] : Settled(q, Scope[q][i])'
      BY <1>1 DEF DrainedInOrder
    <2>1. CASE phase[q] = "draining"
      <3>1. at[q] \in Nat /\ at[q] <= Len(Scope[q])
            /\ \A i \in 1 .. at[q] : Settled(q, Scope[q][i]) /\ Scope[q][i] \in Service
        BY <2>1, ScopeFacts DEF Inv, Typed, Order, DrainedInOrder
      <3> QED
        BY <1>3, <3>1
    <2>2. CASE phase[q] = "waiting"
      BY <2>2, ScopeFacts DEF Inv, Order, WaitingAtZero
    <2> QED
      BY <1>5, <2>1, <2>2
  <1> QED
    BY <1>2, <1>4, <1>6, <1>7 DEF Inv, Order

\* The steps of subscribers.
LEMMA SubscriberKeepsInv ==
    ASSUME Inv, NEW p \in Process, NEW t \in Topic,
           Setup(p, t) \/ SubscriberFails(p, t) \/ SubscriberEnds(p, t)
    PROVE  Inv'
  <1>1. /\ UNCHANGED <<phase, at, expired, open, req>>
        /\ faults' = faults \/ faults' = faults + 1
    BY DEF Setup, TopicExists, CreateTopic, SubscriptionExists, CreateSubscription,
        Subscriber, SubscriberFails, SubscriberEnds, Fault, mainVars
  <1>2. Typed'
    BY <1>1 DEF Inv, Typed
  <1>3. Order'
    BY <1>1, Quiet DEF Active
  <1> QED
    BY <1>2, <1>3 DEF Inv

\* Servers that stop listening, requests that are answered, time that passes.
LEMMA QuietKeepsInv ==
    ASSUME Inv, NEW p \in Process,
           \/ CloseListener(p) \/ TimeExpires(p)
           \/ \E s \in Service :
                 ListenFails(p, s) \/ (\E r \in Request : Answer(p, s, r))
    PROVE  Inv'
  <1>1. CASE CloseListener(p)
    <2>1. Typed' /\ UNCHANGED <<phase, at, expired, req>>
          /\ \A q \in Process : open'[q] \subseteq open[q]
      BY <1>1 DEF Inv, Typed, CloseListener, mainVars
    <2> QED
      BY <2>1, Quiet DEF Inv, Active
  <1>2. CASE TimeExpires(p)
    <2>1. Typed' /\ UNCHANGED <<phase, at, open, req>>
          /\ \A q \in Process : expired[q] => expired'[q]
      BY <1>2 DEF Inv, Typed, TimeExpires
    <2> QED
      BY <2>1, Quiet DEF Inv, Active
  <1>3. ASSUME NEW s \in Service, ListenFails(p, s) PROVE Inv'
    <2>1. Typed' /\ UNCHANGED <<phase, at, expired, req>>
          /\ \A q \in Process : open'[q] \subseteq open[q]
      BY <1>3 DEF Inv, Typed, ListenFails, Fault, mainVars
    <2> QED
      BY <2>1, Quiet DEF Inv, Active
  <1>4. ASSUME NEW s \in Service, NEW r \in Request, Answer(p, s, r) PROVE Inv'
    <2>1. Typed' /\ UNCHANGED <<phase, at, expired, open>>
      BY <1>4 DEF Inv, Typed, Answer, mainVars
    <2>2. \A q \in Process, t \in Service : Active(q, t)' \subseteq Active(q, t)
      <3> TAKE q \in Process, t \in Service
      <3> DEFINE c == [proc |-> q, service |-> t]
      <3>1. c # None
        BY NoneAssumption DEF Connection
      <3>2. \A x \in Request : req'[x] = c => req[x] = c
        BY <1>4, <3>1 DEF Inv, Typed, Answer
      <3> QED
        BY <3>2 DEF Active
    <2> QED
      BY <2>1, <2>2, Quiet DEF Inv
  <1> QED
    BY <1>1, <1>2, <1>3, <1>4

\* The loop leaves a server whose listener is closed and whose requests are
\* answered or out of time.
LEMMA ShutdownKeepsInv ==
    ASSUME Inv, NEW p \in Process, ShutdownReturns(p)
    PROVE  Inv'
  <1>1. /\ UNCHANGED <<phase, expired, open, req, faults>>
        /\ at' = [at EXCEPT ![p] = @ + 1]
        /\ phase[p] = "draining" /\ at[p] < Len(Scope[p])
        /\ Settled(p, Scope[p][at[p] + 1])
    BY DEF ShutdownReturns, Settled, Draining
  <1>2. Typed'
    BY <1>1 DEF Inv, Typed
  <1>3. \A q \in Process, s \in Service : Settled(q, s)' = Settled(q, s)
    BY <1>1 DEF Settled, Active
  <1>4. ScopeOnly' /\ ClosingSettled'
    BY <1>1, <1>3 DEF Inv, Order, ScopeOnly, InScope, Active, ClosingSettled
  <1>5. WaitingAtZero'
    BY <1>1 DEF Inv, Typed, Order, WaitingAtZero
  <1>6. DrainedInOrder'
    <2> SUFFICES ASSUME NEW q \in Process, phase[q] = "draining"
                 PROVE  /\ at'[q] <= Len(Scope[q])
                        /\ \A i \in 1 .. at'[q] : Settled(q, Scope[q][i])'
      BY <1>1 DEF DrainedInOrder
    <2>1. /\ at[q] \in Nat /\ at[q] <= Len(Scope[q])
          /\ \A i \in 1 .. at[q] : Settled(q, Scope[q][i])
      BY DEF Inv, Typed, Order, DrainedInOrder
    <2>2. at'[q] = (IF q = p THEN at[q] + 1 ELSE at[q])
      BY <1>1 DEF Inv, Typed
    <2>3. /\ at'[q] <= Len(Scope[q])
          /\ \A i \in 1 .. at'[q] : Settled(q, Scope[q][i]) /\ Scope[q][i] \in Service
      BY <1>1, <2>1, <2>2, ScopeFacts
    <2> QED
      BY <1>3, <2>3
  <1> QED
    BY <1>2, <1>4, <1>5, <1>6 DEF Inv, Order

\* When the loop is through, all servers are settled, and those outside the
\* scope have neither a listener nor requests.
LEMMA AllShutDownKeepsInv ==
    ASSUME Inv, NEW p \in Process, AllServersShutDown(p)
    PROVE  Inv'
  <1>1. /\ UNCHANGED <<expired, open, req, faults>>
        /\ phase[p] = "draining" /\ at[p] = Len(Scope[p])
        /\ phase' = [phase EXCEPT ![p] = "closing"]
        /\ at' = [at EXCEPT ![p] = 0]
    BY DEF AllServersShutDown
  <1>2. Typed'
    BY <1>1 DEF Inv, Typed
  <1>3. \A q \in Process, s \in Service : Settled(q, s)' = Settled(q, s)
    BY <1>1 DEF Settled, Active
  <1>4. \A s \in Service : Settled(p, s)
    <2> TAKE s \in Service
    <2>1. s \in InScope(p) => Settled(p, s)
      BY <1>1, ScopeFacts DEF Inv, Order, DrainedInOrder, InScope
    <2>2. s \notin InScope(p) => Settled(p, s)
      BY DEF Inv, Order, ScopeOnly, Settled
    <2> QED
      BY <2>1, <2>2
  <1>5. \A q \in Process : q # p => phase'[q] = phase[q] /\ at'[q] = at[q]
    BY <1>1 DEF Inv, Typed
  <1>6. phase'[p] = "closing"
    BY <1>1 DEF Inv, Typed
  <1>7. ScopeOnly'
    BY <1>1 DEF Inv, Order, ScopeOnly, InScope, Active
  <1>8. WaitingAtZero' /\ ClosingSettled'
    BY <1>3, <1>4, <1>5, <1>6 DEF Inv, Order, WaitingAtZero, ClosingSettled
  <1>9. DrainedInOrder'
    <2>1. \A q \in Process : at[q] \in Nat
      BY DEF Inv, Typed
    <2> QED
      BY <1>3, <1>5, <1>6, <2>1, ScopeFacts DEF Inv, Order, DrainedInOrder
  <1> QED
    BY <1>2, <1>7, <1>8, <1>9 DEF Inv, Order

LEMMA CloseClientKeepsInv ==
    ASSUME Inv, NEW p \in Process, CloseClient(p)
    PROVE  Inv'
  <1>1. /\ UNCHANGED <<phase, expired, open, req, faults>>
        /\ phase[p] = "closing"
        /\ at' = [at EXCEPT ![p] = @ + 1]
    BY DEF CloseClient
  <1>2. Typed'
    BY <1>1 DEF Inv, Typed
  <1>3. \A q \in Process, s \in Service : Settled(q, s)' = Settled(q, s)
    BY <1>1 DEF Settled, Active
  <1>4. \A q \in Process : phase[q] # "closing" => at'[q] = at[q]
    BY <1>1 DEF Inv, Typed
  <1>5. ScopeOnly' /\ ClosingSettled' /\ WaitingAtZero'
    BY <1>1, <1>3, <1>4
       DEF Inv, Order, ScopeOnly, InScope, Active, ClosingSettled, WaitingAtZero
  <1>6. DrainedInOrder'
    <2>1. \A q \in Process : at[q] \in Nat
      BY DEF Inv, Typed
    <2> QED
      BY <1>1, <1>3, <1>4, <2>1, ScopeFacts DEF Inv, Order, DrainedInOrder
  <1> QED
    BY <1>2, <1>5, <1>6 DEF Inv, Order

LEMMA StutterKeepsInv ==
    ASSUME Inv, UNCHANGED vars
    PROVE  Inv'
  <1>1. UNCHANGED <<phase, at, expired, open, req, faults>>
    BY DEF vars, mainVars
  <1> QED
    BY <1>1, Quiet DEF Inv, Typed, Active

LEMMA NextKeepsInv == Inv /\ [Next]_vars => Inv'
  <1> SUFFICES ASSUME Inv, Next PROVE Inv'
    BY StutterKeepsInv
  <1>1. ASSUME NEW p \in Process,
               Launch(p) \/ Main(p) \/ TimeExpires(p) \/ Signal(p) \/ Crash(p)
        PROVE  Inv'
    <2>1. CASE Die(p)
      <3>1. faults' \in Nat
        BY <1>1, <2>1 DEF Inv, Typed, Die, Launch, Main, StartService, WaitForShutdown,
            CloseListener, ShutdownReturns, AllServersShutDown, CloseClient, MainReturns,
            TimeExpires, Signal, Crash, Fault
      <3> QED
        BY <2>1, <3>1, DeathKeepsOrder
    <2>2. CASE ~Die(p)
      BY <1>1, <2>2, StartKeepsInv, QuietKeepsInv, ShutdownKeepsInv, AllShutDownKeepsInv,
          CloseClientKeepsInv, SignalKeepsInv DEF Main, MainReturns, Crash
    <2> QED
      BY <2>1, <2>2
  <1> QED
    BY <1>1, SubscriberKeepsInv, QuietKeepsInv, ArriveKeepsInv DEF Next

LEMMA InvHolds == Spec => []Inv
  <1> QED
    BY InitInv, NextKeepsInv, PTL DEF Spec

-----------------------------------------------------------------------------

\* No publish handler finds its client closed before the 15 seconds are over
\* (main: the closers run after waitForShutdown).
THEOREM ClientCorrect == Spec => []ClientOutlivesHandlers
  <1>1. Inv => ClientOutlivesHandlers
    BY DEF Inv, Order, ClosingSettled, ClientOutlivesHandlers, ClientClosed, Settled
  <1> QED
    BY <1>1, InvHolds, PTL

\* A process that ends leaves requests unanswered only after the 15 seconds,
\* during its start, or in a crash (waitForShutdown).
THEOREM AnsweredCorrect == Spec => RequestsAreAnswered
  <1> DEFINE Answered ==
        \A p \in Process :
          Up(p) /\ ~Up(p)' /\ (\E s \in Service : Active(p, s) # {}) =>
              expired[p] \/ phase[p] = "starting" \/ faults' > faults
  <1>1. Inv /\ [Next]_vars => [Answered]_vars
    <2> SUFFICES ASSUME Inv, Next, NEW p \in Process, Up(p), ~Up(p)',
                        NEW s \in Service, Active(p, s) # {}
                 PROVE  expired[p] \/ phase[p] = "starting" \/ faults' > faults
      BY DEF Answered
    <2>1. CASE phase' = phase
      BY <2>1 DEF Up
    <2>2. ASSUME NEW q \in Process, MainReturns(q)
          PROVE  expired[p]
      <3>1. p = q
        BY <2>2 DEF MainReturns, Die, Up, Inv, Typed
      <3> QED
        BY <2>2, <3>1 DEF MainReturns, Inv, Order, ClosingSettled, Settled
    <2>3. ASSUME NEW q \in Process, Signal(q)
          PROVE  phase[p] = "starting"
      <3>1. p = q /\ Die(q)
        BY <2>3 DEF Signal, Die, Up, Inv, Typed
      <3> QED
        BY <2>3, <3>1 DEF Signal, Die, Up, Inv, Typed
    <2>4. ASSUME NEW q \in Process, Crash(q)
          PROVE  faults' > faults
      BY <2>4 DEF Crash, Fault, Inv, Typed
    <2>5. ASSUME NEW q \in Process,
                 Launch(q) \/ StartService(q) \/ WaitForShutdown(q) \/ CloseListener(q)
                 \/ ShutdownReturns(q) \/ AllServersShutDown(q) \/ CloseClient(q)
                 \/ TimeExpires(q)
          PROVE  FALSE
      BY <2>5 DEF Launch, StartService, WaitForShutdown, CloseListener, ShutdownReturns,
          AllServersShutDown, CloseClient, TimeExpires, mainVars, Up, Inv, Typed
    <2>6. ASSUME NEW q \in Process, NEW t \in Topic,
                 Setup(q, t) \/ SubscriberFails(q, t) \/ SubscriberEnds(q, t)
          PROVE  phase' = phase
      BY <2>6 DEF Setup, TopicExists, CreateTopic, SubscriptionExists, CreateSubscription,
          Subscriber, SubscriberFails, SubscriberEnds, mainVars
    <2>7. ASSUME NEW q \in Process, NEW t \in Service, NEW r \in Request,
                 Arrive(q, t, r) \/ Answer(q, t, r)
          PROVE  phase' = phase
      BY <2>7 DEF Arrive, Answer, mainVars
    <2>8. ASSUME NEW q \in Process, NEW t \in Service, ListenFails(q, t)
          PROVE  phase' = phase
      BY <2>8 DEF ListenFails, mainVars
    <2> QED
      BY <2>1, <2>2, <2>3, <2>4, <2>5, <2>6, <2>7, <2>8 DEF Next, Main
  <1> QED
    BY <1>1, InvHolds, PTL DEF Spec, RequestsAreAnswered
-----------------------------------------------------------------------------
\* Types, and the subscribers.

\* A subscriber looks for its subscription only when its topic exists.
TopicFirst ==
    \A p \in Process, t \in Topic :
        sub[p][t] \in {"checkSub", "createSub", "receiving"} => topicBy[t] # None

\* What a subscriber is about to create was not created by its own process: it
\* was not there at the check, and this process has only this subscriber for it.
NotYetMine ==
    \A p \in Process, t \in Topic :
        /\ sub[p][t] = "createTopic" => topicBy[t] # p
        /\ sub[p][t] = "createSub" => subBy[t] # p

SubscriberInv == TopicFirst /\ NotYetMine /\ GivesUpOnlyAfterRace

Setting == TypeOK /\ SubscriberInv

LEMMA CloserFacts ==
    ASSUME NEW p \in Process
    PROVE  Len(Closers(p)) \in Nat /\ Len(Scope[p]) \in Nat
  <1>1. <<>> \in Seq(Service) /\ <<"pubsub">> \in Seq(Service) /\ <<"task">> \in Seq(Service)
    <2>1. "pubsub" \in Service /\ "task" \in Service
      BY DEF Service
    <2> QED
      BY <2>1
  <1>2. Closers(p) \in Seq(Service)
    BY <1>1 DEF Closers
  <1> QED
    BY <1>2, ScopeAssumption

LEMMA SettingInit == Init => Setting
  <1> SUFFICES ASSUME Init PROVE Setting
    OBVIOUS
  <1>1. TypeOK
    BY CloserFacts, BoundAssumption DEF Init, TypeOK
  <1>2. SubscriberInv
    BY DEF Init, SubscriberInv, TopicFirst, NotYetMine, GivesUpOnlyAfterRace
  <1> QED
    BY <1>1, <1>2 DEF Setting

\* The steps of main, but for the end.
LEMMA MainKeepsTypes ==
    ASSUME TypeOK, NEW p \in Process,
           \/ Launch(p) \/ StartService(p) \/ WaitForShutdown(p) \/ CloseListener(p)
           \/ ShutdownReturns(p) \/ AllServersShutDown(p) \/ CloseClient(p)
           \/ TimeExpires(p)
    PROVE  TypeOK'
  <1>1. CASE Launch(p)
    BY <1>1, BoundAssumption DEF TypeOK, Launch, resources
  <1>2. CASE StartService(p)
    <2>1. UNCHANGED <<phase, expired, topicBy, subBy, req, launches, faults, hit>>
      BY <1>2 DEF StartService, resources
    <2>2. /\ at' \in [Process -> Nat]
          /\ \A q \in Process :
                 at'[q] <= Len(IF phase[q] = "closing" THEN Closers(q) ELSE Scope[q])
      BY <1>2, CloserFacts DEF TypeOK, StartService
    <2>3. /\ open' \in [Process -> SUBSET Service]
          /\ worker' \in [Process -> {"none", "running", "stopped"}]
          /\ sub' \in [Process -> [Topic -> {"none", "checkTopic", "createTopic",
                                            "checkSub", "createSub", "receiving", "ended"}]]
      <3>1. CASE BackofficeStarts(p)
        BY <3>1 DEF TypeOK, BackofficeStarts, Service
      <3>2. CASE PubsubStarts(p)
        BY <3>2 DEF TypeOK, PubsubStarts, Service
      <3>3. CASE TaskStarts(p)
        BY <3>3 DEF TypeOK, TaskStarts, Service
      <3> QED
        BY <1>2, <3>1, <3>2, <3>3 DEF StartService
    <2> QED
      BY <2>1, <2>2, <2>3 DEF TypeOK
  <1>3. CASE WaitForShutdown(p) \/ AllServersShutDown(p)
    <2>1. /\ UNCHANGED <<expired, open, worker, sub, topicBy, subBy, req, launches, faults, hit>>
          /\ at' = [at EXCEPT ![p] = 0]
          /\ \A q \in Process : q # p => phase'[q] = phase[q]
          /\ phase' \in [Process -> {"off", "starting", "waiting", "draining", "closing"}]
      BY <1>3 DEF TypeOK, WaitForShutdown, AllServersShutDown, resources
    <2>2. \A q \in Process :
              at'[q] <= Len(IF phase'[q] = "closing" THEN Closers(q) ELSE Scope[q])
      BY <2>1, CloserFacts DEF TypeOK
    <2> QED
      BY <2>1, <2>2 DEF TypeOK
  <1>4. CASE ShutdownReturns(p) \/ CloseClient(p)
    <2>1. /\ UNCHANGED <<phase, expired, open, worker, sub, topicBy, subBy, req, launches,
                         faults, hit>>
          /\ at' = [at EXCEPT ![p] = @ + 1]
          /\ at[p] < Len(IF phase[p] = "closing" THEN Closers(p) ELSE Scope[p])
      BY <1>4 DEF ShutdownReturns, CloseClient, resources
    <2>2. \A q \in Process :
              at'[q] <= Len(IF phase[q] = "closing" THEN Closers(q) ELSE Scope[q])
      BY <2>1, CloserFacts DEF TypeOK
    <2> QED
      BY <2>1, <2>2 DEF TypeOK
  <1>5. CASE CloseListener(p) \/ TimeExpires(p)
    BY <1>5 DEF TypeOK, CloseListener, TimeExpires, mainVars, resources
  <1> QED
    BY <1>1, <1>2, <1>3, <1>4, <1>5

LEMMA DeathKeepsTypes ==
    ASSUME TypeOK, NEW p \in Process, Die(p), faults' \in 0 .. MaxEvents
    PROVE  TypeOK'
  <1>1. \A q \in Process :
            at'[q] <= Len(IF phase'[q] = "closing" THEN Closers(q) ELSE Scope[q])
    BY CloserFacts DEF TypeOK, Die
  <1> QED
    BY <1>1 DEF TypeOK, Die, resources

LEMMA OthersKeepTypes ==
    ASSUME TypeOK, NEW p \in Process,
           \/ Signal(p) /\ ~Die(p)
           \/ \E s \in Service :
                 ListenFails(p, s) \/ \E r \in Request : Arrive(p, s, r) \/ Answer(p, s, r)
    PROVE  TypeOK'
  <1>1. CASE Signal(p) /\ ~Die(p)
    <2>1. /\ UNCHANGED <<at, expired, open, sub, topicBy, subBy, req, launches, faults, hit>>
          /\ \A q \in Process : (phase'[q] = "closing") = (phase[q] = "closing")
          /\ phase' \in [Process -> {"off", "starting", "waiting", "draining", "closing"}]
          /\ worker' \in [Process -> {"none", "running", "stopped"}]
      BY <1>1 DEF TypeOK, Signal, resources
    <2> QED
      BY <2>1 DEF TypeOK
  <1>2. ASSUME NEW s \in Service, ListenFails(p, s) PROVE TypeOK'
    BY <1>2, BoundAssumption
       DEF TypeOK, ListenFails, Fault, mainVars, resources
  <1>3. ASSUME NEW s \in Service, NEW r \in Request, Arrive(p, s, r) \/ Answer(p, s, r)
        PROVE  TypeOK'
    <2>1. req' \in [Request -> Connection \cup {None}]
      <3>1. [proc |-> p, service |-> s] \in Connection
        BY DEF Connection
      <3> QED
        BY <1>3, <3>1 DEF TypeOK, Arrive, Answer
    <2>2. UNCHANGED <<phase, at, expired, open, worker, sub, topicBy, subBy, launches, faults, hit>>
      BY <1>3 DEF Arrive, Answer, mainVars, resources
    <2> QED
      BY <2>1, <2>2 DEF TypeOK
  <1> QED
    BY <1>1, <1>2, <1>3

\* What exists stays, and only a subscriber that is creating creates.
LEMMA Creation ==
    ASSUME TypeOK, NEW p \in Process, NEW t \in Topic,
           Setup(p, t) \/ SubscriberFails(p, t) \/ SubscriberEnds(p, t)
    PROVE  /\ \/ topicBy' = topicBy
              \/ /\ sub[p][t] = "createTopic" /\ topicBy[t] = None
                 /\ topicBy' = [topicBy EXCEPT ![t] = p]
           /\ \/ subBy' = subBy
              \/ /\ sub[p][t] = "createSub" /\ subBy[t] = None
                 /\ subBy' = [subBy EXCEPT ![t] = p]
  <1>1. CASE CreateTopic(p, t)
    BY <1>1 DEF TypeOK, CreateTopic, Subscriber
  <1>2. CASE CreateSubscription(p, t)
    BY <1>2 DEF TypeOK, CreateSubscription, Subscriber
  <1>3. CASE TopicExists(p, t) \/ SubscriptionExists(p, t) \/ SubscriberEnds(p, t)
    BY <1>3 DEF TopicExists, SubscriptionExists, SubscriberEnds, resources
  <1>4. CASE SubscriberFails(p, t)
    BY <1>4 DEF SubscriberFails, resources
  <1> QED
    BY <1>1, <1>2, <1>3, <1>4 DEF Setup

\* A subscriber goes on, or ends.
LEMMA SubscriberKeepsTypes ==
    ASSUME TypeOK, TopicFirst, NEW p \in Process, NEW t \in Topic,
           Setup(p, t) \/ SubscriberFails(p, t) \/ SubscriberEnds(p, t)
    PROVE  TypeOK'
  <1>1. /\ UNCHANGED <<phase, at, expired, open, worker, req, launches>>
        /\ faults' \in 0 .. MaxEvents
        /\ hit' = hit \/ hit' = hit \cup {<<p, t>>}
    <2>1. ASSUME NEW from, NEW to, Subscriber(p, t, from, to)
          PROVE  UNCHANGED <<phase, at, expired, open, worker, req, launches, faults, hit>>
      BY <2>1 DEF Subscriber, mainVars
    <2>2. CASE SubscriberFails(p, t) \/ SubscriberEnds(p, t)
      BY <2>2, BoundAssumption DEF TypeOK, SubscriberFails, SubscriberEnds, Fault, mainVars
    <2> QED
      BY <2>1, <2>2 DEF TypeOK, Setup, TopicExists, CreateTopic, SubscriptionExists,
          CreateSubscription
  <1>2. sub' \in [Process -> [Topic -> {"none", "checkTopic", "createTopic",
                                       "checkSub", "createSub", "receiving", "ended"}]]
    <2>1. PICK to \in {"createTopic", "checkSub", "createSub", "receiving", "ended"} :
              sub' = [sub EXCEPT ![p][t] = to]
      BY DEF Setup, TopicExists, CreateTopic, SubscriptionExists, CreateSubscription,
             Subscriber, SubscriberFails, SubscriberEnds
    <2> QED
      BY <2>1 DEF TypeOK
  <1>3. /\ topicBy' \in [Topic -> Process \cup {None}]
        /\ subBy' \in [Topic -> Process \cup {None}]
    <2>1. topicBy \in [Topic -> Process \cup {None}] /\ subBy \in [Topic -> Process \cup {None}]
      BY DEF TypeOK
    <2> QED
      BY <2>1, Creation
  <1>4. \A u \in Topic : subBy'[u] # None => topicBy'[u] # None
    BY Creation, NoneAssumption DEF TypeOK, TopicFirst
  <1> QED
    BY <1>1, <1>2, <1>3, <1>4 DEF TypeOK

LEMMA StutterKeepsTypes ==
    ASSUME TypeOK, UNCHANGED vars
    PROVE  TypeOK'
  BY DEF TypeOK, vars, mainVars, resources

LEMMA TypesNext ==
    ASSUME Setting, [Next]_vars
    PROVE  TypeOK'
  <1> USE DEF Setting, SubscriberInv
  <1>1. ASSUME NEW p \in Process, Launch(p) \/ Main(p) \/ TimeExpires(p) \/ Signal(p) \/ Crash(p)
        PROVE  TypeOK'
    <2>1. CASE Die(p)
      <3>1. faults' \in 0 .. MaxEvents
        BY <1>1, <2>1, BoundAssumption
           DEF TypeOK, Die, Launch, Main, StartService, WaitForShutdown, CloseListener,
               ShutdownReturns, AllServersShutDown, CloseClient, MainReturns, TimeExpires,
               Signal, Crash, Fault
      <3> QED
        BY <2>1, <3>1, DeathKeepsTypes
    <2>2. CASE ~Die(p)
      BY <1>1, <2>2, MainKeepsTypes, OthersKeepTypes DEF Main, MainReturns, Crash
    <2> QED
      BY <2>1, <2>2
  <1> QED
    BY <1>1, SubscriberKeepsTypes, OthersKeepTypes, StutterKeepsTypes DEF Next

-----------------------------------------------------------------------------

\* A client stays closed until the process ends.
LEMMA ClosedStays ==
    ASSUME Setting, [Next]_vars, NEW p \in Process, ClientClosed(p, "pubsub"),
           phase'[p] # "off"
    PROVE  ClientClosed(p, "pubsub")'
  <1> USE DEF Setting
  <1>1. phase[p] = "closing"
    BY DEF ClientClosed
  <1>2. phase'[p] = "closing" /\ at'[p] >= at[p]
    <2>1. CASE UNCHANGED <<phase, at>>
      BY <1>1, <2>1 DEF TypeOK
    <2>2. ASSUME NEW q \in Process,
                 \/ Launch(q) \/ StartService(q) \/ WaitForShutdown(q) \/ ShutdownReturns(q)
                 \/ AllServersShutDown(q) \/ CloseClient(q) \/ (Signal(q) /\ ~Die(q))
          PROVE  phase'[p] = "closing" /\ at'[p] >= at[p]
      BY <1>1, <2>2 DEF TypeOK, Launch, StartService, WaitForShutdown, ShutdownReturns,
          AllServersShutDown, CloseClient, Signal
    <2>3. ASSUME NEW q \in Process, Die(q)
          PROVE  phase'[p] = "closing" /\ at'[p] >= at[p]
      <3>1. q # p
        BY <2>3 DEF TypeOK, Die
      <3> QED
        BY <1>1, <2>3, <3>1 DEF TypeOK, Die
    <2>4. ASSUME NEW q \in Process, CloseListener(q) \/ TimeExpires(q)
          PROVE  UNCHANGED <<phase, at>>
      BY <2>4 DEF CloseListener, TimeExpires, mainVars
    <2>5. ASSUME NEW q \in Process, NEW t \in Topic,
                 Setup(q, t) \/ SubscriberFails(q, t) \/ SubscriberEnds(q, t)
          PROVE  UNCHANGED <<phase, at>>
      BY <2>5 DEF Setup, TopicExists, CreateTopic, SubscriptionExists, CreateSubscription,
          Subscriber, SubscriberFails, SubscriberEnds, mainVars
    <2>6. ASSUME NEW q \in Process, NEW s \in Service,
                 ListenFails(q, s) \/ \E r \in Request : Arrive(q, s, r) \/ Answer(q, s, r)
          PROVE  UNCHANGED <<phase, at>>
      BY <2>6 DEF ListenFails, Arrive, Answer, mainVars
    <2>7. CASE UNCHANGED vars
      BY <2>1, <2>7 DEF vars, mainVars
    <2>8. CASE Next
      BY <2>1, <2>2, <2>3, <2>4, <2>5, <2>6, <2>8 DEF Next, Main, MainReturns, Crash
    <2> QED
      BY <2>7, <2>8
  <1>3. PICK i \in 1 .. at[p] : Closers(p)[i] = "pubsub"
    BY DEF ClientClosed
  <1>4. i \in 1 .. at'[p]
    BY <1>2, <1>3, TypesNext DEF TypeOK
  <1>5. Closers(p)' = Closers(p)
    BY DEF Closers, Starts
  <1> QED
    BY <1>2, <1>3, <1>4, <1>5 DEF ClientClosed

\* A subscriber that goes on or ends.
LEMMA SubscriberStepKeeps ==
    ASSUME Setting, NEW p \in Process, NEW t \in Topic,
           Setup(p, t) \/ SubscriberFails(p, t) \/ SubscriberEnds(p, t)
    PROVE  SubscriberInv'
  <1> USE DEF Setting, SubscriberInv
  <1>1. PICK to \in {"createTopic", "checkSub", "createSub", "receiving", "ended"} :
            sub' = [sub EXCEPT ![p][t] = to]
    BY DEF Setup, TopicExists, CreateTopic, SubscriptionExists, CreateSubscription,
           Subscriber, SubscriberFails, SubscriberEnds
  <1>2. /\ sub'[p][t] = to
        /\ \A q \in Process, u \in Topic : <<q, u>> # <<p, t>> => sub'[q][u] = sub[q][u]
    BY <1>1 DEF TypeOK
  <1>3. /\ \A u \in Topic : topicBy[u] # None => topicBy'[u] = topicBy[u]
        /\ \A u \in Topic : subBy[u] # None => subBy'[u] = subBy[u]
        /\ \A q \in Process, u \in Topic : topicBy'[u] = q =>
               topicBy[u] = q \/ (q = p /\ u = t /\ sub[p][t] = "createTopic")
        /\ \A q \in Process, u \in Topic : subBy'[u] = q =>
               subBy[u] = q \/ (q = p /\ u = t /\ sub[p][t] = "createSub")
    BY Creation, NoneAssumption DEF TypeOK
  <1>4. \/ to = "createTopic" /\ sub[p][t] = "checkTopic" /\ topicBy[t] = None
        \/ to = "checkSub" /\ topicBy'[t] # None
        \/ to = "createSub" /\ sub[p][t] = "checkSub" /\ subBy[t] = None
        \/ to = "receiving" /\ sub[p][t] \in {"checkSub", "createSub"}
        \/ /\ to = "ended"
           /\ \/ <<p, t>> \in hit'
              \/ ClientClosed(p, "pubsub")
              \/ sub[p][t] = "createTopic" /\ topicBy[t] # None
              \/ sub[p][t] = "createSub" /\ subBy[t] # None
    <2> DEFINE next == sub'[p][t]
    <2>0. sub \in [Process -> [Topic -> {"none", "checkTopic", "createTopic", "checkSub",
                                       "createSub", "receiving", "ended"}]]
      BY DEF TypeOK
    <2>1. CASE TopicExists(p, t)
      <3>1. next = IF topicBy[t] # None THEN "checkSub" ELSE "createTopic"
        BY <2>0, <2>1 DEF TopicExists, Subscriber
      <3> QED
        BY <1>2, <2>1, <3>1 DEF TopicExists, Subscriber, resources
    <2>2. CASE CreateTopic(p, t)
      <3>1. next = IF topicBy[t] = None THEN "checkSub" ELSE "ended"
        BY <2>0, <2>2 DEF CreateTopic, Subscriber
      <3>2. topicBy[t] = None => topicBy'[t] # None
        BY <2>2, NoneAssumption DEF CreateTopic, TypeOK
      <3> QED
        BY <1>2, <2>2, <3>1, <3>2 DEF CreateTopic, Subscriber
    <2>3. CASE SubscriptionExists(p, t)
      <3>1. next = IF subBy[t] # None THEN "receiving" ELSE "createSub"
        BY <2>0, <2>3 DEF SubscriptionExists, Subscriber
      <3> QED
        BY <1>2, <2>3, <3>1 DEF SubscriptionExists, Subscriber
    <2>4. CASE CreateSubscription(p, t)
      <3>1. next = IF subBy[t] = None THEN "receiving" ELSE "ended"
        BY <2>0, <2>4 DEF CreateSubscription, Subscriber
      <3> QED
        BY <1>2, <2>4, <3>1 DEF CreateSubscription, Subscriber
    <2>5. CASE SubscriberFails(p, t)
      <3>1. next = "ended"
        BY <2>0, <2>5 DEF SubscriberFails
      <3> QED
        BY <1>2, <2>5, <3>1 DEF SubscriberFails
    <2>6. CASE SubscriberEnds(p, t)
      <3>1. next = "ended"
        BY <2>0, <2>6 DEF SubscriberEnds
      <3> QED
        BY <1>2, <2>6, <3>1 DEF SubscriberEnds
    <2> QED
      BY <2>1, <2>2, <2>3, <2>4, <2>5, <2>6 DEF Setup
  <1>5. TopicFirst'
    BY <1>2, <1>3, <1>4 DEF TopicFirst
  <1>6. NotYetMine'
    BY <1>2, <1>3, <1>4, NoneAssumption DEF NotYetMine
  <1>7. GivesUpOnlyAfterRace'
    <2>1. /\ hit \subseteq hit'
          /\ \A q \in Process : ClientClosed(q, "pubsub")' = ClientClosed(q, "pubsub")
      BY DEF Setup, TopicExists, CreateTopic, SubscriptionExists, CreateSubscription,
             Subscriber, SubscriberFails, SubscriberEnds, mainVars, ClientClosed,
             Closers, Starts
    <2> QED
      BY <1>2, <1>3, <1>4, <2>1 DEF GivesUpOnlyAfterRace, NotYetMine
  <1> QED
    BY <1>5, <1>6, <1>7

\* Any other step leaves the topics, the subscriptions and the subscribers as they
\* are, but for those that start and those that die.
LEMMA OtherStepKeeps ==
    ASSUME Setting, [Next]_vars, UNCHANGED <<topicBy, subBy>>,
           \A p \in Process :
               \/ \A t \in Topic : sub'[p][t] \in {"none", "checkTopic"}
               \/ /\ sub'[p] = sub[p]
                  /\ phase'[p] # "off" \/ phase[p] = "off"
                  /\ \A t \in Topic : <<p, t>> \in hit => <<p, t>> \in hit'
    PROVE  SubscriberInv'
  <1> USE DEF Setting, SubscriberInv
  <1>1. TopicFirst' /\ NotYetMine'
    BY DEF TopicFirst, NotYetMine
  <1>2. \A p \in Process : ClientClosed(p, "pubsub") /\ (phase'[p] # "off" \/ phase[p] = "off")
                           => ClientClosed(p, "pubsub")'
    BY ClosedStays DEF ClientClosed
  <1>3. GivesUpOnlyAfterRace'
    BY <1>2 DEF GivesUpOnlyAfterRace
  <1> QED
    BY <1>1, <1>3

LEMMA SettingNext == Setting /\ [Next]_vars => Setting'
  <1> SUFFICES ASSUME Setting, [Next]_vars PROVE Setting'
    OBVIOUS
  <1>1. TypeOK'
    BY TypesNext
  <1>2. ASSUME NEW p \in Process, Die(p)
        PROVE  SubscriberInv'
    <2>1. \A q \in Process : q # p => sub'[q] = sub[q] /\ phase'[q] = phase[q]
      BY <1>2 DEF Setting, TypeOK, Die
    <2>2. \A t \in Topic : sub'[p][t] = "none"
      BY <1>2 DEF Setting, TypeOK, Die
    <2>3. UNCHANGED <<topicBy, subBy>>
          /\ \A q \in Process, t \in Topic : q # p /\ <<q, t>> \in hit => <<q, t>> \in hit'
      BY <1>2 DEF Die, resources
    <2> QED
      BY <2>1, <2>2, <2>3, OtherStepKeeps
  <1>3. ASSUME NEW p \in Process, StartService(p)
        PROVE  SubscriberInv'
    <2>1. UNCHANGED <<phase, topicBy, subBy, hit>>
      BY <1>3 DEF StartService, resources
    <2>2. \A q \in Process :
              sub'[q] = sub[q] \/ \A t \in Topic : sub'[q][t] = "checkTopic"
      BY <1>3 DEF Setting, TypeOK, StartService, BackofficeStarts, PubsubStarts, TaskStarts
    <2> QED
      BY <2>1, <2>2, OtherStepKeeps
  <1>4. ASSUME NEW p \in Process,
               \/ Launch(p) \/ WaitForShutdown(p) \/ CloseListener(p) \/ ShutdownReturns(p)
               \/ AllServersShutDown(p) \/ CloseClient(p) \/ TimeExpires(p)
               \/ Signal(p) /\ ~Die(p)
        PROVE  SubscriberInv'
    <2>1. UNCHANGED <<topicBy, subBy, sub, hit>>
      BY <1>4 DEF Launch, WaitForShutdown, CloseListener, ShutdownReturns, AllServersShutDown,
          CloseClient, TimeExpires, Signal, resources
    <2>2. \A q \in Process : phase'[q] = "off" => phase[q] = "off"
      BY <1>4 DEF Launch, WaitForShutdown, CloseListener, ShutdownReturns, AllServersShutDown,
          CloseClient, TimeExpires, Signal, mainVars, Setting, TypeOK
    <2> QED
      BY <2>1, <2>2, OtherStepKeeps
  <1>5. ASSUME NEW p \in Process, NEW s \in Service,
               ListenFails(p, s) \/ \E r \in Request : Arrive(p, s, r) \/ Answer(p, s, r)
        PROVE  SubscriberInv'
    <2>1. UNCHANGED <<phase, topicBy, subBy, sub, hit>>
      BY <1>5 DEF ListenFails, Arrive, Answer, mainVars, resources
    <2> QED
      BY <2>1, OtherStepKeeps
  <1>6. ASSUME UNCHANGED vars PROVE SubscriberInv'
    <2>1. UNCHANGED <<phase, topicBy, subBy, sub, hit>>
      BY <1>6 DEF vars, mainVars, resources
    <2> QED
      BY <2>1, OtherStepKeeps
  <1>7. ASSUME Next PROVE SubscriberInv'
    BY <1>2, <1>3, <1>4, <1>5, <1>7, SubscriberStepKeeps DEF Next, Main, MainReturns, Crash
  <1> QED
    BY <1>1, <1>6, <1>7 DEF Setting

LEMMA SettingHolds == Spec => []Setting
  <1> QED
    BY SettingInit, SettingNext, PTL DEF Spec

\* Each variable stays in its range: main never counts past its servers or its
\* closers, and a subscription belongs to a topic that exists.
THEOREM TypeCorrect == Spec => []TypeOK
  <1>1. Setting => TypeOK
    BY DEF Setting
  <1> QED
    BY <1>1, SettingHolds, PTL

\* A subscriber that ended by itself was not alone: its topic or its subscription
\* is another replica's (consumer: an AlreadyExists is an error like any other).
THEOREM RaceCorrect == Spec => []GivesUpOnlyAfterRace
  <1>1. Setting => GivesUpOnlyAfterRace
    BY DEF Setting, SubscriberInv
  <1> QED
    BY <1>1, SettingHolds, PTL
=============================================================================
