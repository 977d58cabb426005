----------------------- MODULE EventPublisher_proofs -----------------------
(***************************************************************************)
(* Proofs about EventPublisher, for any clients, handlers, lists of        *)
(* consumers and limits.                                                   *)
(***************************************************************************)
EXTENDS EventPublisher, TLAPS

-----------------------------------------------------------------------------
\* The inductive invariant, part by part.

\* A busy handler has one of the event's lists of consumers.
BusyShape == \A h \in Handler : clientOf[h] # NoClient => consumers[h] \in Listing

\* The part of its list that a handler has behind it.
Passed(h) == {consumers[h][i] : i \in 1 .. next[h] - 1}

\* The consumers a handler has behind it got a message of its client's event.
\* This is what a success promises, while the loop is still running.
PassedReached ==
    \A h \in Handler : clientOf[h] # NoClient => Passed(h) \subseteq reached[clientOf[h]]

\* A client that no request has failed has at most the handler it is connected
\* to, and only that one's loop has sent messages for it.
Calm(c) ==
    /\ repeated[c] = {}
    /\ answer[c] # "failed"
    /\ \A h \in Handler : clientOf[h] = c => waitsFor[c] = h
    /\ answer[c] = "none" =>
           IF waitsFor[c] = NoHandler THEN reached[c] = {}
                                      ELSE reached[c] \subseteq Passed(waitsFor[c])

UntroubledCalm == \A c \in Client : c \notin troubled => Calm(c)

StateInv == TypeOK /\ BusyShape

-----------------------------------------------------------------------------
\* Lists of consumers.

\* A list is a non-empty sequence.
LEMMA ListingFacts ==
    ASSUME NEW l \in Listing
    PROVE  /\ l \in Seq(Consumer) /\ Len(l) \in Nat /\ Len(l) >= 1
           /\ \A i \in 1 .. Len(l) : l[i] \in Consumer
  BY ListingAssumption

\* A handler in its loop has a consumer to send to.
LEMMA TargetFacts ==
    ASSUME StateInv, NEW h \in Handler, InLoop(h)
    PROVE  /\ clientOf[h] \in Client
           /\ consumers[h] \in Listing
           /\ next[h] \in 1 .. Len(consumers[h])
           /\ Target(h) \in Consumer
           /\ Key(h) \in Data \X Consumer
  <1>1. clientOf[h] \in Client /\ consumers[h] \in Listing
    BY DEF StateInv, TypeOK, BusyShape, InLoop
  <1>2. next[h] \in 1 .. Len(consumers[h])
    BY <1>1, ListingFacts DEF StateInv, TypeOK, InLoop
  <1>3. Target(h) \in Consumer
    BY <1>1, <1>2, ListingFacts DEF Target
  <1> QED  BY <1>1, <1>2, <1>3, DataAssumption DEF Key

-----------------------------------------------------------------------------
\* Type correctness.

\* A publish keeps the types of what it writes.
LEMMA StoredTypes ==
    ASSUME StateInv, NEW h \in Handler, InLoop(h), Stored(h)
    PROVE  /\ lock' \subseteq Data \X Consumer
           /\ reached' \in [Client -> SUBSET Consumer]
           /\ repeated' \in [Client -> SUBSET Consumer]
  <1>1. clientOf[h] \in Client /\ Target(h) \in Consumer /\ Key(h) \in Data \X Consumer
    BY TargetFacts
  <1>2. lock' \subseteq Data \X Consumer
    BY <1>1 DEF StateInv, TypeOK, Stored
  <1>3. reached' \in [Client -> SUBSET Consumer]
    BY <1>1 DEF StateInv, TypeOK, Stored
  <1>4. repeated' \in [Client -> SUBSET Consumer]
    BY <1>1 DEF StateInv, TypeOK, Stored
  <1> QED  BY <1>2, <1>3, <1>4

\* A returning handler is free again.
LEMMA DoneTypes ==
    ASSUME StateInv, NEW h \in Handler, Done(h)
    PROVE  /\ clientOf' \in [Handler -> Client \cup {NoClient}]
           /\ consumers' \in [Handler -> Listing \cup {<<>>}]
           /\ next' \in [Handler -> Nat]
           /\ \A g \in Handler : next'[g] \in 1 .. Len(consumers'[g]) + 1
           /\ BusyShape'
  <1>1. \A g \in Handler : next'[g] \in 1 .. Len(consumers'[g]) + 1
    <2> SUFFICES ASSUME NEW g \in Handler
                 PROVE  next'[g] \in 1 .. Len(consumers'[g]) + 1
      OBVIOUS
    <2>1. CASE g = h
      BY <2>1, Len(<<>>) = 0 DEF StateInv, TypeOK, Done
    <2>2. CASE g # h
      BY <2>2 DEF StateInv, TypeOK, Done
    <2> QED  BY <2>1, <2>2
  <1>2. BusyShape'
    BY DEF StateInv, TypeOK, BusyShape, Done
  <1> QED  BY <1>1, <1>2 DEF StateInv, TypeOK, Done

\* Whether the client is still connected or not, a handler that returns leaves
\* no client connected to it.
LEMMA ReleasedConnections ==
    ASSUME StateInv, NEW h \in Handler, clientOf[h] # NoClient, Done(h),
           NEW a \in Answer,
           IF Connected(h)
             THEN /\ answer' = [answer EXCEPT ![clientOf[h]] = a]
                  /\ waitsFor' = [waitsFor EXCEPT ![clientOf[h]] = NoHandler]
             ELSE UNCHANGED clientVars
    PROVE  /\ answer' \in [Client -> Answer]
           /\ waitsFor' \in [Client -> Handler \cup {NoHandler}]
           /\ \A c \in Client : waitsFor'[c] # NoHandler =>
                  clientOf'[waitsFor'[c]] = c /\ answer'[c] \in {"none", "failed"}
  <1>1. clientOf[h] \in Client
    BY DEF StateInv, TypeOK
  <1>2. \A c \in Client : waitsFor[c] = h => c = clientOf[h]
    BY NoneAssumption DEF StateInv, TypeOK
  <1>3. CASE Connected(h)
    <2>1. /\ answer' \in [Client -> Answer]
          /\ waitsFor' \in [Client -> Handler \cup {NoHandler}]
      BY <1>1, <1>3 DEF StateInv, TypeOK
    <2>2. ASSUME NEW c \in Client, waitsFor'[c] # NoHandler
          PROVE  clientOf'[waitsFor'[c]] = c /\ answer'[c] \in {"none", "failed"}
      <3>1. c # clientOf[h]
        BY <1>1, <1>3, <2>2 DEF StateInv, TypeOK
      <3>2. waitsFor'[c] = waitsFor[c] /\ answer'[c] = answer[c]
        BY <1>1, <1>3, <3>1 DEF StateInv, TypeOK
      <3>3. waitsFor[c] \in Handler /\ waitsFor[c] # h
        BY <1>2, <2>2, <3>1, <3>2 DEF StateInv, TypeOK
      <3> QED  BY <2>2, <3>2, <3>3 DEF StateInv, TypeOK, Done
    <2> QED  BY <2>1, <2>2
  <1>4. CASE ~Connected(h)
    BY <1>1, <1>2, <1>4, NoneAssumption
       DEF StateInv, TypeOK, Done, Connected, clientVars
  <1> QED  BY <1>3, <1>4

\* In the initial state no request has been made.
LEMMA StateInit == Init => StateInv
  BY BoundAssumption, Len(<<>>) = 0
     DEF Init, StateInv, TypeOK, BusyShape, Answer

\* Every step keeps types and the lists of busy handlers.
LEMMA StateStep == StateInv /\ [Next]_vars => StateInv'
  <1> SUFFICES ASSUME StateInv, [Next]_vars PROVE StateInv'
    OBVIOUS
  <1> USE DEF StateInv
  <1>1. ASSUME NEW s \in Listing \cup {NotServed}, Refresh(s) PROVE StateInv'
    BY <1>1, BoundAssumption
       DEF TypeOK, BusyShape, Refresh, handlerVars, clientVars, history
  <1>2. ASSUME NEW c \in Client, NEW h \in Handler, Request(c, h)
        PROVE  StateInv'
    <2>1. served \in Listing /\ Len(served) \in Nat
      BY <1>2, ListingFacts DEF TypeOK, Request
    <2>2. \A g \in Handler : next'[g] \in 1 .. Len(consumers'[g]) + 1
      BY <1>2, <2>1 DEF TypeOK, Request
    <2>3. \A d \in Client : waitsFor'[d] # NoHandler =>
              clientOf'[waitsFor'[d]] = d /\ answer'[d] \in {"none", "failed"}
      BY <1>2, NoneAssumption DEF TypeOK, Request, Unanswered
    <2>4. TypeOK'
      BY <1>2, <2>1, <2>2, <2>3 DEF TypeOK, Request, history
    <2>5. BusyShape'
      BY <1>2, <2>1 DEF TypeOK, BusyShape, Request
    <2> QED  BY <2>4, <2>5
  <1>3. ASSUME NEW c \in Client, RequestNotFound(c) PROVE StateInv'
    BY <1>3 DEF TypeOK, BusyShape, RequestNotFound, Unanswered, Answer,
                handlerVars, history
  <1>4. ASSUME NEW c \in Client, GiveUp(c) PROVE StateInv'
    <2>1. faults' \in 0 .. MaxFaults
      BY <1>4, BoundAssumption DEF TypeOK, GiveUp, Fault
    <2> QED  BY <1>4, <2>1 DEF TypeOK, BusyShape, GiveUp, Answer, handlerVars
  <1>5. ASSUME NEW h \in Handler, Publish(h) PROVE StateInv'
    <2>1. next[h] \in 1 .. Len(consumers[h]) /\ consumers[h] \in Listing
      BY <1>5, TargetFacts DEF Publish
    <2>2. Len(consumers[h]) \in Nat
      BY <2>1, ListingFacts
    <2>3. /\ next' \in [Handler -> Nat]
          /\ \A g \in Handler : next'[g] \in 1 .. Len(consumers'[g]) + 1
      BY <1>5, <2>1, <2>2 DEF TypeOK, Publish, Advance
    <2>4. /\ lock' \subseteq Data \X Consumer
          /\ reached' \in [Client -> SUBSET Consumer]
          /\ repeated' \in [Client -> SUBSET Consumer]
      BY <1>5, StoredTypes DEF Publish
    <2> QED  BY <1>5, <2>3, <2>4 DEF TypeOK, BusyShape, Publish, clientVars
  <1>6. ASSUME NEW h \in Handler, InLoop(h), Answer500(h),
               /\ lock' \subseteq Data \X Consumer
               /\ reached' \in [Client -> SUBSET Consumer]
               /\ repeated' \in [Client -> SUBSET Consumer],
               faults' \in 0 .. MaxFaults,
               UNCHANGED <<served, refreshes, promised>>
        PROVE  StateInv'
    <2>1. clientOf[h] \in Client
      BY <1>6, TargetFacts
    <2>2. /\ answer' \in [Client -> Answer]
          /\ waitsFor' \in [Client -> Handler \cup {NoHandler}]
          /\ \A c \in Client : waitsFor'[c] # NoHandler =>
                 clientOf'[waitsFor'[c]] = c /\ answer'[c] \in {"none", "failed"}
      <3>1. "failed" \in Answer
        BY DEF Answer
      <3> QED  BY <1>6, <3>1, ReleasedConnections DEF Answer500, InLoop
    <2>3. /\ clientOf' \in [Handler -> Client \cup {NoClient}]
          /\ consumers' \in [Handler -> Listing \cup {<<>>}]
          /\ next' \in [Handler -> Nat]
          /\ \A g \in Handler : next'[g] \in 1 .. Len(consumers'[g]) + 1
          /\ BusyShape'
      BY <1>6, DoneTypes DEF Answer500
    <2>4. troubled' \subseteq Client
      BY <1>6, <2>1 DEF TypeOK, Answer500
    <2> QED  BY <1>6, <2>2, <2>3, <2>4 DEF TypeOK
  <1>7. ASSUME NEW h \in Handler, PublishRefused(h) PROVE StateInv'
    BY <1>6, <1>7 DEF TypeOK, PublishRefused
  <1>8. ASSUME NEW h \in Handler, NEW isStored \in BOOLEAN,
               PublishFails(h, isStored)
        PROVE  StateInv'
    <2>1. faults' \in 0 .. MaxFaults
      BY <1>8, BoundAssumption DEF TypeOK, PublishFails, Fault
    <2>2. /\ lock' \subseteq Data \X Consumer
          /\ reached' \in [Client -> SUBSET Consumer]
          /\ repeated' \in [Client -> SUBSET Consumer]
      BY <1>8, StoredTypes DEF TypeOK, PublishFails
    <2> QED  BY <1>6, <1>8, <2>1, <2>2 DEF PublishFails
  <1>9. ASSUME NEW h \in Handler, AnswerOk(h) PROVE StateInv'
    <2>1. clientOf[h] \in Client /\ consumers[h] \in Listing
      BY <1>9 DEF TypeOK, BusyShape, AnswerOk
    <2>2. Range(consumers[h]) \subseteq Consumer
      BY <2>1, ListingFacts DEF Range
    <2>3. promised' \in [Client -> SUBSET Consumer]
      BY <1>9, <2>1, <2>2 DEF TypeOK, AnswerOk
    <2>4. /\ answer' \in [Client -> Answer]
          /\ waitsFor' \in [Client -> Handler \cup {NoHandler}]
          /\ \A c \in Client : waitsFor'[c] # NoHandler =>
                 clientOf'[waitsFor'[c]] = c /\ answer'[c] \in {"none", "failed"}
      <3>1. "ok" \in Answer
        BY DEF Answer
      <3> QED  BY <1>9, <3>1, ReleasedConnections DEF AnswerOk
    <2>5. /\ clientOf' \in [Handler -> Client \cup {NoClient}]
          /\ consumers' \in [Handler -> Listing \cup {<<>>}]
          /\ next' \in [Handler -> Nat]
          /\ \A g \in Handler : next'[g] \in 1 .. Len(consumers'[g]) + 1
          /\ BusyShape'
      BY <1>9, DoneTypes DEF AnswerOk
    <2> QED  BY <1>9, <2>3, <2>4, <2>5 DEF TypeOK, AnswerOk
  <1>10. ASSUME NEW key \in Data \X Consumer, LockEnds(key) PROVE StateInv'
    BY <1>10 DEF TypeOK, BusyShape, LockEnds, handlerVars, clientVars, history
  <1>11. CASE UNCHANGED vars
    BY <1>11 DEF TypeOK, BusyShape, vars, handlerVars, clientVars, history
  <1> QED
    BY <1>1, <1>2, <1>3, <1>4, <1>5, <1>7, <1>8, <1>9, <1>10, <1>11
       DEF Next, Work

\* Every state is well typed.
THEOREM TypeCorrect == Spec => []TypeOK
  <1>1. StateInv => TypeOK
    BY DEF StateInv
  <1> QED  BY <1>1, StateInit, StateStep, PTL DEF Spec

-----------------------------------------------------------------------------
\* What a client is promised.

PromiseInv == StateInv /\ PassedReached /\ PromiseKept

\* A publish only adds to what was sent.
LEMMA StoredFacts ==
    ASSUME StateInv, NEW h \in Handler, InLoop(h), Stored(h)
    PROVE  /\ reached'[clientOf[h]] = reached[clientOf[h]] \cup {Target(h)}
           /\ \A c \in Client : c # clientOf[h] => reached'[c] = reached[c]
           /\ \A c \in Client : reached[c] \subseteq reached'[c]
           /\ \A c \in Client : c # clientOf[h] => repeated'[c] = repeated[c]
           /\ Target(h) \notin reached[clientOf[h]] =>
                  repeated'[clientOf[h]] = repeated[clientOf[h]]
  <1>1. clientOf[h] \in Client
    BY TargetFacts
  <1>2. /\ reached \in [Client -> SUBSET Consumer]
        /\ repeated \in [Client -> SUBSET Consumer]
    BY DEF StateInv, TypeOK
  <1> QED  BY <1>1, <1>2 DEF Stored

\* After a publish the handler has one more consumer behind it.
LEMMA AdvanceFacts ==
    ASSUME StateInv, NEW h \in Handler, InLoop(h), Advance(h),
           UNCHANGED consumers
    PROVE  /\ Passed(h)' = Passed(h) \cup {Target(h)}
           /\ \A g \in Handler : g # h => Passed(g)' = Passed(g)
  <1>1. /\ next[h] \in Nat /\ next[h] >= 1
        /\ next'[h] = next[h] + 1
        /\ \A g \in Handler : g # h => next'[g] = next[g]
    BY TargetFacts DEF StateInv, TypeOK, Advance
  <1>2. 1 .. next'[h] - 1 = (1 .. next[h] - 1) \cup {next[h]}
    BY <1>1
  <1>3. Passed(h)' = Passed(h) \cup {Target(h)}
    BY <1>1, <1>2 DEF Passed, Target
  <1> QED  BY <1>1, <1>3 DEF Passed

\* A free handler has nothing behind it; the others are not disturbed by a
\* handler that returns.
LEMMA DoneFacts ==
    ASSUME StateInv, NEW h \in Handler, Done(h)
    PROVE  /\ clientOf'[h] = NoClient
           /\ \A g \in Handler : g # h =>
                  clientOf'[g] = clientOf[g] /\ Passed(g)' = Passed(g)
  BY DEF StateInv, TypeOK, Done, Passed

\* Nothing has been promised in the initial state.
LEMMA PromiseInit == Init => PromiseInv
  <1> SUFFICES ASSUME Init PROVE PromiseInv
    OBVIOUS
  <1>1. PassedReached /\ PromiseKept
    BY DEF Init, PassedReached, PromiseKept
  <1> QED  BY <1>1, StateInit DEF PromiseInv

\* A handler that fails leaves what the others have behind them, and promises
\* nothing.
LEMMA FailurePromise ==
    ASSUME PromiseInv, NEW h \in Handler, Done(h), UNCHANGED promised,
           \A c \in Client : reached[c] \subseteq reached'[c]
    PROVE  PassedReached' /\ PromiseKept'
  <1>1. StateInv
    BY DEF PromiseInv
  <1>2. PassedReached'
    BY <1>1, DoneFacts DEF PromiseInv, StateInv, TypeOK, PassedReached
  <1> QED  BY <1>2 DEF PromiseInv, PromiseKept

\* Every step keeps the promises.
LEMMA PromiseStep == PromiseInv /\ [Next]_vars => PromiseInv'
  <1> SUFFICES ASSUME PromiseInv, [Next]_vars PROVE PromiseInv'
    OBVIOUS
  <1>0. StateInv /\ StateInv'
    BY StateStep DEF PromiseInv
  <1> SUFFICES PassedReached' /\ PromiseKept'
    BY <1>0 DEF PromiseInv
  <1> USE <1>0
  <1>1. ASSUME UNCHANGED <<handlerVars, reached, promised>>
        PROVE  PassedReached' /\ PromiseKept'
    BY <1>1 DEF PromiseInv, PassedReached, Passed, PromiseKept, handlerVars
  <1>2. ASSUME NEW s, Refresh(s) PROVE PassedReached' /\ PromiseKept'
    BY <1>1, <1>2 DEF Refresh, history
  <1>3. ASSUME NEW c \in Client, NEW h \in Handler, Request(c, h)
        PROVE  PassedReached' /\ PromiseKept'
    <2>1. Passed(h)' = {}
      BY <1>3 DEF StateInv, TypeOK, Request, Passed
    <2>2. \A g \in Handler : g # h =>
              clientOf'[g] = clientOf[g] /\ Passed(g)' = Passed(g)
      BY <1>3 DEF StateInv, TypeOK, Request, Passed
    <2>3. UNCHANGED <<reached, promised>>
      BY <1>3 DEF Request, history
    <2> QED  BY <2>1, <2>2, <2>3 DEF PromiseInv, PassedReached, PromiseKept
  <1>4. ASSUME NEW c \in Client, RequestNotFound(c)
        PROVE  PassedReached' /\ PromiseKept'
    BY <1>1, <1>4 DEF RequestNotFound, history
  <1>5. ASSUME NEW c \in Client, GiveUp(c) PROVE PassedReached' /\ PromiseKept'
    BY <1>1, <1>5 DEF GiveUp
  <1>6. ASSUME NEW h \in Handler, Publish(h)
        PROVE  PassedReached' /\ PromiseKept'
    <2>1. InLoop(h) /\ Stored(h) /\ Advance(h) /\ UNCHANGED consumers
      BY <1>6 DEF Publish
    <2>2. /\ reached'[clientOf[h]] = reached[clientOf[h]] \cup {Target(h)}
          /\ \A c \in Client : reached[c] \subseteq reached'[c]
      BY <2>1, StoredFacts
    <2>3. /\ Passed(h)' = Passed(h) \cup {Target(h)}
          /\ \A g \in Handler : g # h => Passed(g)' = Passed(g)
      BY <2>1, AdvanceFacts
    <2>4. UNCHANGED <<clientOf, promised>>
      BY <1>6 DEF Publish
    <2>5. \A g \in Handler : clientOf[g] # NoClient => clientOf[g] \in Client
      BY DEF StateInv, TypeOK
    <2>6. ASSUME NEW g \in Handler, clientOf[g] # NoClient
          PROVE  Passed(g)' \subseteq reached'[clientOf[g]]
      <3>1. Passed(g) \subseteq reached[clientOf[g]]
        BY <2>6 DEF PromiseInv, PassedReached
      <3>2. CASE g = h
        BY <2>2, <2>3, <3>1, <3>2
      <3>3. CASE g # h
        BY <2>2, <2>3, <2>5, <2>6, <3>1, <3>3
      <3> QED  BY <3>2, <3>3
    <2>7. PassedReached'
      BY <2>4, <2>6 DEF PassedReached
    <2> QED  BY <2>2, <2>4, <2>7 DEF PromiseInv, PromiseKept
  <1>7. ASSUME NEW h \in Handler, PublishRefused(h)
        PROVE  PassedReached' /\ PromiseKept'
    BY <1>7, FailurePromise DEF PublishRefused, Answer500
  <1>8. ASSUME NEW h \in Handler, NEW isStored \in BOOLEAN,
               PublishFails(h, isStored)
        PROVE  PassedReached' /\ PromiseKept'
    <2>1. \A c \in Client : reached[c] \subseteq reached'[c]
      BY <1>8, StoredFacts DEF PublishFails
    <2> QED  BY <1>8, <2>1, FailurePromise DEF PublishFails, Answer500
  <1>9. ASSUME NEW h \in Handler, AnswerOk(h)
        PROVE  PassedReached' /\ PromiseKept'
    <2>1. clientOf[h] \in Client /\ consumers[h] \in Listing
      BY <1>9 DEF StateInv, TypeOK, BusyShape, AnswerOk
    <2>2. Range(consumers[h]) = Passed(h)
      <3>1. Len(consumers[h]) \in Nat /\ next[h] - 1 = Len(consumers[h])
        BY <1>9, <2>1, ListingFacts DEF AnswerOk
      <3>2. DOMAIN consumers[h] = 1 .. next[h] - 1
        BY <2>1, <3>1, ListingFacts
      <3> QED  BY <3>2 DEF Range, Passed
    <2>3. Range(consumers[h]) \subseteq reached[clientOf[h]]
      BY <1>9, <2>2 DEF PromiseInv, PassedReached, AnswerOk
    <2>4. PromiseKept'
      <3>1. promised \in [Client -> SUBSET Consumer]
        BY DEF StateInv, TypeOK
      <3>2. \A c \in Client :
                promised'[c] = promised[c] \/ promised'[c] \subseteq reached[c]
        BY <1>9, <2>1, <2>3, <3>1 DEF AnswerOk
      <3>3. \A c \in Client : promised[c] \subseteq reached[c]
        BY DEF PromiseInv, PromiseKept
      <3>4. UNCHANGED reached
        BY <1>9 DEF AnswerOk
      <3> QED  BY <3>2, <3>3, <3>4 DEF PromiseKept
    <2>5. PassedReached'
      BY <1>9, DoneFacts DEF PromiseInv, PassedReached, AnswerOk
    <2> QED  BY <2>4, <2>5
  <1>10. ASSUME NEW key, LockEnds(key) PROVE PassedReached' /\ PromiseKept'
    BY <1>1, <1>10 DEF LockEnds, history
  <1>11. CASE UNCHANGED vars
    BY <1>1, <1>11 DEF vars, history
  <1> QED
    BY <1>2, <1>3, <1>4, <1>5, <1>6, <1>7, <1>8, <1>9, <1>10, <1>11
       DEF Next, Work

\* A client that is told of a success has reached every consumer the event had
\* when that request was accepted.
THEOREM PromiseKeptCorrect == Spec => []PromiseKept
  <1>1. PromiseInv => PromiseKept
    BY DEF PromiseInv
  <1> QED  BY <1>1, PromiseInit, PromiseStep, PTL DEF Spec

-----------------------------------------------------------------------------
\* When a message is sent twice.

CalmInv == StateInv /\ UntroubledCalm

\* A handler that changes does not disturb a client it does not work for.
LEMMA OthersStayCalm ==
    ASSUME StateInv, NEW c \in Client, Calm(c), NEW h \in Handler,
           clientOf[h] # c, clientOf'[h] # c,
           \A g \in Handler : g # h =>
               clientOf'[g] = clientOf[g] /\ Passed(g)' = Passed(g),
           answer'[c] = answer[c], waitsFor'[c] = waitsFor[c],
           reached'[c] = reached[c], repeated'[c] = repeated[c]
    PROVE  Calm(c)'
  <1>1. waitsFor[c] # NoHandler => waitsFor[c] \in Handler /\ waitsFor[c] # h
    BY DEF StateInv, TypeOK
  <1>2. waitsFor[c] # NoHandler => Passed(waitsFor[c])' = Passed(waitsFor[c])
    BY <1>1
  <1> QED  BY <1>1, <1>2 DEF Calm, Passed

\* A step that changes no handler disturbs no client it does not answer.
LEMMA QuietStepsStayCalm ==
    ASSUME NEW c \in Client, Calm(c),
           UNCHANGED <<clientOf, consumers, next>>,
           answer'[c] = answer[c], waitsFor'[c] = waitsFor[c],
           reached'[c] = reached[c], repeated'[c] = repeated[c]
    PROVE  Calm(c)'
  BY DEF Calm, Passed

\* In the initial state every client is calm.
LEMMA CalmInit == Init => CalmInv
  <1> SUFFICES ASSUME Init PROVE CalmInv
    OBVIOUS
  <1>1. UntroubledCalm
    BY NoneAssumption DEF Init, UntroubledCalm, Calm
  <1> QED  BY <1>1, StateInit DEF CalmInv

\* What an untroubled client's handler sends next it has not sent before: the
\* event's consumers are distinct.
LEMMA TargetIsNew ==
    ASSUME CalmInv, NEW h \in Handler, InLoop(h), clientOf[h] \notin troubled
    PROVE  /\ waitsFor[clientOf[h]] = h
           /\ reached[clientOf[h]] \subseteq Passed(h)
           /\ Target(h) \notin reached[clientOf[h]]
  <1>1. /\ clientOf[h] \in Client /\ consumers[h] \in Listing
        /\ next[h] \in 1 .. Len(consumers[h])
    BY TargetFacts DEF CalmInv
  <1>2. Calm(clientOf[h])
    BY <1>1 DEF CalmInv, UntroubledCalm
  <1>3. waitsFor[clientOf[h]] = h
    BY <1>2 DEF Calm
  <1>4. answer[clientOf[h]] = "none"
    BY <1>1, <1>2, <1>3, NoneAssumption DEF CalmInv, StateInv, TypeOK, Calm
  <1>5. reached[clientOf[h]] \subseteq Passed(h)
    BY <1>2, <1>3, <1>4, NoneAssumption DEF Calm
  <1>6. \A i \in 1 .. next[h] - 1 : consumers[h][i] # consumers[h][next[h]]
    <2>1. Len(consumers[h]) \in Nat
      BY <1>1, ListingFacts
    <2> QED  BY <1>1, <2>1, ListingAssumption
  <1>7. Target(h) \notin Passed(h)
    BY <1>6 DEF Target, Passed
  <1> QED  BY <1>3, <1>5, <1>7

\* A failed request troubles its client and leaves the others calm.
LEMMA FailureCalm ==
    ASSUME CalmInv, NEW h \in Handler, InLoop(h), Answer500(h),
           \A c \in Client : c # clientOf[h] =>
               reached'[c] = reached[c] /\ repeated'[c] = repeated[c]
    PROVE  UntroubledCalm'
  <1> SUFFICES ASSUME NEW c \in Client, c \notin troubled' PROVE Calm(c)'
    BY DEF UntroubledCalm
  <1>1. clientOf[h] \in Client /\ c # clientOf[h] /\ Calm(c)
    BY TargetFacts DEF CalmInv, UntroubledCalm, Answer500
  <1>2. answer'[c] = answer[c] /\ waitsFor'[c] = waitsFor[c]
    BY <1>1 DEF CalmInv, StateInv, TypeOK, Answer500, clientVars
  <1>3. clientOf'[h] # c
    BY DoneFacts, NoneAssumption DEF CalmInv, Answer500
  <1>4. \A g \in Handler : g # h =>
            clientOf'[g] = clientOf[g] /\ Passed(g)' = Passed(g)
    BY DoneFacts DEF CalmInv, Answer500
  <1> QED  BY <1>1, <1>2, <1>3, <1>4, OthersStayCalm DEF CalmInv

\* Every step leaves the clients calm that it does not trouble.
LEMMA CalmStep == CalmInv /\ [Next]_vars => CalmInv'
  <1> SUFFICES ASSUME CalmInv, [Next]_vars PROVE CalmInv'
    OBVIOUS
  <1>0. StateInv /\ StateInv'
    BY StateStep DEF CalmInv
  <1> SUFFICES UntroubledCalm'
    BY <1>0 DEF CalmInv
  <1>1. ASSUME UNCHANGED <<handlerVars, clientVars, reached, repeated, troubled>>
        PROVE  UntroubledCalm'
    BY <1>1, QuietStepsStayCalm
       DEF CalmInv, UntroubledCalm, handlerVars, clientVars
  <1>2. ASSUME NEW s, Refresh(s) PROVE UntroubledCalm'
    BY <1>1, <1>2 DEF Refresh, history
  <1>3. ASSUME NEW d \in Client, NEW h \in Handler, Request(d, h)
        PROVE  UntroubledCalm'
    <2> SUFFICES ASSUME NEW c \in Client, c \notin troubled' PROVE Calm(c)'
      BY DEF UntroubledCalm
    <2>1. Calm(c) /\ UNCHANGED <<answer, reached, repeated>>
      BY <1>3 DEF CalmInv, UntroubledCalm, Request, history
    <2>2. /\ clientOf'[h] = d /\ waitsFor'[d] = h
          /\ \A e \in Client : e # d => waitsFor'[e] = waitsFor[e]
          /\ \A g \in Handler : g # h =>
                 clientOf'[g] = clientOf[g] /\ Passed(g)' = Passed(g)
      BY <1>0, <1>3 DEF StateInv, TypeOK, Request, Passed
    <2>3. CASE c = d
      <3>1. waitsFor[c] = NoHandler /\ answer[c] = "none"
        BY <1>3, <2>1, <2>3 DEF Request, Unanswered, Calm
      <3>2. reached[c] = {}
        BY <2>1, <3>1 DEF Calm
      <3>3. \A g \in Handler : clientOf[g] # c
        BY <2>1, <3>1, NoneAssumption DEF Calm
      <3> QED  BY <2>1, <2>2, <2>3, <3>2, <3>3 DEF Calm
    <2>4. CASE c # d
      <3>1. clientOf[h] # c
        BY <1>3, NoneAssumption DEF Request
      <3> QED  BY <1>0, <2>1, <2>2, <2>4, <3>1, OthersStayCalm
    <2> QED  BY <2>3, <2>4
  <1>4. ASSUME NEW d \in Client, RequestNotFound(d) PROVE UntroubledCalm'
    <2> SUFFICES ASSUME NEW c \in Client, c \notin troubled' PROVE Calm(c)'
      BY DEF UntroubledCalm
    <2>1. /\ Calm(c)
          /\ UNCHANGED <<clientOf, consumers, next, waitsFor, reached, repeated>>
          /\ answer'[c] \in {answer[c], "notFound"}
      BY <1>0, <1>4 DEF StateInv, TypeOK, CalmInv, UntroubledCalm,
                        RequestNotFound, handlerVars, history
    <2> QED  BY <2>1 DEF Calm, Passed
  <1>5. ASSUME NEW d \in Client, GiveUp(d) PROVE UntroubledCalm'
    <2> SUFFICES ASSUME NEW c \in Client, c \notin troubled' PROVE Calm(c)'
      BY DEF UntroubledCalm
    <2>1. c # d /\ Calm(c)
      BY <1>5 DEF CalmInv, UntroubledCalm, GiveUp
    <2>2. /\ UNCHANGED <<clientOf, consumers, next, reached, repeated>>
          /\ answer'[c] = answer[c] /\ waitsFor'[c] = waitsFor[c]
      BY <1>0, <1>5, <2>1 DEF StateInv, TypeOK, GiveUp, handlerVars
    <2> QED  BY <2>1, <2>2, QuietStepsStayCalm
  <1>6. ASSUME NEW h \in Handler, Publish(h) PROVE UntroubledCalm'
    <2> SUFFICES ASSUME NEW c \in Client, c \notin troubled' PROVE Calm(c)'
      BY DEF UntroubledCalm
    <2>1. InLoop(h) /\ Stored(h) /\ Advance(h)
      BY <1>6 DEF Publish
    <2>2. UNCHANGED <<clientOf, consumers, answer, waitsFor, troubled>>
      BY <1>6 DEF Publish, clientVars
    <2>3. Calm(c)
      BY <2>2 DEF CalmInv, UntroubledCalm
    <2>4. /\ Passed(h)' = Passed(h) \cup {Target(h)}
          /\ \A g \in Handler : g # h => Passed(g)' = Passed(g)
      BY <1>0, <2>1, <2>2, AdvanceFacts
    <2>5. CASE c = clientOf[h]
      <3>1. /\ waitsFor[c] = h
            /\ reached[c] \subseteq Passed(h)
            /\ Target(h) \notin reached[c]
        BY <2>1, <2>2, <2>5, TargetIsNew
      <3>2. /\ reached'[c] = reached[c] \cup {Target(h)}
            /\ repeated'[c] = repeated[c]
        BY <1>0, <2>1, <2>5, <3>1, StoredFacts
      <3>3. reached'[c] \subseteq Passed(h)'
        BY <2>4, <3>1, <3>2
      <3> QED  BY <2>2, <2>3, <3>1, <3>2, <3>3, NoneAssumption DEF Calm, Passed
    <2>6. CASE c # clientOf[h]
      <3>1. reached'[c] = reached[c] /\ repeated'[c] = repeated[c]
        BY <1>0, <2>1, <2>6, StoredFacts
      <3> QED  BY <1>0, <2>2, <2>3, <2>4, <2>6, <3>1, OthersStayCalm
    <2> QED  BY <2>5, <2>6
  <1>7. ASSUME NEW h \in Handler, PublishRefused(h) PROVE UntroubledCalm'
    BY <1>7, FailureCalm DEF PublishRefused
  <1>8. ASSUME NEW h \in Handler, NEW isStored \in BOOLEAN,
               PublishFails(h, isStored)
        PROVE  UntroubledCalm'
    <2>1. \A c \in Client : c # clientOf[h] =>
              reached'[c] = reached[c] /\ repeated'[c] = repeated[c]
      BY <1>0, <1>8, StoredFacts DEF PublishFails
    <2> QED  BY <1>8, <2>1, FailureCalm DEF PublishFails
  <1>9. ASSUME NEW h \in Handler, AnswerOk(h) PROVE UntroubledCalm'
    <2> SUFFICES ASSUME NEW c \in Client, c \notin troubled' PROVE Calm(c)'
      BY DEF UntroubledCalm
    <2>1. clientOf[h] \in Client /\ UNCHANGED <<reached, repeated, troubled>>
      BY <1>0, <1>9 DEF StateInv, TypeOK, AnswerOk
    <2>2. Calm(c)
      BY <2>1 DEF CalmInv, UntroubledCalm
    <2>3. /\ clientOf'[h] = NoClient
          /\ \A g \in Handler : g # h =>
                 clientOf'[g] = clientOf[g] /\ Passed(g)' = Passed(g)
      BY <1>0, <1>9, DoneFacts DEF AnswerOk
    <2>4. CASE c = clientOf[h]
      <3>1. waitsFor[c] = h
        BY <2>2, <2>4 DEF Calm
      <3>2. answer'[c] = "ok"
        BY <1>0, <1>9, <2>1, <2>4, <3>1
           DEF StateInv, TypeOK, AnswerOk, Connected
      <3>3. \A g \in Handler : clientOf'[g] # c
        BY <2>2, <2>3, <3>1, NoneAssumption DEF Calm
      <3> QED  BY <2>1, <2>2, <3>2, <3>3 DEF Calm
    <2>5. CASE c # clientOf[h]
      <3>1. answer'[c] = answer[c] /\ waitsFor'[c] = waitsFor[c]
        BY <1>0, <1>9, <2>1, <2>5 DEF StateInv, TypeOK, AnswerOk, clientVars
      <3>2. clientOf'[h] # c
        BY <2>3, NoneAssumption
      <3> QED  BY <1>0, <2>1, <2>2, <2>3, <2>5, <3>1, <3>2, OthersStayCalm
    <2> QED  BY <2>4, <2>5
  <1>10. ASSUME NEW key, LockEnds(key) PROVE UntroubledCalm'
    BY <1>1, <1>10 DEF LockEnds, history
  <1>11. CASE UNCHANGED vars
    BY <1>1, <1>11 DEF vars, history
  <1> QED
    BY <1>2, <1>3, <1>4, <1>5, <1>6, <1>7, <1>8, <1>9, <1>10, <1>11
       DEF Next, Work

\* A consumer gets a client's message twice only if a request of that client
\* failed or was given up.
THEOREM DuplicatesCorrect == Spec => []DuplicatesOnlyAfterFailure
  <1>1. CalmInv => DuplicatesOnlyAfterFailure
    BY DEF CalmInv, UntroubledCalm, Calm, DuplicatesOnlyAfterFailure
  <1> QED  BY <1>1, CalmInit, CalmStep, PTL DEF Spec
=============================================================================
