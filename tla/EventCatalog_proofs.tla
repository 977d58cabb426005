------------------------ MODULE EventCatalog_proofs ------------------------
(***************************************************************************)
(* Proofs about EventCatalog, for any events, services, deployments and    *)
(* numbers of writes.                                                      *)
(***************************************************************************)
EXTENDS EventCatalog, TLAPS

-----------------------------------------------------------------------------
\* The inductive invariant, part by part.

\* Only a removed row is disabled, and a removed row stays deleted.
DisabledIsDeleted == \A e \in Event : table[e].state = "disabled" => table[e].deleted

\* What GetAllEvents answered, at any time, were active events.
AnswersAreActive ==
    \A i \in 1 .. Len(past), e \in Event :
        past[i][e] # NoRow => past[i][e].state = "active" /\ ~past[i][e].deleted

\* The last answer is the one it would give now.
LastAnswerIsCurrent == past[Len(past)] = GetAllEvents(table)

\* A load is the answer to one query.
Snapshot(load) == load.at <= writes /\ load.events = past[load.at + 1]

LoadsAreSnapshots == \A r \in Refresher : \A load \in inFlight[r] : Snapshot(load)

\* A service has one load at a time, made after it started.
OneLoad ==
    \A r \in Refresher :
        /\ startedAt[r] <= writes
        /\ \A load \in inFlight[r] :
               inFlight[r] = {load} /\ pc[r] # "new" /\ startedAt[r] <= load.at

\* The load of a store's only service is no older than what it replaces.
LoadIsNewer ==
    \A r \in Refresher : OnlyRefresher(r) =>
        \A load \in inFlight[r] : cache[storeOf[r]].at <= load.at

TableInv == DisabledIsDeleted /\ AnswersAreActive /\ LastAnswerIsCurrent
LoadInv == LoadsAreSnapshots /\ CacheIsASnapshot /\ OneLoad
Inv == TypeOK /\ TableInv /\ LoadInv /\ KnownSinceStart /\ LoadIsNewer

-----------------------------------------------------------------------------
\* Type correctness.

\* A row is no missing row, and the answer to a query has the type of a table.
LEMMA AnswerType ==
    ASSUME NEW t \in Table
    PROVE  GetAllEvents(t) \in Table
  BY DEF GetAllEvents, Table

LEMMA EmptyTableType == EmptyTable \in Table /\ GetAllEvents(EmptyTable) = EmptyTable
  BY DEF EmptyTable, Table, GetAllEvents, Visible

\* A statement that writes a row adds one answer to the history.
LEMMA WriteTypes ==
    ASSUME TypeOK, NEW e \in Event, NEW row \in Row, Write(e, row)
    PROVE  /\ TypeOK'
           /\ table' = [table EXCEPT ![e] = row]
           /\ writes' = writes + 1
           /\ Len(past') = Len(past) + 1
           /\ \A i \in 1 .. Len(past) : past'[i] = past[i]
           /\ past'[Len(past')] = GetAllEvents(table')
  <1>1. table' \in Table /\ table' = [table EXCEPT ![e] = row]
    BY DEF TypeOK, Table, Write
  <1>2. past' = Append(past, GetAllEvents(table'))
    BY DEF Write
  <1>3. GetAllEvents(table') \in Table
    BY <1>1, AnswerType
  <1>4. past \in Seq(Table)
    BY DEF TypeOK
  <1>5. past' \in Seq(Table) /\ Len(past') = Len(past) + 1
    BY <1>2, <1>3, <1>4
  <1>6. /\ \A i \in 1 .. Len(past) : past'[i] = past[i]
        /\ past'[Len(past')] = GetAllEvents(table')
    BY <1>2, <1>3, <1>4
  <1>7. writes' = writes + 1 /\ writes' \in 0 .. MaxWrites
    BY <1>4, <1>5, MaxWritesAssumption DEF writes, Write, TypeOK
  <1>8. TypeOK'
    BY <1>1, <1>5, <1>7 DEF TypeOK, Write, serviceVars
  <1> QED  BY <1>1, <1>5, <1>6, <1>7, <1>8

\* The three handlers of the back office each write one row, which is removed if
\* it becomes disabled.
LEMMA Handlers ==
    ASSUME TypeOK, NEW e \in Event, SaveConsumer(e) \/ RegisterArchived(e) \/ RemoveEvent(e)
    PROVE  \E row \in Row : Write(e, row) /\ (row.state = "disabled" => row.deleted)
  <1>1. table[e] \in Row \cup {NoRow} /\ writes \in 0 .. MaxWrites
    BY DEF TypeOK, Table
  <1>2. CASE SaveConsumer(e) \/ RegisterArchived(e)
    <2>1. PICK state \in {"active", "archived"} : Upsert(e, state)
      BY <1>2 DEF SaveConsumer, RegisterArchived
    <2> DEFINE row == IF table[e] = NoRow
                        THEN [version |-> writes + 1, state |-> state, deleted |-> FALSE]
                        ELSE [table[e] EXCEPT !.version = writes + 1, !.state = state]
    <2>2. Write(e, row)
      BY <2>1 DEF Upsert
    <2>3. writes + 1 \in 1 .. MaxWrites
      BY <1>1, <2>2, MaxWritesAssumption DEF Write
    <2>4. row \in Row /\ row.state = state
      BY <1>1, <2>3 DEF Row, State
    <2> QED  BY <2>2, <2>4
  <1>3. CASE RemoveEvent(e)
    <2> DEFINE row == [table[e] EXCEPT !.state = "disabled", !.deleted = TRUE]
    <2>1. Write(e, row) /\ table[e] \in Row
      BY <1>1, <1>3 DEF RemoveEvent
    <2>2. row \in Row /\ row.deleted
      BY <2>1 DEF Row, State
    <2> QED  BY <2>1, <2>2
  <1> QED  BY <1>2, <1>3

\* The steps of a service keep the types.
LEMMA ServiceTypes ==
    ASSUME TypeOK, NEW r \in Refresher,
           Start(r) \/ Query(r) \/ Refresh(r) \/ FirstLoadFails(r)
    PROVE  TypeOK'
  <1> USE DEF TypeOK
  <1>1. UNCHANGED writes
    BY DEF writes, Start, Query, Refresh, FirstLoadFails
  <1>2. storeOf[r] \in MemStore
    BY DeploymentAssumption
  <1>3. CASE Start(r)
    BY <1>1, <1>3 DEF Start
  <1>4. CASE Query(r)
    <2>1. [at |-> writes, events |-> GetAllEvents(table)] \in Load
      BY AnswerType DEF Load
    <2> QED  BY <1>1, <1>4, <2>1 DEF Query
  <1>5. CASE Refresh(r)
    BY <1>1, <1>2, <1>5 DEF Refresh
  <1>6. CASE FirstLoadFails(r)
    BY <1>1, <1>6 DEF FirstLoadFails
  <1> QED  BY <1>3, <1>4, <1>5, <1>6

LEMMA TypeInit == Init => TypeOK
  <1> SUFFICES ASSUME Init PROVE TypeOK  OBVIOUS
  <1>1. past \in Seq(Table) /\ writes = 0
    BY EmptyTableType DEF Init, writes
  <1>2. cache \in [MemStore -> Load] /\ startedAt \in [Refresher -> 0 .. MaxWrites]
    BY EmptyTableType, MaxWritesAssumption DEF Init, Load
  <1> QED  BY <1>1, <1>2, EmptyTableType, MaxWritesAssumption DEF Init, TypeOK

LEMMA TypeNext == TypeOK /\ [Next]_vars => TypeOK'
  <1> SUFFICES ASSUME TypeOK, [Next]_vars PROVE TypeOK'  OBVIOUS
  <1>1. ASSUME NEW e \in Event, SaveConsumer(e) \/ RegisterArchived(e) \/ RemoveEvent(e)
        PROVE  TypeOK'
    BY <1>1, Handlers, WriteTypes
  <1>2. ASSUME NEW r \in Refresher, Start(r) \/ Query(r) \/ Refresh(r) \/ FirstLoadFails(r)
        PROVE  TypeOK'
    BY <1>2, ServiceTypes
  <1>3. CASE UNCHANGED vars
    BY <1>3 DEF TypeOK, vars, writes
  <1> QED  BY <1>1, <1>2, <1>3 DEF Next

\* Rows, loads and stores have their types: GetAllEvents answers with rows of the
\* table, and a refresh puts such an answer into a MemStore.
THEOREM TypeCorrect == Spec => []TypeOK
  BY TypeInit, TypeNext, PTL DEF Spec

-----------------------------------------------------------------------------
\* The table and its answers.

\* GetAllEvents answers with active events only, as a removed row stays deleted.
LEMMA AnswerIsActive ==
    ASSUME NEW t \in Table, \A f \in Event : t[f].state = "disabled" => t[f].deleted,
           NEW e \in Event, GetAllEvents(t)[e] # NoRow
    PROVE  GetAllEvents(t)[e].state = "active" /\ ~GetAllEvents(t)[e].deleted
  <1>1. t[e] \in Row /\ Visible(t[e]) /\ GetAllEvents(t)[e] = t[e]
    BY DEF GetAllEvents, Visible, Table
  <1> QED  BY <1>1 DEF Row, State, Visible

\* A write keeps what is known of the table, of loads and of stores.
LEMMA WriteInv ==
    ASSUME Inv, NEW e \in Event, NEW row \in Row, row.state = "disabled" => row.deleted,
           Write(e, row)
    PROVE  Inv'
  <1> USE DEF Inv, TableInv, LoadInv
  <1>1. /\ TypeOK'
        /\ table' = [table EXCEPT ![e] = row]
        /\ writes' = writes + 1
        /\ Len(past') = Len(past) + 1
        /\ \A i \in 1 .. Len(past) : past'[i] = past[i]
        /\ past'[Len(past')] = GetAllEvents(table')
    BY WriteTypes
  <1>2. UNCHANGED serviceVars /\ UNCHANGED <<storeOf, pc, startedAt, loadFailed, inFlight, cache>>
    BY DEF Write, serviceVars
  <1>3. DisabledIsDeleted'
    BY <1>1 DEF DisabledIsDeleted, TypeOK, Table
  <1>4. AnswersAreActive'
    <2> SUFFICES ASSUME NEW i \in 1 .. Len(past'), NEW f \in Event, past'[i][f] # NoRow
                 PROVE  past'[i][f].state = "active" /\ ~past'[i][f].deleted
      BY DEF AnswersAreActive
    <2>1. Len(past) \in Nat
      BY DEF TypeOK
    <2>2. CASE i \in 1 .. Len(past)
      BY <1>1, <2>2 DEF AnswersAreActive
    <2>3. CASE i = Len(past')
      <3>1. table' \in Table
        BY <1>1 DEF TypeOK
      <3>2. past'[i] = GetAllEvents(table')
        BY <1>1, <2>3
      <3> QED  BY <1>3, <3>1, <3>2, AnswerIsActive DEF DisabledIsDeleted
    <2> QED  BY <1>1, <2>1, <2>2, <2>3
  <1>5. LastAnswerIsCurrent'
    BY <1>1 DEF LastAnswerIsCurrent
  <1>6. ASSUME NEW load \in Load, Snapshot(load)
        PROVE  Snapshot(load)'
    BY <1>1, <1>6 DEF Snapshot, Load, TypeOK, writes
  <1>7. LoadsAreSnapshots'
    BY <1>2, <1>6 DEF LoadsAreSnapshots, TypeOK
  <1>8. CacheIsASnapshot'
    <2>1. \A ms \in MemStore : cache[ms] \in Load /\ Snapshot(cache[ms])
      BY DEF CacheIsASnapshot, Snapshot, TypeOK
    <2> QED  BY <1>2, <1>6, <2>1 DEF CacheIsASnapshot, Snapshot
  <1>9. OneLoad'
    BY <1>1, <1>2 DEF OneLoad, TypeOK
  <1>10. KnownSinceStart' /\ LoadIsNewer'
    BY <1>2 DEF KnownSinceStart, StartedFirst, LoadIsNewer, OnlyRefresher
  <1> QED  BY <1>1, <1>3, <1>4, <1>5, <1>7, <1>8, <1>9, <1>10

-----------------------------------------------------------------------------
\* The services.

\* The steps of a service leave the table and its answers alone.
LEMMA TableUnchanged ==
    ASSUME Inv, UNCHANGED <<table, past>>
    PROVE  TableInv' /\ UNCHANGED writes
  BY DEF Inv, TableInv, DisabledIsDeleted, AnswersAreActive, LastAnswerIsCurrent, writes

\* A service that starts has no load yet, and later services start later.
LEMMA StartInv ==
    ASSUME Inv, NEW r \in Refresher, Start(r)
    PROVE  Inv'
  <1> USE DEF Inv, LoadInv
  <1>1. TypeOK' /\ TableInv' /\ UNCHANGED writes
    BY ServiceTypes, TableUnchanged DEF Start
  <1>2. LoadsAreSnapshots' /\ CacheIsASnapshot' /\ LoadIsNewer'
    BY <1>1 DEF Start, LoadsAreSnapshots, CacheIsASnapshot, Snapshot, LoadIsNewer, OnlyRefresher
  <1>3. writes \in Nat
    BY MaxWritesAssumption DEF TypeOK
  <1>4. OneLoad'
    BY <1>1, <1>3 DEF Start, OneLoad, TypeOK
  <1>5. KnownSinceStart'
    <2> SUFFICES ASSUME NEW s \in Refresher, (pc[s] = "running")', s \notin loadFailed',
                        StartedFirst(s)'
                 PROVE  cache'[storeOf'[s]].at >= startedAt'[s]
      BY DEF KnownSinceStart
    <2>1. s # r /\ pc[s] = "running" /\ startedAt'[s] = startedAt[s]
      BY DEF Start, TypeOK
    <2>2. StartedFirst(s)
      BY DEF Start, StartedFirst, TypeOK
    <2> QED  BY <2>1, <2>2 DEF Start, KnownSinceStart
  <1> QED  BY <1>1, <1>2, <1>4, <1>5

\* A query gets the current answer.
LEMMA QueryInv ==
    ASSUME Inv, NEW r \in Refresher, Query(r)
    PROVE  Inv'
  <1> USE DEF Inv, LoadInv
  <1> DEFINE load == [at |-> writes, events |-> GetAllEvents(table)]
  <1>1. TypeOK' /\ TableInv' /\ UNCHANGED writes
    BY ServiceTypes, TableUnchanged DEF Query
  <1>2. /\ inFlight' = [inFlight EXCEPT ![r] = {load}]
        /\ UNCHANGED <<storeOf, table, past, pc, startedAt, loadFailed, cache>>
    BY DEF Query
  <1>3. writes \in Nat /\ writes + 1 = Len(past)
    BY MaxWritesAssumption DEF TypeOK, writes
  <1>4. Snapshot(load)
    BY <1>3 DEF Snapshot, TableInv, LastAnswerIsCurrent
  <1>5. LoadsAreSnapshots'
    BY <1>1, <1>2, <1>4 DEF LoadsAreSnapshots, Snapshot, TypeOK
  <1>6. CacheIsASnapshot' /\ KnownSinceStart'
    BY <1>1, <1>2 DEF CacheIsASnapshot, KnownSinceStart, StartedFirst
  <1>7. OneLoad'
    BY <1>1, <1>2 DEF OneLoad, TypeOK, Query
  <1>8. LoadIsNewer'
    <2>1. cache[storeOf[r]].at <= load.at
      BY DeploymentAssumption DEF CacheIsASnapshot, TypeOK
    <2> QED  BY <1>2, <2>1 DEF LoadIsNewer, OnlyRefresher, TypeOK
  <1> QED  BY <1>1, <1>5, <1>6, <1>7, <1>8

\* A refresh replaces what a store holds by the load, as a whole.
LEMMA RefreshInv ==
    ASSUME Inv, NEW r \in Refresher, Refresh(r)
    PROVE  Inv'
  <1> USE DEF Inv, LoadInv
  <1>1. TypeOK' /\ TableInv' /\ UNCHANGED writes
    BY ServiceTypes, TableUnchanged DEF Refresh
  <1>2. PICK load \in inFlight[r] :
          /\ inFlight' = [inFlight EXCEPT ![r] = @ \ {load}]
          /\ cache' = [cache EXCEPT ![storeOf[r]] = load]
          /\ pc' = [pc EXCEPT ![r] = "running"]
          /\ UNCHANGED <<storeOf, table, past, startedAt, loadFailed>>
    BY DEF Refresh
  <1>3. /\ storeOf \in [Refresher -> MemStore]
        /\ inFlight'[r] = {} /\ \A s \in Refresher \ {r} : inFlight'[s] = inFlight[s]
        /\ cache'[storeOf[r]] = load
        /\ \A ms \in MemStore \ {storeOf[r]} : cache'[ms] = cache[ms]
    BY <1>2, DeploymentAssumption DEF TypeOK, OneLoad
  <1>4. Snapshot(load)
    BY DEF LoadsAreSnapshots
  <1>5. LoadsAreSnapshots' /\ CacheIsASnapshot'
    BY <1>1, <1>2, <1>3, <1>4 DEF LoadsAreSnapshots, CacheIsASnapshot, Snapshot
  <1>6. OneLoad'
    BY <1>1, <1>2, <1>3 DEF OneLoad, TypeOK
  <1>7. LoadIsNewer'
    BY <1>2, <1>3 DEF LoadIsNewer, OnlyRefresher
  <1>8. KnownSinceStart'
    <2> SUFFICES ASSUME NEW s \in Refresher, (pc[s] = "running")', s \notin loadFailed',
                        StartedFirst(s)'
                 PROVE  cache'[storeOf[s]].at >= startedAt[s]
      BY <1>2 DEF KnownSinceStart
    <2>1. pc[r] # "new" /\ startedAt[r] <= load.at /\ load.at \in Nat
          /\ startedAt[r] \in Nat /\ startedAt[s] \in Nat
      BY MaxWritesAssumption DEF OneLoad, TypeOK, Load
    <2>2. CASE storeOf[s] = storeOf[r]
      <3>1. startedAt[r] >= startedAt[s]
        BY <1>2, <2>2 DEF StartedFirst, TypeOK
      <3> QED  BY <1>3, <2>1, <2>2, <3>1
    <2>3. CASE storeOf[s] # storeOf[r]
      <3>1. s # r /\ pc'[s] = pc[s]
        BY <1>2, <2>3 DEF TypeOK
      <3>2. StartedFirst(s)
        BY <1>2, <2>3 DEF StartedFirst, TypeOK
      <3> QED  BY <1>2, <1>3, <2>3, <3>1, <3>2 DEF KnownSinceStart
    <2> QED  BY <2>2, <2>3
  <1> QED  BY <1>1, <1>5, <1>6, <1>7, <1>8

\* A failed first load is remembered.
LEMMA FirstLoadFailsInv ==
    ASSUME Inv, NEW r \in Refresher, FirstLoadFails(r)
    PROVE  Inv'
  <1> USE DEF Inv, LoadInv
  <1>1. TypeOK' /\ TableInv' /\ UNCHANGED writes
    BY ServiceTypes, TableUnchanged DEF FirstLoadFails
  <1>2. LoadsAreSnapshots' /\ CacheIsASnapshot' /\ LoadIsNewer'
    BY <1>1 DEF FirstLoadFails, LoadsAreSnapshots, CacheIsASnapshot, Snapshot, LoadIsNewer,
                OnlyRefresher
  <1>3. OneLoad'
    BY <1>1 DEF FirstLoadFails, OneLoad, TypeOK
  <1>4. ASSUME NEW s \in Refresher, StartedFirst(s)'
        PROVE  StartedFirst(s)
    BY <1>4 DEF FirstLoadFails, StartedFirst, TypeOK
  <1>5. KnownSinceStart'
    BY <1>4 DEF FirstLoadFails, KnownSinceStart, TypeOK
  <1> QED  BY <1>1, <1>2, <1>3, <1>5

-----------------------------------------------------------------------------
\* The invariant, and what follows from it.

LEMMA InvInit == Init => Inv
  <1> SUFFICES ASSUME Init PROVE Inv  OBVIOUS
  <1>1. TypeOK
    BY TypeInit
  <1>2. writes = 0 /\ Len(past) = 1 /\ past[1] = EmptyTable
    BY DEF Init, writes
  <1>3. TableInv
    <2>1. \A e \in Event : EmptyTable[e] = NoRow
      BY DEF EmptyTable
    <2>2. DisabledIsDeleted
      BY <2>1 DEF Init, DisabledIsDeleted, NoRow
    <2>3. AnswersAreActive /\ LastAnswerIsCurrent
      BY <1>2, <2>1, EmptyTableType DEF Init, AnswersAreActive, LastAnswerIsCurrent
    <2> QED  BY <2>2, <2>3 DEF TableInv
  <1>4. LoadInv /\ KnownSinceStart /\ LoadIsNewer
    BY <1>2 DEF Init, LoadInv, LoadsAreSnapshots, CacheIsASnapshot, OneLoad, KnownSinceStart,
                LoadIsNewer
  <1> QED  BY <1>1, <1>3, <1>4 DEF Inv

LEMMA InvNext == Inv /\ [Next]_vars => Inv'
  <1> SUFFICES ASSUME Inv, [Next]_vars PROVE Inv'  OBVIOUS
  <1>1. ASSUME NEW e \in Event, SaveConsumer(e) \/ RegisterArchived(e) \/ RemoveEvent(e)
        PROVE  Inv'
    BY <1>1, Handlers, WriteInv DEF Inv
  <1>2. ASSUME NEW r \in Refresher, Start(r) \/ Query(r) \/ Refresh(r) \/ FirstLoadFails(r)
        PROVE  Inv'
    BY <1>2, StartInv, QueryInv, RefreshInv, FirstLoadFailsInv
  <1>3. CASE UNCHANGED vars
    <2>1. TypeOK' /\ TableInv' /\ UNCHANGED writes
      BY <1>3, TypeNext, TableUnchanged DEF Inv, vars
    <2> QED  BY <1>3, <2>1
             DEF vars, Inv, LoadInv, LoadsAreSnapshots, CacheIsASnapshot, Snapshot, OneLoad,
                 KnownSinceStart, StartedFirst, LoadIsNewer, OnlyRefresher
  <1> QED  BY <1>1, <1>2, <1>3 DEF Next

\* A MemStore is always the answer to one query (LoadInMemStore replaces the map).
THEOREM SnapshotCorrect == Spec => []CacheIsASnapshot
  <1>1. Inv => CacheIsASnapshot
    BY DEF Inv, LoadInv
  <1> QED  BY <1>1, InvInit, InvNext, PTL DEF Spec

\* Publishers are served active events only: what a MemStore holds is an answer of
\* GetAllEvents, and those were active events.
THEOREM ServedCorrect == Spec => []ServedIsActive
  <1>1. Inv => ServedIsActive
    <2> SUFFICES ASSUME Inv, NEW ms \in MemStore, NEW e \in Event, cache[ms].events[e] # NoRow
                 PROVE  cache[ms].events[e].state = "active" /\ ~cache[ms].events[e].deleted
      BY DEF ServedIsActive
    <2>1. /\ cache[ms].events = past[cache[ms].at + 1]
          /\ cache[ms].at + 1 \in 1 .. Len(past)
      BY MaxWritesAssumption DEF Inv, LoadInv, CacheIsASnapshot, TypeOK, Load, writes
    <2> QED  BY <2>1 DEF Inv, TableInv, AnswersAreActive
  <1> QED  BY <1>1, InvInit, InvNext, PTL DEF Spec

\* Of the first service of a process, what it loaded at its start is never undone.
THEOREM KnownCorrect == Spec => []KnownSinceStart
  <1>1. Inv => KnownSinceStart
    BY DEF Inv
  <1> QED  BY <1>1, InvInit, InvNext, PTL DEF Spec

\* A store with one refresh goroutine never goes back: its load is no older than
\* what it replaces, and nobody else replaces it.
THEOREM NeverGoesBackCorrect == Spec => NeverGoesBack
  <1>1. ASSUME Inv, [Next]_vars
        PROVE  [\A r \in Refresher : OnlyRefresher(r) =>
                    cache'[storeOf[r]].at >= cache[storeOf[r]].at]_cache
    <2> SUFFICES ASSUME cache' # cache, NEW r \in Refresher, OnlyRefresher(r)
                 PROVE  cache'[storeOf[r]].at >= cache[storeOf[r]].at
      OBVIOUS
    <2>1. \A ms \in MemStore : cache[ms].at \in Nat
      BY <1>1, MaxWritesAssumption DEF Inv, TypeOK, Load
    <2>2. PICK s \in Refresher : Refresh(s)
      BY <1>1 DEF Next, vars, SaveConsumer, RegisterArchived, RemoveEvent, Upsert, Write,
                  serviceVars, Start, Query, FirstLoadFails
    <2>3. PICK load \in inFlight[s] : cache' = [cache EXCEPT ![storeOf[s]] = load]
      BY <2>2 DEF Refresh
    <2>4. storeOf \in [Refresher -> MemStore] /\ load.at \in Nat
      BY <1>1, DeploymentAssumption, MaxWritesAssumption DEF Inv, TypeOK, Load
    <2>5. CASE s = r
      <3>1. cache'[storeOf[r]] = load
        BY <1>1, <2>3, <2>4, <2>5 DEF Inv, TypeOK
      <3> QED  BY <1>1, <2>1, <2>4, <2>5, <3>1 DEF Inv, LoadIsNewer
    <2>6. CASE s # r
      <3>1. cache'[storeOf[r]] = cache[storeOf[r]]
        BY <1>1, <2>3, <2>4, <2>6 DEF Inv, TypeOK, OnlyRefresher
      <3> QED  BY <2>1, <2>4, <3>1
    <2> QED  BY <2>5, <2>6
  <1> QED  BY <1>1, InvInit, InvNext, PTL DEF Spec, NeverGoesBack
=============================================================================
