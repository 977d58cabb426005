--------------------------- MODULE EventCatalog ---------------------------
(***************************************************************************)
(* The catalog of events: the events table the back office writes          *)
(* (internal/interstore/postgres_store.go) and the in-memory copies the    *)
(* publishers read (mem_store.go), each refreshed every minute by a        *)
(* SyncMemStore goroutine.  In the "all" scope the Pub/Sub and the task    *)
(* service share one MemStore and start one such goroutine each.           *)
(*                                                                         *)
(* A refresh has two phases, the query and the swap of the map, and        *)
(* anything may happen between them.  A failed refresh of a running        *)
(* goroutine changes nothing and is not a step of the model; the failure   *)
(* of the first load is, because the service starts all the same.          *)
(***************************************************************************)
EXTENDS Naturals, Sequences

CONSTANTS
    Event,      \* event names (the table's unique column)
    MemStore,   \* in-memory copies, one per process
    Refresher,  \* services with a refresh goroutine
    Deployment, \* the ways to run them: the MemStore each of them refreshes
    MaxWrites   \* bound on the writes of a behaviour

ASSUME DeploymentAssumption == Deployment \subseteq [Refresher -> MemStore]
ASSUME MaxWritesAssumption == MaxWrites \in Nat

VARIABLES
    storeOf,    \* the deployment (never changes)
    table,      \* event -> row
    past,       \* history: what GetAllEvents answered after each write
    pc,         \* per service: new, starting (first load), running
    startedAt,  \* history: how many writes there were when it started
    loadFailed, \* services whose first load failed
    inFlight,   \* per service: query results not yet swapped in
    cache       \* MemStore -> the last result swapped in

vars == <<storeOf, table, past, pc, startedAt, loadFailed, inFlight, cache>>
serviceVars == <<storeOf, pc, startedAt, loadFailed, inFlight, cache>>

State == {"active", "archived", "disabled"}

\* version stands for the consumers and options of the last upsert.
NoRow == [version |-> 0, state |-> "none", deleted |-> FALSE]
Row == [version : 1 .. MaxWrites, state : State, deleted : BOOLEAN]
Table == [Event -> Row \cup {NoRow}]
Load == [at : 0 .. MaxWrites, events : Table]

writes == Len(past) - 1

TypeOK ==
    /\ storeOf \in Deployment
    /\ table \in Table
    /\ past \in Seq(Table) /\ writes \in 0 .. MaxWrites
    /\ pc \in [Refresher -> {"new", "starting", "running"}]
    /\ startedAt \in [Refresher -> 0 .. MaxWrites]
    /\ loadFailed \subseteq Refresher
    /\ inFlight \in [Refresher -> SUBSET Load]
    /\ cache \in [MemStore -> Load]

EmptyTable == [e \in Event |-> NoRow]

Init ==
    /\ storeOf \in Deployment
    /\ table = EmptyTable
    /\ past = <<EmptyTable>>
    /\ pc = [r \in Refresher |-> "new"]
    /\ startedAt = [r \in Refresher |-> 0]
    /\ loadFailed = {}
    /\ inFlight = [r \in Refresher |-> {}]
    /\ cache = [ms \in MemStore |-> [at |-> 0, events |-> EmptyTable]]

-----------------------------------------------------------------------------
\* The table.

\* Mutant: archived listeners are loaded too.
VisibleArchived(row) == row # NoRow /\ ~row.deleted

\* The WHERE clause of GetAllEvents.
Visible(row) == row # NoRow /\ ~row.deleted /\ row.state # "archived"

GetAllEvents(t) == [e \in Event |-> IF Visible(t[e]) THEN t[e] ELSE NoRow]

\* GetInternalEvents with the default filter of GET /api/v1/events.
ListedAsActive(e) == table[e].state = "active"

\* One statement that changes row e.
Write(e, row) ==
    /\ writes < MaxWrites
    /\ table' = [table EXCEPT ![e] = row]
    /\ past' = Append(past, GetAllEvents(table'))
    /\ UNCHANGED serviceVars

\* INSERT ... ON CONFLICT (name) DO UPDATE: deleted_at is not among the columns
\* an update sets.
Upsert(e, state) ==
    Write(e, IF table[e] = NoRow
               THEN [version |-> writes + 1, state |-> state, deleted |-> FALSE]
               ELSE [table[e] EXCEPT !.version = writes + 1, !.state = state])

\* Mutant: the missing state is stored as it is.
SaveConsumerStateless(e) == Upsert(e, "none")

\* PUT /api/v1/event/consumer: Upsert makes an event without a state active.
SaveConsumer(e) == Upsert(e, "active")

\* POST /events/schedule/archived.
RegisterArchived(e) == Upsert(e, "archived")

\* DELETE /api/v1/event/{id} of a row that is not deleted yet (otherwise the
\* statement changes nothing).
RemoveEvent(e) ==
    /\ table[e] # NoRow
    /\ ~table[e].deleted
    /\ Write(e, [table[e] EXCEPT !.state = "disabled", !.deleted = TRUE])

-----------------------------------------------------------------------------
\* The services.

\* main starts the services of a process one after the other.
Start(r) ==
    /\ pc[r] = "new"
    /\ \A s \in Refresher : storeOf[s] = storeOf[r] => pc[s] # "starting"
    /\ pc' = [pc EXCEPT ![r] = "starting"]
    /\ startedAt' = [startedAt EXCEPT ![r] = writes]
    /\ UNCHANGED <<storeOf, table, past, loadFailed, inFlight, cache>>

\* Mutant: each tick loads in a goroutine of its own.
QueryOverlapping(r) ==
    /\ pc[r] # "new"
    /\ inFlight' = [inFlight EXCEPT ![r] =
               @ \cup {[at |-> writes, events |-> GetAllEvents(table)]}]
    /\ UNCHANGED <<storeOf, table, past, pc, startedAt, loadFailed, cache>>

\* Mutant: the timer fires once.
QueryOnce(r) ==
    /\ pc[r] = "starting"
    /\ inFlight[r] = {}
    /\ inFlight' = [inFlight EXCEPT ![r] =
                        {[at |-> writes, events |-> GetAllEvents(table)]}]
    /\ UNCHANGED <<storeOf, table, past, pc, startedAt, loadFailed, cache>>

\* The first phase of LoadInMemStore, by Start or at a tick of SyncMemStore,
\* whose loop finishes one load before it waits for the next tick.
Query(r) ==
    /\ pc[r] # "new"
    /\ inFlight[r] = {}
    /\ inFlight' = [inFlight EXCEPT ![r] =
                        {[at |-> writes, events |-> GetAllEvents(table)]}]
    /\ UNCHANGED <<storeOf, table, past, pc, startedAt, loadFailed, cache>>

\* Mutant: the loaded events are added to the map that is there.
RefreshMerging(r) ==
    \E load \in inFlight[r] :
        /\ inFlight' = [inFlight EXCEPT ![r] = @ \ {load}]
        /\ cache' = [cache EXCEPT ![storeOf[r]] =
               [at |-> load.at,
                events |-> [e \in Event |-> IF load.events[e] = NoRow
                                              THEN cache[storeOf[r]].events[e]
                                              ELSE load.events[e]]]]
        /\ pc' = [pc EXCEPT ![r] = "running"]
        /\ UNCHANGED <<storeOf, table, past, startedAt, loadFailed>>

\* The second phase: the new map replaces the old one.  The first load also ends
\* Start, and the HTTP server is started.
Refresh(r) ==
    \E load \in inFlight[r] :
        /\ inFlight' = [inFlight EXCEPT ![r] = @ \ {load}]
        /\ cache' = [cache EXCEPT ![storeOf[r]] = load]
        /\ pc' = [pc EXCEPT ![r] = "running"]
        /\ UNCHANGED <<storeOf, table, past, startedAt, loadFailed>>

\* Mutant: the first load is left to the refresh goroutine.
FirstLoadSkipped(r) ==
    /\ pc[r] = "starting"
    /\ inFlight[r] = {}
    /\ pc' = [pc EXCEPT ![r] = "running"]
    /\ UNCHANGED <<storeOf, table, past, startedAt, loadFailed, inFlight,
                   cache>>

\* The first load fails; Start ignores the error and starts the HTTP server.
FirstLoadFails(r) ==
    /\ pc[r] = "starting"
    /\ inFlight[r] = {}
    /\ pc' = [pc EXCEPT ![r] = "running"]
    /\ loadFailed' = loadFailed \cup {r}
    /\ UNCHANGED <<storeOf, table, past, startedAt, inFlight, cache>>

Next ==
    \/ \E e \in Event : SaveConsumer(e) \/ RegisterArchived(e) \/ RemoveEvent(e)
    \/ \E r \in Refresher :
           Start(r) \/ Query(r) \/ Refresh(r) \/ FirstLoadFails(r)

Spec == Init /\ [][Next]_vars

\* The ticker goes on firing and a query that was answered is swapped in.
Fairness == \A r \in Refresher : WF_vars(Query(r)) /\ WF_vars(Refresh(r))

FairSpec == Spec /\ Fairness

-----------------------------------------------------------------------------
\* Properties.

\* A publisher is served by an active event only: no order of registrations,
\* archived registrations, removals and refreshes puts an archived listener or
\* a removed event where GetEvent finds it.
ServedIsActive ==
    \A ms \in MemStore, e \in Event :
        cache[ms].events[e] # NoRow => /\ cache[ms].events[e].state = "active"
                                       /\ ~cache[ms].events[e].deleted

\* A MemStore is always the answer to one query, never a mix of two: what it
\* holds is what the table showed at one moment.
CacheIsASnapshot ==
    \A ms \in MemStore :
        /\ cache[ms].at <= writes
        /\ cache[ms].events = past[cache[ms].at + 1]

\* When the first service of a process is up and its first load went well, every
\* event registered before it started is known as of that moment or a later
\* one, for good: no refresh can undo it.  (Of a service that shares the store
\* and starts later this does not hold: a query the first one has in flight may
\* be swapped in over the later one's first load.)
StartedFirst(r) ==
    \A s \in Refresher :
        storeOf[s] = storeOf[r] => pc[s] = "new" \/ startedAt[s] >= startedAt[r]
KnownSinceStart ==
    \A r \in Refresher :
        pc[r] = "running" /\ r \notin loadFailed /\ StartedFirst(r)
            => cache[storeOf[r]].at >= startedAt[r]

\* A MemStore with one refresh goroutine never goes back to an older state of
\* the table (with two, as in the "all" scope, it can).
OnlyRefresher(r) == \A s \in Refresher : storeOf[s] = storeOf[r] => s = r
NeverGoesBack ==
    [][\A r \in Refresher : OnlyRefresher(r) =>
            cache'[storeOf[r]].at >= cache[storeOf[r]].at]_cache

\* Once the back office stops writing, every running service ends up with the
\* table as it is, even where two goroutines overwrite each other's refreshes.
EventuallyCurrent ==
    <>[](\A r \in Refresher : pc[r] = "running" =>
            cache[storeOf[r]].events = GetAllEvents(table))

\* What the back office lists as active is what publishers will find
\* (example/example.md: PUT is "create or update event"); a removed event that
\* is registered again is listed but stays invisible to GetAllEvents.
ListedIsVisible == \A e \in Event : ListedAsActive(e) => Visible(table[e])
=============================================================================
