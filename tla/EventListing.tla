---------------------------- MODULE EventListing ----------------------------
(***************************************************************************)
(* GET /api/v1/events of the back office: the query parameters are parsed  *)
(* into a filter (pkg/queryparser), defaults fill what is absent, and the  *)
(* filter becomes one SQL query.  A client walks through the pages while   *)
(* others register, change and remove events.                              *)
(*                                                                         *)
(* The query has no ORDER BY.  A row that is written may go anywhere; the  *)
(* order of the others is taken to stay.  A removed event keeps its row,   *)
(* in the state disabled.                                                  *)
(***************************************************************************)
EXTENDS Naturals, Sequences, FiniteSets, SequencesExt

CONSTANTS
    Event,
    State, Active,  \* a removed event is disabled, one for dead letters archived
    Service,
    Quoted,         \* the states and services with a single quote in their name
    Query,          \* what clients ask for, but for the page; see RawFilter
    DefaultLimit,
    MaxBigint,      \* the largest number LIMIT and OFFSET take
    MaxWrites,
    Blank, Bad,     \* a parameter without a value, and one that is no number
    Nil             \* a slice that was not set

\* A number is absent or empty (Blank), malformed (Bad) or a number.  A list
\* is given by any number of parameters, each with the pieces between commas.
RawNumber == Nat \cup {Blank, Bad}
RawList(S) == Seq(Seq(S \cup {Blank}))
RawFilter == [state : RawList(State), team : RawList({"team"}),
              service : RawList(Service), limit : RawNumber]

\* An event has its row but once, and there are finitely many.
ASSUME QueryAssumption ==
    /\ IsFiniteSet(Event)
    /\ Query \subseteq RawFilter
    /\ MaxBigint \in Nat
    /\ DefaultLimit \in 1 .. MaxBigint
    /\ MaxWrites \in Nat
    /\ Blank # Bad /\ Blank \notin Nat /\ Bad \notin Nat

VARIABLES
    rows,       \* the table, in the order in which a query finds its rows
    writes,
    walk        \* a client on its way through the pages

listVars == <<rows, writes, walk>>

Row == [event : Event, state : State, service : Service]

-----------------------------------------------------------------------------
(* queryparser *)

\* setFieldValue of an unsigned number, which stays 0 without a value.
ParseUint(raw) == IF raw = Blank THEN 0 ELSE raw

\* What a list names, however it is cut into parameters and pieces.  The query
\* asks for IN (...), so that neither order nor repetition matters.
Named(raw) == UNION {ToSet(raw[i]) : i \in DOMAIN raw} \ {Blank}

\* setSliceValue: a list that was given is set, even if nothing is left of it.
ParseList(raw) == IF raw = <<>> THEN Nil ELSE Named(raw)

\* ParseUint takes numbers of 64 bits, twice the range of a signed one.
MaxUint == 2 * MaxBigint + 1

IsUint(raw) == raw = Blank \/ raw \in 0 .. MaxUint

Parses(q, page) == IsUint(q.limit) /\ IsUint(page)

ParseQueryParams(q, page) ==
    [state |-> ParseList(q.state), team |-> ParseList(q.team),
     service |-> ParseList(q.service), page |-> ParseUint(page), limit |-> ParseUint(q.limit)]

\* applyDefaults replaces zero values only.
ApplyDefaults(f) ==
    [f EXCEPT !.state = IF @ = Nil THEN {Active} ELSE @,
              !.page = IF @ = 0 THEN 1 ELSE @,
              !.limit = IF @ = 0 THEN DefaultLimit ELSE @]

Filter(q, page) == ApplyDefaults(ParseQueryParams(q, page))

-----------------------------------------------------------------------------
(* GetInternalEvents *)

Listed(list) == IF list = Nil THEN {} ELSE list
Given(list) == Listed(list) # {}

\* The WHERE clause begins with the states, and AND precedes the others; the
\* table has no column team_owner.  The names are put between single quotes as
\* they are, so that one with a quote in it ends its literal early.
ValidSQL(f) ==
    /\ Given(f.state)
    /\ ~Given(f.team)
    /\ Quoted \cap (f.state \cup Listed(f.service)) = {}
    /\ f.limit <= MaxBigint /\ f.page - 1 <= MaxBigint

Matches(f, row) ==
    /\ row.state \in f.state
    /\ Given(f.service) => row.service \in Listed(f.service)

\* The matching rows, and those among them up to the i-th row of the table.
Found(f) == {row \in ToSet(rows) : Matches(f, row)}
FoundUpTo(f, i) == {rows[j] : j \in {j \in 1 .. i : Matches(f, rows[j])}}

Position(f, i) == Cardinality(FoundUpTo(f, i))

\* Mutant: OFFSET f.page.
PageOfFromOne(f) ==
    {i \in DOMAIN rows : /\ Matches(f, rows[i])
                         /\ Position(f, i) \in f.page + 1 .. f.page + f.limit}

\* LIMIT f.limit OFFSET f.page - 1: where the rows of the page are.
PageOf(f) ==
    {i \in DOMAIN rows : /\ Matches(f, rows[i])
                         /\ Position(f, i) \in f.page .. f.page + f.limit - 1}

IsFull(f) == Cardinality(Found(f)) >= f.page + f.limit - 1

\* The answer when the page is not: the parameters do not parse, or the
\* statement is refused or the database fails.
Refusal(q, page) == IF Parses(q, page) THEN "500" ELSE "400"

-----------------------------------------------------------------------------

Walk == [query : Query, page : RawNumber, status : {"asking", "200", "400", "500"},
         seen : SUBSET Event, touched : SUBSET Event, recent : Nat, stormy : BOOLEAN]

ListTypeOK ==
    /\ rows \in Seq(Row)
    /\ \A i, j \in DOMAIN rows : rows[i].event = rows[j].event => i = j
    /\ writes \in 0 .. MaxWrites
    /\ walk \in Walk \cup {Nil}
    /\ walk # Nil => walk.recent <= writes

ListInit ==
    /\ \E S \in SUBSET Event : \E order \in SetToSeqs(S) :
           /\ rows \in [DOMAIN order -> Row]
           /\ \A i \in DOMAIN order : rows[i].event = order[i]
    /\ writes = 0
    /\ walk = Nil

\* Mutant: an INSERT without ON CONFLICT.
Insert(e, s, v) ==
    /\ writes < MaxWrites
    /\ writes' = writes + 1
    /\ \E i \in 1 .. Len(rows) + 1 :
           rows' = InsertAt(rows, i, [event |-> e, state |-> s, service |-> v])
    /\ walk' = IF walk = Nil THEN Nil
               ELSE [walk EXCEPT !.touched = @ \cup {e}, !.recent = @ + 1]

\* The row of an event is found under its unique name.
Others(e) ==
    IF \E i \in DOMAIN rows : rows[i].event = e
    THEN RemoveAt(rows, CHOOSE i \in DOMAIN rows : rows[i].event = e)
    ELSE rows

\* An event is registered, changed or removed by somebody else.
Write(e, s, v) ==
    /\ writes < MaxWrites
    /\ writes' = writes + 1
    /\ \E i \in 1 .. Len(Others(e)) + 1 :
           rows' = InsertAt(Others(e), i, [event |-> e, state |-> s, service |-> v])
    /\ walk' = IF walk = Nil THEN Nil
               ELSE [walk EXCEPT !.touched = @ \cup {e}, !.recent = @ + 1]

\* The client asks for its first page.
Begin(q, page) ==
    /\ walk = Nil
    /\ walk' = [query |-> q, page |-> page, status |-> "asking", seen |-> {},
                touched |-> {}, recent |-> 0, stormy |-> FALSE]
    /\ UNCHANGED <<rows, writes>>

\* GetEvents.  The client goes on until a page is not full.  (History: stormy,
\* whether as many events as a page holds were written between two requests.)
GetEvents ==
    /\ walk # Nil
    /\ walk.status = "asking"
    /\ \/ walk' = [walk EXCEPT !.status = Refusal(walk.query, walk.page)]
       \/ LET f == Filter(walk.query, walk.page) IN
          /\ Parses(walk.query, walk.page)
          /\ ValidSQL(f)
          /\ walk' = [walk EXCEPT
                 !.seen = @ \cup {rows[i].event : i \in PageOf(f)},
                 !.status = IF IsFull(f) THEN "asking" ELSE "200",
                 !.page = IF IsFull(f) THEN f.page + 1 ELSE @,
                 !.stormy = @ \/ (f.page > 1 /\ walk.recent >= f.limit),
                 !.recent = 0]
    /\ UNCHANGED <<rows, writes>>

End ==
    /\ walk # Nil
    /\ walk.status # "asking"
    /\ walk' = Nil
    /\ UNCHANGED <<rows, writes>>

ListNext ==
    \/ \E e \in Event, s \in State, v \in Service : Write(e, s, v)
    \/ \E q \in Query, page \in {Blank, Bad, 0} : Begin(q, page)
    \/ GetEvents
    \/ End

ListSpec == ListInit /\ [][ListNext]_listVars

-----------------------------------------------------------------------------
(* Properties *)

\* A client that walked through all pages, none of them refused, has seen every
\* matching event nobody wrote meanwhile, unless as many events as a page holds
\* were written between two of its requests: consecutive pages overlap in all
\* but one row, so fewer writes cannot move a row past it (GetInternalEvents,
\* with its offset of page - 1 rows).
WalkMissesNothing ==
    walk # Nil /\ walk.status = "200" /\ ~walk.stormy =>
        \A i \in DOMAIN rows :
            Matches(Filter(walk.query, walk.page), rows[i])
            /\ rows[i].event \notin walk.touched => rows[i].event \in walk.seen
=============================================================================
