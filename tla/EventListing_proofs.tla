------------------------ MODULE EventListing_proofs ------------------------
(***************************************************************************)
(* Proofs about EventListing, for any events, queries, default limit and   *)
(* number of writes.                                                       *)
(***************************************************************************)
EXTENDS EventListing, FiniteSetTheorems, TLAPS

-----------------------------------------------------------------------------
(* Sequences *)

LEMMA Concatenated ==
    ASSUME NEW S, NEW a \in Seq(S), NEW b \in Seq(S)
    PROVE  /\ a \o b \in Seq(S) /\ Len(a \o b) = Len(a) + Len(b)
           /\ \A i \in 1 .. Len(a) : (a \o b)[i] = a[i]
           /\ \A i \in Len(a) + 1 .. Len(a) + Len(b) : (a \o b)[i] = b[i - Len(a)]
  OBVIOUS

LEMMA Sliced ==
    ASSUME NEW S, NEW s \in Seq(S), NEW m \in 1 .. Len(s) + 1, NEW n \in 0 .. Len(s), m <= n + 1
    PROVE  /\ SubSeq(s, m, n) \in Seq(S)
           /\ Len(SubSeq(s, m, n)) = n - m + 1
           /\ \A i \in 1 .. n - m + 1 : SubSeq(s, m, n)[i] = s[m + i - 1]
  OBVIOUS

\* What is behind the removed element moves up by one.
LEMMA Removed ==
    ASSUME NEW S, NEW s \in Seq(S), NEW p \in 1 .. Len(s)
    PROVE  /\ RemoveAt(s, p) \in Seq(S) /\ Len(RemoveAt(s, p)) = Len(s) - 1
           /\ \A i \in 1 .. p - 1 : RemoveAt(s, p)[i] = s[i]
           /\ \A i \in p .. Len(s) - 1 : RemoveAt(s, p)[i] = s[i + 1]
  <1> DEFINE n == Len(s)
             a == SubSeq(s, 1, p - 1)
             b == SubSeq(s, p + 1, n)
             rest == a \o b
  <1>1. n \in Nat /\ p \in 1 .. n
    OBVIOUS
  <1>2. /\ a \in Seq(S) /\ Len(a) = p - 1
        /\ \A i \in 1 .. p - 1 : a[i] = s[i]
    <2>1. 1 \in 1 .. n + 1 /\ p - 1 \in 0 .. n /\ 1 <= (p - 1) + 1 /\ (p - 1) - 1 + 1 = p - 1
      BY <1>1
    <2>2. \A i \in 1 .. p - 1 : 1 + i - 1 = i
      BY <1>1
    <2> QED
      BY <2>1, <2>2, Sliced
  <1>3. /\ b \in Seq(S) /\ Len(b) = n - p
        /\ \A i \in 1 .. n - p : b[i] = s[p + i]
    <2>1. p + 1 \in 1 .. n + 1 /\ n \in 0 .. n /\ p + 1 <= n + 1 /\ n - (p + 1) + 1 = n - p
      BY <1>1
    <2>2. \A i \in 1 .. n - p : (p + 1) + i - 1 = p + i
      BY <1>1
    <2>3. /\ b \in Seq(S) /\ Len(b) = n - (p + 1) + 1
          /\ \A i \in 1 .. n - (p + 1) + 1 : b[i] = s[(p + 1) + i - 1]
      BY <2>1, Sliced
    <2> HIDE DEF b, n
    <2> QED
      BY <2>1, <2>2, <2>3
  <1>4. RemoveAt(s, p) = rest
    BY DEF RemoveAt
  <1> HIDE DEF n, a, b, rest
  <1>5. /\ rest \in Seq(S) /\ Len(rest) = n - 1
        /\ \A i \in 1 .. p - 1 : rest[i] = a[i]
        /\ \A i \in p .. n - 1 : rest[i] = b[i - (p - 1)]
    <2>1. /\ rest \in Seq(S) /\ Len(rest) = Len(a) + Len(b)
          /\ \A i \in 1 .. Len(a) : rest[i] = a[i]
          /\ \A i \in Len(a) + 1 .. Len(a) + Len(b) : rest[i] = b[i - Len(a)]
      BY <1>2, <1>3, Concatenated DEF rest
    <2> QED
      BY <1>1, <1>2, <1>3, <2>1
  <1>6. \A i \in p .. n - 1 : i - (p - 1) \in 1 .. n - p /\ p + (i - (p - 1)) = i + 1
    BY <1>1
  <1> QED
    BY <1>2, <1>3, <1>4, <1>5, <1>6 DEF n

\* What is behind the inserted element moves down by one.
LEMMA Inserted ==
    ASSUME NEW s \in Seq(Row), NEW q \in 1 .. Len(s) + 1, NEW e \in Row
    PROVE  /\ InsertAt(s, q, e) \in Seq(Row) /\ Len(InsertAt(s, q, e)) = Len(s) + 1
           /\ \A i \in 1 .. q - 1 : InsertAt(s, q, e)[i] = s[i]
           /\ InsertAt(s, q, e)[q] = e
           /\ \A i \in q + 1 .. Len(s) + 1 : InsertAt(s, q, e)[i] = s[i - 1]
  <1> DEFINE n == Len(s)
             a == SubSeq(s, 1, q - 1)
             b == SubSeq(s, q, n)
             c == a \o <<e>>
             all == c \o b
  <1>1. n \in Nat /\ q \in 1 .. n + 1
    OBVIOUS
  <1>2. /\ a \in Seq(Row) /\ Len(a) = q - 1
        /\ \A i \in 1 .. q - 1 : a[i] = s[i]
    <2>1. 1 \in 1 .. n + 1 /\ q - 1 \in 0 .. n /\ 1 <= (q - 1) + 1 /\ (q - 1) - 1 + 1 = q - 1
      BY <1>1
    <2>2. \A i \in 1 .. q - 1 : 1 + i - 1 = i
      BY <1>1
    <2> QED
      BY <2>1, <2>2, Sliced
  <1>3. /\ b \in Seq(Row) /\ Len(b) = n - q + 1
        /\ \A i \in 1 .. n - q + 1 : b[i] = s[q + i - 1]
    <2>1. q \in 1 .. n + 1 /\ n \in 0 .. n /\ q <= n + 1
      BY <1>1
    <2> QED
      BY <2>1, Sliced
  <1>4. InsertAt(s, q, e) = all
    BY DEF InsertAt
  <1>5. <<e>> \in Seq(Row) /\ Len(<<e>>) = 1 /\ <<e>>[1] = e
    OBVIOUS
  <1> HIDE DEF n, a, b, c, all
  <1>6. /\ c \in Seq(Row) /\ Len(c) = q
        /\ \A i \in 1 .. q - 1 : c[i] = a[i]
        /\ c[q] = e
    <2>1. /\ c \in Seq(Row) /\ Len(c) = Len(a) + Len(<<e>>)
          /\ \A i \in 1 .. Len(a) : c[i] = a[i]
          /\ \A i \in Len(a) + 1 .. Len(a) + Len(<<e>>) : c[i] = <<e>>[i - Len(a)]
      BY <1>2, <1>5, Concatenated DEF c
    <2>2. q \in Len(a) + 1 .. Len(a) + Len(<<e>>) /\ q - Len(a) = 1
      BY <1>1, <1>2, <1>5
    <2>3. c[q] = <<e>>[1]
      BY <2>1, <2>2
    <2> QED
      BY <1>1, <1>2, <1>5, <2>1, <2>3
  <1>7. /\ all \in Seq(Row) /\ Len(all) = n + 1
        /\ \A i \in 1 .. q : all[i] = c[i]
        /\ \A i \in q + 1 .. n + 1 : all[i] = b[i - q]
    <2>1. /\ all \in Seq(Row) /\ Len(all) = Len(c) + Len(b)
          /\ \A i \in 1 .. Len(c) : all[i] = c[i]
          /\ \A i \in Len(c) + 1 .. Len(c) + Len(b) : all[i] = b[i - Len(c)]
      BY <1>3, <1>6, Concatenated DEF all
    <2> QED
      BY <1>1, <1>3, <1>6, <2>1
  <1>8. \A i \in q + 1 .. n + 1 : i - q \in 1 .. n - q + 1 /\ q + (i - q) - 1 = i - 1
    BY <1>1
  <1>9. \A i \in 1 .. q - 1 : i \in 1 .. q
    BY <1>1
  <1>10. q \in 1 .. q
    BY <1>1
  <1> QED
    BY <1>2, <1>3, <1>4, <1>6, <1>7, <1>8, <1>9, <1>10 DEF n

LEMMA FiniteSequence ==
    ASSUME NEW S, NEW s \in Seq(S)
    PROVE  IsFiniteSet(ToSet(s))
  <1> DEFINE T == ToSet(s)
             D == 1 .. Len(s)
  <1>1. DOMAIN s = D /\ Len(s) \in Nat
    OBVIOUS
  <1>2. IsFiniteSet(D)
    BY <1>1, FS_Interval
  <1>3. s = [i \in D |-> s[i]] /\ \A i \in D : s[i] \in T
    BY <1>1 DEF ToSet
  <1>4. \A t \in T : \E i \in D : s[i] = t
    BY <1>1 DEF ToSet
  <1>5. s \in Surjection(D, T)
    <2> HIDE DEF T, D
    <2>1. s \in [D -> T]
      BY <1>3
    <2> QED
      BY <2>1, <1>4 DEF Surjection
  <1> HIDE DEF T, D
  <1>6. IsFiniteSet(T)
    BY <1>2, <1>5, FS_Surjection
  <1> QED
    BY <1>6 DEF T

-----------------------------------------------------------------------------
(* The filter *)

LEMMA FilterFields ==
    ASSUME NEW q, NEW page
    PROVE  LET f == Filter(q, page) IN
           /\ f.state = IF ParseList(q.state) = Nil THEN {Active} ELSE ParseList(q.state)
           /\ f.team = ParseList(q.team)
           /\ f.service = ParseList(q.service)
           /\ f.page = IF ParseUint(page) = 0 THEN 1 ELSE ParseUint(page)
           /\ f.limit = IF ParseUint(q.limit) = 0 THEN DefaultLimit ELSE ParseUint(q.limit)
  BY DEF Filter, ApplyDefaults, ParseQueryParams

\* Which rows match does not depend on the page, and neither does its size.
LEMMA FilterOfAnyPage ==
    ASSUME NEW q, NEW a, NEW b
    PROVE  /\ \A row : Matches(Filter(q, a), row) <=> Matches(Filter(q, b), row)
           /\ Filter(q, a).limit = Filter(q, b).limit
  BY FilterFields DEF Matches

LEMMA FilterType ==
    ASSUME NEW q \in Query, NEW page \in RawNumber, q.limit # Bad, page # Bad
    PROVE  /\ Filter(q, page).page \in Nat \ {0}
           /\ Filter(q, page).limit \in Nat \ {0}
           /\ page \in Nat /\ page > 1 => Filter(q, page).page = page
           /\ ~(page \in Nat /\ page > 1) => Filter(q, page).page = 1
  <1>1. q.limit \in Nat \cup {Blank, Bad} /\ page \in Nat \cup {Blank, Bad}
    BY QueryAssumption DEF RawFilter, RawNumber
  <1>2. q.limit \in Nat \cup {Blank} /\ page \in Nat \cup {Blank}
    BY <1>1
  <1>3. DefaultLimit \in Nat \ {0} /\ Blank \notin Nat
    BY QueryAssumption
  <1>4. ParseUint(q.limit) \in Nat /\ ParseUint(page) = IF page = Blank THEN 0 ELSE page
    BY <1>2 DEF ParseUint
  <1>5. Filter(q, page).limit \in Nat \ {0}
    BY <1>3, <1>4, FilterFields
  <1>6. Filter(q, page).page = IF page = Blank \/ page = 0 THEN 1 ELSE page
    BY <1>3, <1>4, FilterFields
  <1> QED
    BY <1>2, <1>3, <1>5, <1>6

\* What parses is no malformed number.
LEMMA ParsedFacts ==
    ASSUME NEW q, NEW page, Parses(q, page)
    PROVE  q.limit # Bad /\ page # Bad
  <1>1. MaxBigint \in Nat /\ Bad # Blank /\ Bad \notin Nat
    BY QueryAssumption
  <1>2. \A raw : IsUint(raw) => raw # Bad
    BY <1>1 DEF IsUint, MaxUint
  <1> QED
    BY <1>2 DEF Parses

\* A request ends the walk with an error or gets its page.
LEMMA GetEventsCases ==
    ASSUME GetEvents
    PROVE  LET f == Filter(walk.query, walk.page) IN
           /\ walk # Nil /\ walk.status = "asking" /\ UNCHANGED <<rows, writes>>
           /\ \/ \E status \in {"400", "500"} : walk' = [walk EXCEPT !.status = status]
              \/ /\ walk.query.limit # Bad /\ walk.page # Bad
                 /\ walk' = [walk EXCEPT
                        !.seen = @ \cup {rows[i].event : i \in PageOf(f)},
                        !.status = IF IsFull(f) THEN "asking" ELSE "200",
                        !.page = IF IsFull(f) THEN f.page + 1 ELSE @,
                        !.stormy = @ \/ (f.page > 1 /\ walk.recent >= f.limit),
                        !.recent = 0]
  <1> DEFINE f == Filter(walk.query, walk.page)
  <1>1. CASE walk' = [walk EXCEPT !.status = Refusal(walk.query, walk.page)]
    <2>1. Refusal(walk.query, walk.page) \in {"400", "500"}
      BY DEF Refusal
    <2> QED
      BY <1>1, <2>1 DEF GetEvents
  <1>2. CASE ~(walk' = [walk EXCEPT !.status = Refusal(walk.query, walk.page)])
    <2>1. Parses(walk.query, walk.page)
      BY <1>2 DEF GetEvents
    <2> QED
      BY <1>2, <2>1, ParsedFacts DEF GetEvents
  <1> QED
    BY <1>1, <1>2

-----------------------------------------------------------------------------
(* The order of the rows *)

\* Neither the order nor the uniqueness of the others is disturbed.
LEMMA OthersFacts ==
    ASSUME ListTypeOK, NEW e \in Event
    PROVE  LET o == Others(e) IN
           /\ o \in Seq(Row)
           /\ \A i \in DOMAIN o : o[i].event # e
           /\ \A i, j \in DOMAIN o : o[i].event = o[j].event => i = j
           /\ \A i \in DOMAIN o : \E x \in DOMAIN rows :
                  /\ rows[x] = o[i]
                  /\ \A y \in 1 .. x : rows[y].event # e => \E j \in 1 .. i : o[j] = rows[y]
  <1> DEFINE o == Others(e)
             n == Len(rows)
  <1>1. /\ rows \in Seq(Row) /\ n \in Nat /\ DOMAIN rows = 1 .. n
        /\ \A i, j \in 1 .. n : rows[i].event = rows[j].event => i = j
    BY DEF ListTypeOK
  <1>2. CASE ~\E i \in DOMAIN rows : rows[i].event = e
    <2>1. o = rows
      BY <1>2 DEF Others
    <2> HIDE DEF o, n
    <2>2. \A i \in DOMAIN rows : rows[i].event # e
      BY <1>2
    <2> QED
      BY <1>1, <2>1, <2>2 DEF o
  <1>3. CASE \E i \in DOMAIN rows : rows[i].event = e
    <2> DEFINE p == CHOOSE i \in DOMAIN rows : rows[i].event = e
    <2>1. p \in 1 .. n /\ rows[p].event = e
      BY <1>1, <1>3
    <2>2. o = RemoveAt(rows, p)
      BY <1>3 DEF Others
    <2> HIDE DEF p
    <2> HIDE DEF o
    <2>3. /\ o \in Seq(Row) /\ Len(o) = n - 1
          /\ \A i \in 1 .. p - 1 : o[i] = rows[i]
          /\ \A i \in p .. n - 1 : o[i] = rows[i + 1]
      BY <1>1, <2>1, <2>2, Removed
    <2> DEFINE From(i) == IF i < p THEN i ELSE i + 1
    <2> HIDE DEF n
    <2>4. DOMAIN o = 1 .. n - 1
      BY <2>3
    <2>5. \A i \in 1 .. n - 1 : From(i) \in 1 .. n /\ From(i) # p /\ o[i] = rows[From(i)]
      BY <1>1, <2>1, <2>3
    <2>6. \A i \in 1 .. n - 1 : o[i].event # e
      BY <1>1, <2>1, <2>5
    <2>7. \A i, j \in 1 .. n - 1 : o[i].event = o[j].event => i = j
      <3> TAKE i, j \in 1 .. n - 1
      <3>1. o[i].event = o[j].event => From(i) = From(j)
        BY <1>1, <2>5
      <3> QED
        BY <1>1, <2>1, <3>1
    <2>8. ASSUME NEW i \in 1 .. n - 1, NEW y \in 1 .. From(i), rows[y].event # e
          PROVE  \E j \in 1 .. i : o[j] = rows[y]
      <3>1. y # p
        BY <2>1, <2>8
      <3>2. CASE y < p
        <4>1. y \in 1 .. i /\ y \in 1 .. p - 1
          BY <1>1, <2>1, <3>2
        <4> QED
          BY <2>3, <4>1
      <3>3. CASE y > p
        <4>1. y - 1 \in 1 .. i /\ y - 1 \in p .. n - 1 /\ (y - 1) + 1 = y
          BY <1>1, <2>1, <3>3
        <4> QED
          BY <2>3, <4>1
      <3> QED
        BY <1>1, <2>1, <3>1, <3>2, <3>3
    <2> HIDE DEF From
    <2> QED
      BY <1>1, <2>3, <2>4, <2>5, <2>6, <2>7, <2>8 DEF o
  <1> QED
    BY <1>2, <1>3

\* A write moves one row and leaves the others in their order.
LEMMA RowsWritten ==
    ASSUME ListTypeOK, NEW e \in Event, NEW s \in State, NEW v \in Service, Write(e, s, v)
    PROVE  /\ rows' \in Seq(Row)
           /\ \A i, j \in DOMAIN rows' : rows'[i].event = rows'[j].event => i = j
           /\ \A i \in DOMAIN rows' : rows'[i].event # e => \E x \in DOMAIN rows :
                  /\ rows[x] = rows'[i]
                  /\ \A y \in 1 .. x : rows[y].event # e => \E j \in 1 .. i : rows'[j] = rows[y]
  <1> DEFINE o == Others(e)
             n == Len(o)
             new == [event |-> e, state |-> s, service |-> v]
  <1>1. /\ o \in Seq(Row)
        /\ \A i \in DOMAIN o : o[i].event # e
        /\ \A i, j \in DOMAIN o : o[i].event = o[j].event => i = j
        /\ \A i \in DOMAIN o : \E x \in DOMAIN rows :
               /\ rows[x] = o[i]
               /\ \A y \in 1 .. x : rows[y].event # e => \E j \in 1 .. i : o[j] = rows[y]
    BY OthersFacts
  <1>2. PICK q \in 1 .. n + 1 : rows' = InsertAt(o, q, new)
    BY DEF Write
  <1>3. new \in Row /\ new.event = e
    BY DEF Row
  <1> HIDE DEF o, n, new
  <1>4. n \in Nat /\ DOMAIN o = 1 .. n
    BY <1>1 DEF n
  <1>5. /\ rows' \in Seq(Row) /\ Len(rows') = n + 1
        /\ \A i \in 1 .. q - 1 : rows'[i] = o[i]
        /\ rows'[q] = new
        /\ \A i \in q + 1 .. n + 1 : rows'[i] = o[i - 1]
    <2>1. q \in 1 .. Len(o) + 1
      BY <1>2 DEF n
    <2>2. o \in Seq(Row) /\ new \in Row
      BY <1>1, <1>3
    <2>3. /\ InsertAt(o, q, new) \in Seq(Row) /\ Len(InsertAt(o, q, new)) = Len(o) + 1
          /\ \A i \in 1 .. q - 1 : InsertAt(o, q, new)[i] = o[i]
          /\ InsertAt(o, q, new)[q] = new
          /\ \A i \in q + 1 .. Len(o) + 1 : InsertAt(o, q, new)[i] = o[i - 1]
      BY ONLY <2>1, <2>2, Inserted
    <2> QED
      BY <1>2, <2>3 DEF n
  <1>6. DOMAIN rows' = 1 .. n + 1
    BY <1>5
  <1> DEFINE From(i) == IF i < q THEN i ELSE i - 1
  <1>7. \A i \in 1 .. n + 1 : i # q => From(i) \in 1 .. n /\ rows'[i] = o[From(i)]
    BY <1>2, <1>4, <1>5
  <1>8. \A i \in 1 .. n + 1 : rows'[i].event = e <=> i = q
    <2> TAKE i \in 1 .. n + 1
    <2>1. i = q => rows'[i].event = e
      BY <1>3, <1>5
    <2>2. i # q => rows'[i].event # e
      BY <1>1, <1>4, <1>7
    <2> QED
      BY <2>1, <2>2
  <1>9. ASSUME NEW i \in 1 .. n + 1, NEW j \in 1 .. n + 1, rows'[i].event = rows'[j].event
        PROVE  i = j
    <2>1. CASE i = q \/ j = q
      BY <1>3, <1>5, <1>8, <1>9, <2>1
    <2>2. CASE i # q /\ j # q
      <3>1. From(i) = From(j)
        <4>1. /\ From(i) \in DOMAIN o /\ From(j) \in DOMAIN o
              /\ o[From(i)].event = o[From(j)].event
          BY <1>4, <1>7, <1>9, <2>2
        <4> HIDE DEF From
        <4> QED
          BY <1>1, <4>1
      <3> QED
        BY <1>2, <1>4, <2>2, <3>1
    <2> QED
      BY <2>1, <2>2
  <1>10. ASSUME NEW i \in 1 .. n + 1, rows'[i].event # e
         PROVE  \E x \in DOMAIN rows :
                    /\ rows[x] = rows'[i]
                    /\ \A y \in 1 .. x : rows[y].event # e => \E j \in 1 .. i : rows'[j] = rows[y]
    <2>1. i # q /\ From(i) \in 1 .. n /\ rows'[i] = o[From(i)]
      BY <1>7, <1>8, <1>10
    <2>2. PICK x \in DOMAIN rows :
              /\ rows[x] = o[From(i)]
              /\ \A y \in 1 .. x : rows[y].event # e => \E k \in 1 .. From(i) : o[k] = rows[y]
      BY <1>1, <1>4, <2>1
    <2>3. ASSUME NEW k \in 1 .. From(i)
          PROVE  \E j \in 1 .. i : rows'[j] = o[k]
      <3>1. CASE k < q
        <4>1. k \in 1 .. i /\ k \in 1 .. q - 1
          BY <1>2, <1>4, <2>1, <3>1
        <4> QED
          BY <1>5, <4>1
      <3>2. CASE k >= q
        <4>1. k + 1 \in 1 .. i /\ k + 1 \in q + 1 .. n + 1 /\ (k + 1) - 1 = k
          BY <1>2, <1>4, <2>1, <3>2
        <4> QED
          BY <1>5, <4>1
      <3> QED
        BY <1>2, <1>4, <2>1, <3>1, <3>2
    <2> HIDE DEF From
    <2> QED
      BY <2>1, <2>2, <2>3
  <1> QED
    BY <1>5, <1>6, <1>9, <1>10

-----------------------------------------------------------------------------
(* Positions *)

LEMMA PositionBounds ==
    ASSUME rows \in Seq(Row), NEW f, NEW i \in DOMAIN rows, Matches(f, rows[i])
    PROVE  /\ IsFiniteSet(FoundUpTo(f, i))
           /\ Position(f, i) \in Nat \ {0}
           /\ Cardinality(Found(f)) \in Nat
           /\ Position(f, i) <= Cardinality(Found(f))
  <1> DEFINE U == FoundUpTo(f, i)
             T == Found(f)
  <1>1. DOMAIN rows = 1 .. Len(rows) /\ Len(rows) \in Nat
    OBVIOUS
  <1>2. U \subseteq T
    BY <1>1 DEF FoundUpTo, Found, ToSet
  <1>3. T \subseteq ToSet(rows)
    BY DEF Found
  <1>4. rows[i] \in U
    BY <1>1 DEF FoundUpTo
  <1> HIDE DEF U, T
  <1>5. IsFiniteSet(T) /\ Cardinality(T) \in Nat
    BY <1>3, FiniteSequence, FS_Subset, FS_CardinalityType
  <1>6. IsFiniteSet(U) /\ Cardinality(U) <= Cardinality(T) /\ Cardinality(U) \in Nat
    BY <1>2, <1>5, FS_Subset, FS_CardinalityType
  <1>7. Cardinality(U) # 0
    BY <1>4, <1>6, FS_EmptySet
  <1> QED
    BY <1>5, <1>6, <1>7 DEF Position, U, T

\* What another writes brings a row forward by one place at most.
LEMMA PositionFalls ==
    ASSUME ListTypeOK, NEW e \in Event, NEW s \in State, NEW v \in Service, Write(e, s, v),
           NEW f, NEW i \in DOMAIN rows', rows'[i].event # e, Matches(f, rows'[i])
    PROVE  \E x \in DOMAIN rows :
               /\ rows[x] = rows'[i]
               /\ Cardinality({rows'[j] : j \in {j \in 1 .. i : Matches(f, rows'[j])}}) \in Nat
               /\ Cardinality({rows'[j] : j \in {j \in 1 .. i : Matches(f, rows'[j])}}) + 1
                      >= Position(f, x)
  <1>1. /\ rows \in Seq(Row) /\ DOMAIN rows = 1 .. Len(rows) /\ Len(rows) \in Nat
        /\ \A a, b \in DOMAIN rows : rows[a].event = rows[b].event => a = b
    BY DEF ListTypeOK
  <1>2. PICK x \in DOMAIN rows :
            /\ rows[x] = rows'[i]
            /\ \A y \in 1 .. x : rows[y].event # e => \E j \in 1 .. i : rows'[j] = rows[y]
    BY RowsWritten
  <1>3. rows' \in Seq(Row)
    BY RowsWritten
  <1> DEFINE N == {rows'[j] : j \in {j \in 1 .. i : Matches(f, rows'[j])}}
             O == FoundUpTo(f, x)
             M == {row \in O : row.event # e}
  <1>4. M \subseteq N
    <2> SUFFICES ASSUME NEW row \in O, row.event # e
                 PROVE  row \in N
      OBVIOUS
    <2>1. PICK y \in 1 .. x : rows[y] = row /\ Matches(f, row)
      BY DEF FoundUpTo
    <2>2. PICK j \in 1 .. i : rows'[j] = row
      BY <1>2, <2>1
    <2> QED
      BY <2>1, <2>2
  <1>5. IsFiniteSet(N)
    <2>1. DOMAIN rows' = 1 .. Len(rows') /\ Len(rows') \in Nat
      BY <1>3
    <2>2. N \subseteq ToSet(rows')
      BY <2>1 DEF ToSet
    <2>3. IsFiniteSet(ToSet(rows'))
      BY <1>3, FiniteSequence
    <2> HIDE DEF N
    <2> QED
      BY <2>2, <2>3, FS_Subset
  <1>6. IsFiniteSet(O) /\ Cardinality(O) \in Nat
    BY <1>1, <1>2, PositionBounds, FS_CardinalityType
  <1>7. \A a, b \in O : a.event = e /\ b.event = e => a = b
    BY <1>1, <1>2 DEF FoundUpTo
  <1>8. M = O \/ \E a \in O : M = O \ {a}
    BY <1>7
  <1> HIDE DEF N, O
  <1>9. IsFiniteSet(M) /\ Cardinality(M) \in Nat /\ Cardinality(O) <= Cardinality(M) + 1
    <2>1. CASE M = O
      BY <1>6, <2>1
    <2>2. ASSUME NEW a \in O, M = O \ {a}
          PROVE  IsFiniteSet(M) /\ Cardinality(M) \in Nat /\ Cardinality(O) <= Cardinality(M) + 1
      <3>1. IsFiniteSet(M) /\ Cardinality(M) = Cardinality(O) - 1
        BY <1>6, <2>2, FS_RemoveElement
      <3> HIDE DEF M
      <3>2. Cardinality(M) \in Nat
        BY <3>1, FS_CardinalityType
      <3> QED
        BY <1>6, <3>1, <3>2
    <2> QED
      BY <1>8, <2>1, <2>2
  <1> HIDE DEF M
  <1>10. Cardinality(M) <= Cardinality(N) /\ Cardinality(N) \in Nat
    BY <1>4, <1>5, FS_Subset, FS_CardinalityType
  <1>11. Cardinality(N) + 1 >= Cardinality(O)
    BY <1>6, <1>9, <1>10
  <1> QED
    BY <1>2, <1>10, <1>11 DEF N, O, Position

-----------------------------------------------------------------------------
(* Types *)

LEMMA TypeInit ==
    ASSUME ListInit
    PROVE  ListTypeOK
  <1>1. PICK S \in SUBSET Event : \E order \in SetToSeqs(S) :
            /\ rows \in [DOMAIN order -> Row]
            /\ \A i \in DOMAIN order : rows[i].event = order[i]
    BY DEF ListInit
  <1>2. PICK order \in SetToSeqs(S) :
            /\ rows \in [DOMAIN order -> Row]
            /\ \A i \in DOMAIN order : rows[i].event = order[i]
    BY <1>1
  <1>3. /\ DOMAIN order = 1 .. Cardinality(S)
        /\ \A i, j \in DOMAIN order : i # j => order[i] # order[j]
    BY DEF SetToSeqs
  <1>4. Cardinality(S) \in Nat
    BY QueryAssumption, FS_Subset, FS_CardinalityType
  <1>5. rows \in Seq(Row) /\ DOMAIN rows = DOMAIN order
    BY <1>2, <1>3, <1>4
  <1>6. \A i, j \in DOMAIN rows : rows[i].event = rows[j].event => i = j
    BY <1>2, <1>3, <1>5
  <1>7. writes \in 0 .. MaxWrites /\ walk = Nil
    BY QueryAssumption DEF ListInit
  <1> QED
    BY <1>5, <1>6, <1>7 DEF ListTypeOK

LEMMA TypeStep ==
    ASSUME ListTypeOK, [ListNext]_listVars
    PROVE  ListTypeOK'
  <1>1. /\ writes \in 0 .. MaxWrites /\ MaxWrites \in Nat
        /\ walk # Nil => walk \in Walk /\ walk.recent \in Nat /\ walk.recent <= writes
    BY QueryAssumption DEF ListTypeOK, Walk
  <1>2. ASSUME NEW e \in Event, NEW s \in State, NEW v \in Service, Write(e, s, v)
        PROVE  ListTypeOK'
    <2>1. /\ rows' \in Seq(Row)
          /\ \A i, j \in DOMAIN rows' : rows'[i].event = rows'[j].event => i = j
      BY <1>2, RowsWritten
    <2>2. /\ writes' = writes + 1 /\ writes' \in 0 .. MaxWrites
          /\ walk' = IF walk = Nil THEN Nil
                     ELSE [walk EXCEPT !.touched = @ \cup {e}, !.recent = @ + 1]
      BY <1>1, <1>2 DEF Write
    <2>3. CASE walk = Nil
      BY <2>1, <2>2, <2>3 DEF ListTypeOK
    <2>4. CASE walk # Nil
      <3>1. walk' \in Walk /\ walk'.recent = walk.recent + 1
        <4>1. walk \in Walk /\ walk.recent + 1 \in Nat /\ walk.touched \cup {e} \in SUBSET Event
          BY <1>1, <2>4 DEF Walk
        <4>2. walk' = [walk EXCEPT !.touched = walk.touched \cup {e}, !.recent = walk.recent + 1]
          BY <2>2, <2>4
        <4> QED
          BY <4>1, <4>2 DEF Walk
      <3> QED
        BY <1>1, <2>1, <2>2, <2>4, <3>1 DEF ListTypeOK
    <2> QED
      BY <2>3, <2>4
  <1>3. ASSUME NEW q \in Query, NEW page \in {Blank, Bad, 0}, Begin(q, page)
        PROVE  ListTypeOK'
    <2>1. walk' = [query |-> q, page |-> page, status |-> "asking", seen |-> {},
                   touched |-> {}, recent |-> 0, stormy |-> FALSE]
      BY <1>3 DEF Begin
    <2>2. walk' \in Walk /\ walk'.recent = 0
      BY <2>1 DEF Walk, RawNumber
    <2> QED
      BY <1>1, <1>3, <2>2 DEF ListTypeOK, Begin
  <1>4. CASE GetEvents
    <2> DEFINE q == walk.query
               f == Filter(q, walk.page)
    <2>1. walk # Nil /\ walk \in Walk /\ UNCHANGED <<rows, writes>>
      BY <1>1, <1>4 DEF GetEvents
    <2>2. q \in Query /\ walk.page \in RawNumber
      BY <2>1 DEF Walk
    <2>3. ASSUME NEW status \in {"400", "500"}, walk' = [walk EXCEPT !.status = status]
          PROVE  ListTypeOK'
      <3>2. walk' \in Walk /\ walk'.recent = walk.recent
        BY <2>1, <2>3 DEF Walk
      <3> QED
        BY <1>1, <2>1, <3>2 DEF ListTypeOK
    <2>4. ASSUME q.limit # Bad, walk.page # Bad,
                 walk' = [walk EXCEPT
                     !.seen = @ \cup {rows[i].event : i \in PageOf(f)},
                     !.status = IF IsFull(f) THEN "asking" ELSE "200",
                     !.page = IF IsFull(f) THEN f.page + 1 ELSE @,
                     !.stormy = @ \/ (f.page > 1 /\ walk.recent >= f.limit),
                     !.recent = 0]
          PROVE  ListTypeOK'
      <3>1. f.page \in Nat
        BY <2>2, <2>4, FilterType
      <3>2. {rows[i].event : i \in PageOf(f)} \subseteq Event
        <4>1. \A i \in DOMAIN rows : rows[i].event \in Event
          <5>1. rows \in Seq(Row)
            BY DEF ListTypeOK
          <5>2. \A i \in DOMAIN rows : rows[i] \in Row
            BY <5>1
          <5> QED
            BY <5>2 DEF Row
        <4> HIDE DEF f
        <4> QED
          BY <4>1 DEF PageOf
      <3>3. walk' = [walk EXCEPT
                        !.seen = @ \cup {rows[i].event : i \in PageOf(f)},
                        !.status = IF IsFull(f) THEN "asking" ELSE "200",
                        !.page = IF IsFull(f) THEN f.page + 1 ELSE @,
                        !.stormy = @ \/ (f.page > 1 /\ walk.recent >= f.limit),
                        !.recent = 0]
        BY <2>4
      <3> HIDE DEF f, q
      <3>4. f.page + 1 \in RawNumber
        BY <3>1 DEF RawNumber
      <3>5. walk' \in Walk /\ walk'.recent = 0
        BY <2>1, <3>2, <3>3, <3>4 DEF Walk
      <3> QED
        BY <1>1, <2>1, <3>5 DEF ListTypeOK
    <2> HIDE DEF f
    <2> QED
      BY <1>4, <2>3, <2>4, GetEventsCases DEF f, q
  <1>5. CASE End
    BY <1>5 DEF End, ListTypeOK
  <1>6. CASE UNCHANGED listVars
    BY <1>6 DEF listVars, ListTypeOK
  <1> QED
    BY <1>2, <1>3, <1>4, <1>5, <1>6 DEF ListNext

\* The table has one row per event, and the client is somewhere in its walk.
THEOREM TypeCorrect == ListSpec => []ListTypeOK
  <1>1. ListInit => ListTypeOK
    BY TypeInit
  <1>2. ListTypeOK /\ [ListNext]_listVars => ListTypeOK'
    BY TypeStep
  <1> QED
    BY <1>1, <1>2, PTL DEF ListSpec

-----------------------------------------------------------------------------
(* The walk *)

\* What the client has yet to see is no earlier in the table than the last row
\* of the page it asks for next, but for what was written since the page before;
\* that is one row later than where the page before ended.
WalkInv ==
    walk # Nil /\ ~walk.stormy =>
        LET f == Filter(walk.query, walk.page) IN
        \A i \in DOMAIN rows :
            /\ Matches(f, rows[i])
            /\ rows[i].event \notin walk.touched \cup walk.seen
            => /\ walk.status # "200"
               /\ walk.status = "asking" /\ walk.page \in Nat /\ walk.page > 1 =>
                      /\ walk.query.limit # Bad
                      /\ Position(f, i) + walk.recent >= walk.page + f.limit - 1

LEMMA WalkWrite ==
    ASSUME ListTypeOK, WalkInv,
           NEW e \in Event, NEW s \in State, NEW v \in Service, Write(e, s, v)
    PROVE  WalkInv'
  <1> SUFFICES ASSUME walk' # Nil, ~walk'.stormy,
                      NEW i \in DOMAIN rows',
                      Matches(Filter(walk'.query, walk'.page), rows'[i]),
                      rows'[i].event \notin walk'.touched \cup walk'.seen
               PROVE  /\ walk'.status # "200"
                      /\ walk'.status = "asking" /\ walk'.page \in Nat /\ walk'.page > 1 =>
                             /\ walk'.query.limit # Bad
                             /\ Cardinality({rows'[j] : j \in
                                    {j \in 1 .. i : Matches(Filter(walk'.query, walk'.page), rows'[j])}})
                                    + walk'.recent
                                    >= walk'.page + Filter(walk'.query, walk'.page).limit - 1
    BY DEF WalkInv, Position, FoundUpTo
  <1>1. walk # Nil /\ walk \in Walk
    BY DEF Write, ListTypeOK
  <1>2. walk' = [walk EXCEPT !.touched = @ \cup {e}, !.recent = @ + 1]
    BY <1>1 DEF Write
  <1>3. /\ walk'.query = walk.query /\ walk'.page = walk.page /\ walk'.status = walk.status
        /\ walk'.seen = walk.seen /\ walk'.stormy = walk.stormy
        /\ walk'.touched = walk.touched \cup {e} /\ walk'.recent = walk.recent + 1
        /\ walk.recent \in Nat /\ walk.query \in Query /\ walk.page \in RawNumber
    BY <1>1, <1>2 DEF Walk
  <1> DEFINE f == Filter(walk.query, walk.page)
             N == Cardinality({rows'[j] : j \in {j \in 1 .. i : Matches(f, rows'[j])}})
  <1>4. rows'[i].event # e /\ Matches(f, rows'[i])
    BY <1>3
  <1>5. PICK x \in DOMAIN rows : /\ rows[x] = rows'[i]
                                 /\ N \in Nat /\ N + 1 >= Position(f, x)
    BY <1>4, PositionFalls
  <1>6. rows \in Seq(Row) /\ Position(f, x) \in Nat
    BY <1>4, <1>5, PositionBounds DEF ListTypeOK
  <1> HIDE DEF N
  <1>7. /\ walk.status # "200"
        /\ walk.status = "asking" /\ walk.page \in Nat /\ walk.page > 1 =>
               /\ walk.query.limit # Bad
               /\ Position(f, x) + walk.recent >= walk.page + f.limit - 1
    BY <1>1, <1>3, <1>4, <1>5 DEF WalkInv
  <1>8. ASSUME walk.status = "asking", walk.page \in Nat, walk.page > 1
        PROVE  walk.query.limit # Bad /\ N + walk'.recent >= walk.page + f.limit - 1
    <2>1. walk.query.limit # Bad /\ walk.page # Bad
      BY <1>7, <1>8, QueryAssumption
    <2>2. f.limit \in Nat
      BY <1>3, <2>1, FilterType
    <2> HIDE DEF f
    <2> QED
      BY <1>3, <1>5, <1>6, <1>7, <1>8, <2>2
  <1> QED
    BY <1>3, <1>7, <1>8 DEF N

LEMMA WalkGetEvents ==
    ASSUME ListTypeOK, WalkInv, GetEvents
    PROVE  WalkInv'
  <1> DEFINE q == walk.query
             page == walk.page
             f == Filter(q, page)
  <1>1. /\ walk # Nil /\ walk \in Walk /\ walk.status = "asking"
        /\ rows' = rows /\ rows \in Seq(Row)
    BY DEF GetEvents, ListTypeOK
  <1>2. /\ q \in Query /\ page \in RawNumber /\ walk.recent \in Nat /\ walk.stormy \in BOOLEAN
    BY <1>1 DEF Walk
  <1>3. ASSUME NEW status \in {"400", "500"}, walk' = [walk EXCEPT !.status = status]
        PROVE  WalkInv'
    <2>2. walk'.status # "200" /\ walk'.status # "asking"
      BY <1>1, <1>3 DEF Walk
    <2> QED
      BY <2>2 DEF WalkInv
  <1>4. ASSUME q.limit # Bad, page # Bad,
               walk' = [walk EXCEPT
                   !.seen = @ \cup {rows[i].event : i \in PageOf(f)},
                   !.status = IF IsFull(f) THEN "asking" ELSE "200",
                   !.page = IF IsFull(f) THEN f.page + 1 ELSE @,
                   !.stormy = @ \/ (f.page > 1 /\ walk.recent >= f.limit),
                   !.recent = 0]
        PROVE  WalkInv'
    <2> DEFINE full == IsFull(f)
               next == IF full THEN f.page + 1 ELSE page
               seen == {rows[i].event : i \in PageOf(f)}
    <2>1. /\ f.page \in Nat \ {0} /\ f.limit \in Nat \ {0} /\ q.limit # Bad
          /\ page \in Nat /\ page > 1 => f.page = page
          /\ ~(page \in Nat /\ page > 1) => f.page = 1
      BY <1>2, <1>4, FilterType
    <2>2. walk' = [walk EXCEPT
                      !.seen = @ \cup seen,
                      !.status = IF full THEN "asking" ELSE "200",
                      !.page = next,
                      !.stormy = @ \/ (f.page > 1 /\ walk.recent >= f.limit),
                      !.recent = 0]
      BY <1>4
    <2> HIDE DEF full, next, seen
    <2>3. /\ walk'.query = q /\ walk'.page = next /\ walk'.touched = walk.touched
          /\ walk'.seen = walk.seen \cup seen /\ walk'.recent = 0
          /\ walk'.status = IF full THEN "asking" ELSE "200"
          /\ walk'.stormy <=> (walk.stormy \/ (f.page > 1 /\ walk.recent >= f.limit))
      BY <1>1, <2>2 DEF Walk
    <2> DEFINE g == Filter(q, next)
    <2>4. \A row : Matches(g, row) <=> Matches(f, row)
      BY FilterOfAnyPage
    <2>5. g.limit = f.limit
      BY FilterOfAnyPage
    <2> HIDE DEF f, g, q, page
    <2>6. ASSUME ~walk'.stormy, NEW i \in DOMAIN rows, Matches(g, rows[i]),
                 rows[i].event \notin walk'.touched \cup walk'.seen
          PROVE  full /\ Position(g, i) >= f.page + 1 + g.limit - 1
      <3>1. Matches(f, rows[i]) /\ Position(g, i) = Position(f, i)
        BY <2>4, <2>6 DEF Position, FoundUpTo
      <3>2. /\ Position(f, i) \in Nat \ {0} /\ Cardinality(Found(f)) \in Nat
            /\ Position(f, i) <= Cardinality(Found(f))
        BY <1>1, <3>1, PositionBounds
      <3>3. ~walk.stormy /\ ~(f.page > 1 /\ walk.recent >= f.limit)
        BY <2>3, <2>6
      <3>4. i \notin PageOf(f)
        BY <2>3, <2>6 DEF seen
      <3>5. Position(f, i) >= f.page
        <4>1. CASE page \in Nat /\ page > 1
          <5>1. Position(f, i) + walk.recent >= page + f.limit - 1
            BY <1>1, <2>3, <2>6, <3>1, <3>3, <4>1 DEF WalkInv, f, q, page
          <5>2. f.page = page /\ walk.recent < f.limit
            BY <1>2, <2>1, <3>3, <4>1
          <5> QED
            BY <1>2, <2>1, <3>2, <5>1, <5>2
        <4>2. CASE ~(page \in Nat /\ page > 1)
          BY <2>1, <3>2, <4>2
        <4> QED
          BY <4>1, <4>2
      <3>6. Position(f, i) > f.page + f.limit - 1
        BY <2>1, <3>1, <3>2, <3>4, <3>5 DEF PageOf
      <3>7. full
        BY <2>1, <3>2, <3>6 DEF full, IsFull
      <3>8. Position(f, i) >= f.page + 1 + f.limit - 1
        BY <2>1, <3>2, <3>6
      <3> QED
        BY <2>5, <3>1, <3>7, <3>8
    <2>7. full => next = f.page + 1
      BY DEF next
    <2>8. SUFFICES ASSUME ~walk'.stormy, NEW i \in DOMAIN rows, Matches(g, rows[i]),
                          rows[i].event \notin walk'.touched \cup walk'.seen
                   PROVE  /\ walk'.status # "200"
                          /\ q.limit # Bad
                          /\ Position(g, i) + 0 >= next + g.limit - 1
      BY <1>1, <2>3 DEF WalkInv, Position, FoundUpTo, g
    <2>9. full /\ Position(g, i) >= f.page + 1 + g.limit - 1
      BY <2>6, <2>8
    <2>10. Position(g, i) \in Nat
      BY <1>1, <2>8, PositionBounds
    <2> QED
      BY <2>1, <2>3, <2>7, <2>9, <2>10
  <1> HIDE DEF f
  <1> QED
    BY <1>3, <1>4, GetEventsCases DEF f

LEMMA WalkStep ==
    ASSUME ListTypeOK, WalkInv, [ListNext]_listVars
    PROVE  WalkInv'
  <1>1. ASSUME NEW q \in Query, NEW page \in {Blank, Bad, 0}, Begin(q, page)
        PROVE  WalkInv'
    <2>1. walk' = [query |-> q, page |-> page, status |-> "asking", seen |-> {},
                   touched |-> {}, recent |-> 0, stormy |-> FALSE]
      BY <1>1 DEF Begin
    <2>2. walk'.status = "asking" /\ ~(walk'.page \in Nat /\ walk'.page > 1)
      BY <2>1, QueryAssumption
    <2> QED
      BY <2>2 DEF WalkInv
  <1>2. CASE End
    BY <1>2 DEF End, WalkInv
  <1>3. CASE UNCHANGED listVars
    BY <1>3 DEF listVars, WalkInv, Position, FoundUpTo
  <1> QED
    BY <1>1, <1>2, <1>3, WalkWrite, WalkGetEvents DEF ListNext

\* Whoever walks through all pages has seen every event that matches and that
\* nobody wrote, unless a page of events was written between two requests.
THEOREM WalkCorrect == ListSpec => []WalkMissesNothing
  <1>1. ListInit => ListTypeOK /\ WalkInv
    BY TypeInit DEF ListInit, WalkInv
  <1>2. ListTypeOK /\ WalkInv /\ [ListNext]_listVars => ListTypeOK' /\ WalkInv'
    BY TypeStep, WalkStep
  <1>3. ListTypeOK /\ WalkInv => WalkMissesNothing
    BY DEF WalkInv, WalkMissesNothing
  <1> QED
    BY <1>1, <1>2, <1>3, PTL DEF ListSpec
=============================================================================
