------------------------ MODULE InsightsStore_proofs ------------------------
(***************************************************************************)
(* Proofs about InsightsStore, for any recorders, subjects, lengths of     *)
(* days and months, and numbers of metrics and faults.                     *)
(***************************************************************************)
EXTENDS InsightsStore, TLAPS

-----------------------------------------------------------------------------
(* The calendar *)

\* A day begins at a multiple of its length.
LEMMA DayBounds ==
    ASSUME NEW a \in Nat
    PROVE  /\ Day(a) \in Nat
           /\ Day(a) * MinutesPerDay <= a
           /\ a < (Day(a) + 1) * MinutesPerDay
  BY BoundAssumption DEF Day

LEMMA DayOrder ==
    ASSUME NEW a \in Nat, NEW b \in Nat, a <= b
    PROVE  Day(a) <= Day(b)
  BY BoundAssumption DEF Day

LEMMA DayOfNextMinute ==
    ASSUME NEW a \in Nat
    PROVE  Day(a) <= Day(a + 1) /\ Day(a + 1) <= Day(a) + 1
  BY BoundAssumption DEF Day

LEMMA DayAfterTTL ==
    ASSUME NEW a \in Nat
    PROVE  Day(a + TTL) = Day(a) + 1 /\ a + TTL \in Nat /\ a + TTL > a
  BY BoundAssumption DEF Day, TTL

LEMMA DayBefore ==
    ASSUME NEW a \in Nat, NEW n \in Nat, a < (n + 1) * TTL
    PROVE  Day(a) <= n
  BY BoundAssumption DEF Day, TTL

\* What gets its TTL within a minute of a is gone before the second day after.
LEMMA Deadline ==
    ASSUME NEW a \in Nat, NEW b \in Nat, b <= a + 1
    PROVE  b + TTL <= (Day(a) + 2) * TTL
  <1>1. b <= (Day(a) + 1) * MinutesPerDay /\ Day(a) \in Nat
    BY DayBounds, BoundAssumption
  <1>2. (Day(a) + 2) * MinutesPerDay = (Day(a) + 1) * MinutesPerDay + MinutesPerDay
    BY <1>1, BoundAssumption
  <1> QED
    BY <1>1, <1>2, BoundAssumption DEF TTL

LEMMA DayOfMonthType ==
    ASSUME NEW n \in Nat
    PROVE  n % DaysPerMonth \in DayOfMonth
  BY BoundAssumption DEF DayOfMonth

LEMMA Quotient ==
    ASSUME NEW n \in Nat
    PROVE  /\ n \div DaysPerMonth \in Nat
           /\ n % DaysPerMonth \in 0 .. DaysPerMonth - 1
           /\ n = (n \div DaysPerMonth) * DaysPerMonth + (n % DaysPerMonth)
  BY BoundAssumption

\* Days less than a month apart differ in their day of the month.
LEMMA SameDayOfMonth ==
    ASSUME NEW x \in Nat, NEW y \in Nat,
           x % DaysPerMonth = y % DaysPerMonth, x <= y, y < x + DaysPerMonth
    PROVE  x = y
  <1> DEFINE p == x \div DaysPerMonth
             q == y \div DaysPerMonth
             r == x % DaysPerMonth
  <1>1. /\ p \in Nat /\ q \in Nat /\ r \in Nat
        /\ x = p * DaysPerMonth + r /\ y = q * DaysPerMonth + r
    BY Quotient, BoundAssumption
  <1> HIDE DEF p, q, r
  <1>2. p * DaysPerMonth <= q * DaysPerMonth /\ q * DaysPerMonth < (p + 1) * DaysPerMonth
    BY <1>1, BoundAssumption
  <1>3. p <= q /\ q < p + 1
    BY <1>1, <1>2, BoundAssumption
  <1> QED
    BY <1>1, <1>3

LEMMA RemainderUnique ==
    ASSUME NEW q \in Nat, NEW r \in 0 .. DaysPerMonth - 1
    PROVE  (q * DaysPerMonth + r) % DaysPerMonth = r
  BY BoundAssumption

LEMMA NextDayOfMonth ==
    ASSUME NEW n \in Nat
    PROVE  (n + 1) % DaysPerMonth
               = IF n % DaysPerMonth = DaysPerMonth - 1 THEN 0 ELSE (n % DaysPerMonth) + 1
  <1> DEFINE q == n \div DaysPerMonth
             r == n % DaysPerMonth
  <1>1. q \in Nat /\ r \in 0 .. DaysPerMonth - 1 /\ n = q * DaysPerMonth + r
    BY Quotient
  <1> HIDE DEF q, r
  <1>2. CASE r = DaysPerMonth - 1
    <2>1. n + 1 = (q + 1) * DaysPerMonth + 0
      BY <1>1, <1>2, BoundAssumption
    <2>2. (n + 1) % DaysPerMonth = 0
      BY <1>1, <2>1, RemainderUnique, BoundAssumption
    <2> QED
      BY <1>2, <2>2 DEF r
  <1>3. CASE r # DaysPerMonth - 1
    <2>1. n + 1 = q * DaysPerMonth + (r + 1) /\ r + 1 \in 0 .. DaysPerMonth - 1
      BY <1>1, <1>3, BoundAssumption
    <2>2. (n + 1) % DaysPerMonth = r + 1
      BY <1>1, <2>1, RemainderUnique
    <2> QED
      BY <1>3, <2>2 DEF r
  <1> QED
    BY <1>2, <1>3

\* The day after a day of the month is that of the day after.
LEMMA FollowingDayOfMonth ==
    ASSUME NEW x \in DayOfMonth, NEW n \in Nat
    PROVE  x = n % DaysPerMonth => (x + 1) % DaysPerMonth = (n + 1) % DaysPerMonth
  <1> SUFFICES ASSUME x = n % DaysPerMonth
               PROVE  (x + 1) % DaysPerMonth = (n + 1) % DaysPerMonth
    OBVIOUS
  <1>1. x \in Nat /\ x = 0 * DaysPerMonth + x
    BY BoundAssumption DEF DayOfMonth
  <1>2. x % DaysPerMonth = x
    BY <1>1, RemainderUnique, BoundAssumption DEF DayOfMonth
  <1> QED
    BY <1>1, <1>2, NextDayOfMonth

-----------------------------------------------------------------------------
(* The inductive invariant, part by part. *)

\* Between the first command and the one that gives the key its TTL.
Writing(r) == task[r] # Idle /\ task[r].step \in {"zadd", "expire"}

\* The recorder has added its key to the group of a day.
Grouping(r) == At(r, "groupExpire")

\* The group of day n has the key k because k is of that day, or of the day
\* before and a recording lasted over midnight.
Belongs(k, n) ==
    \/ k.day = n % DaysPerMonth
    \/ \E y \in straddled : y + 1 = n /\ k.day = y % DaysPerMonth

\* What expires then got its TTL on a day of the month, or a minute later.
SetOn(day, time) ==
    \E e \in 0 .. now : DayOf(e) = day /\ e + TTL <= time /\ time <= e + 1 + TTL

\* A recording takes less than a minute.
TaskInv ==
    \A r \in Recorder : task[r] # Idle =>
        LET m == task[r].metric IN
        /\ m.ended <= now /\ now <= m.ended + 1
        /\ \/ task[r].step = "expire"
           \/ task[r].step = "sadd" /\ task[r].complete
           => (Day(m.ended) = Day(now) => m \in ToSet(zset[KeyOf(m)]))
        /\ task[r].step = "groupExpire" =>
               \E a \in m.ended .. now :
                   DayOf(a) = task[r].day /\ Belongs(KeyOf(m), Day(a))

\* A sorted set has the metrics of its key, each once.
KeyInv ==
    \A k \in Key :
        /\ \A m \in ToSet(zset[k]) : KeyOf(m) = k /\ m.ended <= now
        /\ \A i, j \in DOMAIN zset[k] : zset[k][i] = zset[k][j] => i = j

\* A key gets its TTL on its day, and is gone by the end of the next one, unless
\* it was left without.
KeyExpiryInv ==
    \A k \in Key :
        /\ expiry[k] <= now + TTL
        /\ expiry[k] # 0 => SetOn(k.day, expiry[k])
        /\ k \notin missed => \A m \in ToSet(zset[k]) :
               IF expiry[k] = 0
               THEN \E r \in Recorder : Writing(r) /\ task[r].metric = m
               ELSE expiry[k] <= (Day(m.ended) + 2) * TTL

\* The same of groups.
GroupInv ==
    \A d \in DayOfMonth :
        /\ groupExpiry[d] <= now + TTL
        /\ groupExpiry[d] # 0 => SetOn(d, groupExpiry[d])
        /\ \A k \in group[d] : k.day = d \/ (k.day + 1) % DaysPerMonth = d
        /\ ~missedGroup => \A k \in group[d] :
               IF groupExpiry[d] = 0
               THEN \E r \in Recorder :
                        Grouping(r) /\ task[r].day = d /\ KeyOf(task[r].metric) = k
               ELSE \E n \in 0 .. Day(now) :
                        /\ n % DaysPerMonth = d
                        /\ Belongs(k, n)
                        /\ groupExpiry[d] <= (n + 2) * TTL

\* What was recorded today can be found today.
TodayInv ==
    \A m \in today :
        /\ Day(m.ended) = Day(now)
        /\ m \in ToSet(zset[KeyOf(m)])
        /\ KeyOf(m) \in group[DayOf(now)]

\* The handler still has the keys of what it owes, and no key twice.
ReaderInv ==
    reader # Idle =>
        /\ now <= reader.began + 1
        /\ \A k \in reader.todo :
               \/ k.day = DayOf(reader.began)
               \/ /\ (k.day + 1) % DaysPerMonth = DayOf(reader.began)
                  /\ missedGroup \/ \E y \in straddled : y + 1 = Day(reader.began)
        /\ \A m \in ToSet(reader.output) : KeyOf(m) \notin reader.todo
        /\ Day(now) = Day(reader.began) => \A m \in reader.due :
               m \in today /\ (m \in ToSet(reader.output) \/ KeyOf(m) \in reader.todo)

\* The inductive invariant.
IInv ==
    /\ TypeOK /\ TaskInv /\ KeyInv /\ KeyExpiryInv /\ GroupInv /\ TodayInv
    /\ ReaderInv /\ NothingTwice /\ AnswersAreOfToday

-----------------------------------------------------------------------------
(* Operators of the model *)

LEMMA Concatenated ==
    ASSUME NEW S, NEW a \in Seq(S), NEW b \in Seq(S)
    PROVE  /\ a \o b \in Seq(S) /\ Len(a \o b) = Len(a) + Len(b)
           /\ \A i \in 1 .. Len(a) : (a \o b)[i] = a[i]
           /\ \A i \in Len(a) + 1 .. Len(a) + Len(b) : (a \o b)[i] = b[i - Len(a)]
  OBVIOUS

\* An element that is added again is in the sequence once.
LEMMA Renewed ==
    ASSUME NEW S, NEW list \in Seq(S), NEW m \in S
    PROVE  LET new == Append(Without(list, m), m) IN
           /\ new \in Seq(S) /\ new # <<>>
           /\ ToSet(new) = ToSet(list) \cup {m}
           /\ (\A i, j \in DOMAIN list : list[i] = list[j] => i = j)
              => \A i, j \in DOMAIN new : new[i] = new[j] => i = j
  <1> DEFINE rest == Without(list, m)
             new == Append(rest, m)
  <1>1. CASE m \notin ToSet(list)
    <2>1. rest = list
      BY <1>1 DEF Without
    <2> DEFINE n == Len(list)
    <2>2. n \in Nat /\ DOMAIN list = 1 .. n
      OBVIOUS
    <2>3. /\ new \in Seq(S) /\ Len(new) = n + 1 /\ DOMAIN new = 1 .. n + 1
          /\ \A i \in 1 .. n : new[i] = list[i]
          /\ new[n + 1] = m
      BY <2>1
    <2> HIDE DEF new, rest, n
    <2>4. ToSet(new) = ToSet(list) \cup {m}
      <3>1. ToSet(new) \subseteq ToSet(list) \cup {m}
        BY <2>2, <2>3 DEF ToSet
      <3>2. n + 1 \in DOMAIN new /\ DOMAIN list \subseteq DOMAIN new
        BY <2>2, <2>3
      <3>3. ToSet(list) \cup {m} \subseteq ToSet(new)
        BY <2>2, <2>3, <3>2 DEF ToSet
      <3> QED
        BY <3>1, <3>3
    <2>5. ASSUME \A i, j \in DOMAIN list : list[i] = list[j] => i = j,
                 NEW i \in DOMAIN new, NEW j \in DOMAIN new, new[i] = new[j]
          PROVE  i = j
      <3>1. \A x \in 1 .. n : list[x] # m
        BY <1>1, <2>2 DEF ToSet
      <3> QED
        BY <2>2, <2>3, <2>5, <3>1
    <2>6. new # <<>>
      BY <2>2, <2>3
    <2> QED
      BY <2>3, <2>4, <2>5, <2>6 DEF new, rest
  <1>2. CASE m \in ToSet(list)
    <2> DEFINE p == CHOOSE i \in DOMAIN list : list[i] = m
               n == Len(list)
    <2>1. p \in 1 .. n /\ list[p] = m /\ n \in Nat
      BY <1>2 DEF ToSet
    <2>2. rest = SubSeq(list, 1, p - 1) \o SubSeq(list, p + 1, n)
      BY <1>2 DEF Without, RemoveAt
    <2> HIDE DEF p
    <2>3. /\ SubSeq(list, 1, p - 1) \in Seq(S)
          /\ Len(SubSeq(list, 1, p - 1)) = p - 1
          /\ \A i \in 1 .. p - 1 : SubSeq(list, 1, p - 1)[i] = list[i]
      BY <2>1
    <2>4. /\ SubSeq(list, p + 1, n) \in Seq(S)
          /\ Len(SubSeq(list, p + 1, n)) = n - p
          /\ \A i \in 1 .. n - p : SubSeq(list, p + 1, n)[i] = list[p + i]
      BY <2>1
    <2>5. /\ rest \in Seq(S) /\ Len(rest) = n - 1
          /\ \A i \in 1 .. p - 1 : rest[i] = list[i]
          /\ \A i \in p .. n - 1 : rest[i] = list[i + 1]
      <3> DEFINE a == SubSeq(list, 1, p - 1)
                 b == SubSeq(list, p + 1, n)
      <3> HIDE DEF a, b, rest, n
      <3>1. /\ a \in Seq(S) /\ b \in Seq(S) /\ rest = a \o b
            /\ Len(a) = p - 1 /\ Len(b) = n - p
        BY <2>2, <2>3, <2>4 DEF a, b, n
      <3>2. /\ rest \in Seq(S) /\ Len(rest) = Len(a) + Len(b)
            /\ \A i \in 1 .. Len(a) : rest[i] = a[i]
            /\ \A i \in Len(a) + 1 .. Len(a) + Len(b) : rest[i] = b[i - Len(a)]
        BY <3>1, Concatenated
      <3>3. \A i \in p .. n - 1 : i - (p - 1) \in 1 .. n - p /\ p + (i - (p - 1)) = i + 1
        BY <2>1
      <3>4. \A i \in 1 .. p - 1 : a[i] = list[i]
        BY <2>3 DEF a
      <3>5. \A i \in 1 .. n - p : b[i] = list[p + i]
        BY <2>4 DEF b
      <3>6. \A i \in p .. n - 1 : rest[i] = b[i - (p - 1)]
        BY <2>1, <3>1, <3>2
      <3>7. \A i \in p .. n - 1 : rest[i] = list[i + 1]
        BY <3>3, <3>5, <3>6
      <3> QED
        BY <2>1, <3>1, <3>2, <3>4, <3>7
    <2> HIDE DEF rest, n
    <2>6. /\ new \in Seq(S) /\ Len(new) = n /\ new[n] = m /\ DOMAIN new = 1 .. n
          /\ \A i \in 1 .. p - 1 : new[i] = list[i]
          /\ \A i \in p .. n - 1 : new[i] = list[i + 1]
      BY <2>1, <2>5
    <2> HIDE DEF new
    <2>7. DOMAIN list = 1 .. n
      BY <2>1 DEF n
    <2>8. \A i \in 1 .. n : \E j \in 1 .. n : new[j] = list[i]
      <3> TAKE i \in 1 .. n
      <3>1. CASE i < p
        BY <2>1, <2>6, <3>1
      <3>2. CASE i = p
        BY <2>1, <2>6, <3>2
      <3>3. CASE i > p
        <4>1. i - 1 \in p .. n - 1 /\ i - 1 \in 1 .. n /\ (i - 1) + 1 = i
          BY <2>1, <3>3
        <4> QED
          BY <2>6, <4>1
      <3> QED
        BY <2>1, <3>1, <3>2, <3>3
    <2>9. \A j \in 1 .. n : \E i \in 1 .. n :
              /\ new[j] = list[i]
              /\ i = IF j = n THEN p ELSE IF j < p THEN j ELSE j + 1
      BY <2>1, <2>6
    <2>10. ToSet(new) = ToSet(list) \cup {m}
      <3>1. ToSet(new) = {new[i] : i \in 1 .. n} /\ ToSet(list) = {list[i] : i \in 1 .. n}
        BY <2>6, <2>7 DEF ToSet
      <3>2. {list[i] : i \in 1 .. n} \subseteq {new[i] : i \in 1 .. n}
        BY <2>8
      <3>3. {new[i] : i \in 1 .. n} \subseteq {list[i] : i \in 1 .. n}
        BY <2>9
      <3> QED
        BY <1>2, <3>1, <3>2, <3>3
    <2>11. ASSUME \A i, j \in DOMAIN list : list[i] = list[j] => i = j,
                  NEW i \in DOMAIN new, NEW j \in DOMAIN new, new[i] = new[j]
           PROVE  i = j
      <3>1. PICK x \in 1 .. n : /\ new[i] = list[x]
                                /\ x = IF i = n THEN p ELSE IF i < p THEN i ELSE i + 1
        BY <2>6, <2>9, <2>11
      <3>2. PICK y \in 1 .. n : /\ new[j] = list[y]
                                /\ y = IF j = n THEN p ELSE IF j < p THEN j ELSE j + 1
        BY <2>6, <2>9, <2>11
      <3>3. x = y
        BY <2>7, <2>11, <3>1, <3>2
      <3> QED
        BY <2>1, <2>6, <2>11, <3>1, <3>2, <3>3
    <2>12. new # <<>>
      BY <2>1, <2>6
    <2> QED
      BY <2>6, <2>10, <2>11, <2>12 DEF new, rest
  <1> QED
    BY <1>1, <1>2

\* Neither has a sequence duplicates that is put together of two disjoint ones.
LEMMA Joined ==
    ASSUME NEW S, NEW a \in Seq(S), NEW b \in Seq(S)
    PROVE  /\ a \o b \in Seq(S)
           /\ ToSet(a \o b) = ToSet(a) \cup ToSet(b)
           /\ /\ ToSet(a) \cap ToSet(b) = {}
              /\ \A i, j \in DOMAIN a : a[i] = a[j] => i = j
              /\ \A i, j \in DOMAIN b : b[i] = b[j] => i = j
              => \A i, j \in DOMAIN (a \o b) : (a \o b)[i] = (a \o b)[j] => i = j
  <1> DEFINE c == a \o b
  <1>1. /\ c \in Seq(S) /\ DOMAIN c = 1 .. Len(a) + Len(b)
        /\ DOMAIN a = 1 .. Len(a) /\ DOMAIN b = 1 .. Len(b)
        /\ Len(a) \in Nat /\ Len(b) \in Nat
        /\ \A i \in 1 .. Len(a) : c[i] = a[i]
        /\ \A i \in Len(a) + 1 .. Len(a) + Len(b) : c[i] = b[i - Len(a)]
    OBVIOUS
  <1> HIDE DEF c
  <1>2. \A i \in DOMAIN b : c[Len(a) + i] = b[i] /\ Len(a) + i \in DOMAIN c
    BY <1>1
  <1>3. \A i \in DOMAIN c :
            \/ i \in DOMAIN a /\ c[i] = a[i]
            \/ i - Len(a) \in DOMAIN b /\ c[i] = b[i - Len(a)]
    BY <1>1
  <1>4. ToSet(c) = ToSet(a) \cup ToSet(b)
    <2>1. ToSet(a) \cup ToSet(b) \subseteq ToSet(c)
      BY <1>1, <1>2 DEF ToSet
    <2>2. ToSet(c) \subseteq ToSet(a) \cup ToSet(b)
      BY <1>3 DEF ToSet
    <2> QED
      BY <2>1, <2>2
  <1>5. ASSUME ToSet(a) \cap ToSet(b) = {},
               \A i, j \in DOMAIN a : a[i] = a[j] => i = j,
               \A i, j \in DOMAIN b : b[i] = b[j] => i = j,
               NEW i \in DOMAIN c, NEW j \in DOMAIN c, c[i] = c[j]
        PROVE  i = j
    <2>1. \A x \in DOMAIN a, y \in DOMAIN b : a[x] # b[y]
      BY <1>5 DEF ToSet
    <2>2. \/ i \in DOMAIN a /\ j \in DOMAIN a /\ a[i] = a[j]
          \/ i - Len(a) \in DOMAIN b /\ j - Len(a) \in DOMAIN b
             /\ b[i - Len(a)] = b[j - Len(a)]
      BY <1>3, <1>5, <2>1
    <2>3. i - Len(a) = j - Len(a) => i = j
      BY <1>1
    <2> QED
      BY <1>5, <2>2, <2>3
  <1> QED
    BY <1>1, <1>4, <1>5 DEF c

LEMMA KeyOfType ==
    ASSUME NEW m \in Metric
    PROVE  /\ KeyOf(m) \in Key
           /\ KeyOf(m).day = Day(m.ended) % DaysPerMonth
           /\ m.ended \in Nat /\ Day(m.ended) \in Nat
  <1>1. m.ended \in Nat /\ m.subject \in Subject
    BY BoundAssumption DEF Metric
  <1>2. Day(m.ended) \in Nat
    BY <1>1, DayBounds
  <1>3. DayOf(m.ended) \in DayOfMonth
    BY <1>2, DayOfMonthType DEF DayOf
  <1> QED
    BY <1>1, <1>2, <1>3 DEF KeyOf, Key, DayOf

\* ZADD changes the one key, by the one metric.
LEMMA AddedFacts ==
    ASSUME zset \in [Key -> Seq(Metric)], NEW m \in Metric
    PROVE  /\ Added(m) \in [Key -> Seq(Metric)]
           /\ \A k \in Key : k # KeyOf(m) => Added(m)[k] = zset[k]
           /\ Added(m)[KeyOf(m)] # <<>>
           /\ ToSet(Added(m)[KeyOf(m)]) = ToSet(zset[KeyOf(m)]) \cup {m}
           /\ (\A i, j \in DOMAIN zset[KeyOf(m)] :
                   zset[KeyOf(m)][i] = zset[KeyOf(m)][j] => i = j)
              => \A i, j \in DOMAIN Added(m)[KeyOf(m)] :
                     Added(m)[KeyOf(m)][i] = Added(m)[KeyOf(m)][j] => i = j
  <1> DEFINE k == KeyOf(m)
             new == Append(Without(zset[k], m), m)
  <1>1. k \in Key /\ zset[k] \in Seq(Metric)
    BY KeyOfType
  <1>2. /\ new \in Seq(Metric) /\ new # <<>>
        /\ ToSet(new) = ToSet(zset[k]) \cup {m}
        /\ (\A i, j \in DOMAIN zset[k] : zset[k][i] = zset[k][j] => i = j)
           => \A i, j \in DOMAIN new : new[i] = new[j] => i = j
    BY <1>1, Renewed
  <1>3. Added(m) = [zset EXCEPT ![k] = new]
    BY DEF Added
  <1> HIDE DEF new, k
  <1>4. /\ Added(m)[k] = new /\ Added(m) \in [Key -> Seq(Metric)]
        /\ \A x \in Key : x # k => Added(m)[x] = zset[x]
    BY <1>1, <1>2, <1>3
  <1> QED
    BY <1>2, <1>4 DEF k

-----------------------------------------------------------------------------
(* Types *)

LEMMA TaskType ==
    ASSUME TypeOK, NEW r \in Recorder, task[r] # Idle
    PROVE  /\ task[r] \in Task
           /\ task[r].metric \in Metric
           /\ task[r].day \in DayOfMonth
           /\ task[r].complete \in BOOLEAN
           /\ KeyOf(task[r].metric) \in Key
  BY KeyOfType DEF TypeOK, Task

LEMMA NowType ==
    ASSUME TypeOK
    PROVE  /\ now \in Nat /\ Day(now) \in Nat
           /\ DayOf(now) \in DayOfMonth
           /\ now + TTL \in Nat /\ now + TTL > now
  <1>1. now \in Nat
    BY BoundAssumption DEF TypeOK
  <1>2. Day(now) \in Nat /\ now + TTL \in Nat /\ now + TTL > now
    BY <1>1, DayBounds, DayAfterTTL
  <1>3. DayOf(now) \in DayOfMonth
    BY <1>2, DayOfMonthType DEF DayOf
  <1> QED
    BY <1>1, <1>2, <1>3

\* What a step of a recorder does to the tasks.
LEMMA TaskChange ==
    ASSUME TypeOK, NEW r \in Recorder, Recording(r)
    PROVE  /\ task' \in [Recorder -> Task \cup {Idle}]
           /\ \A q \in Recorder : q # r => task'[q] = task[q]
           /\ now' = now /\ reader' = reader
  <1>1. task \in [Recorder -> Task \cup {Idle}] /\ now \in 0 .. MaxTime /\ count \in 0 .. MaxMetrics
    BY DEF TypeOK
  <1>2. ASSUME NEW s \in Subject, Record(r, s)
        PROVE  task' \in [Recorder -> Task \cup {Idle}]
    <2> DEFINE m == [subject |-> s, ended |-> now, duration |-> count + 1]
               t == [step |-> "zadd", complete |-> TRUE, day |-> DayOf(now), metric |-> m]
    <2>1. count + 1 \in 1 .. MaxMetrics
      BY <1>1, <1>2, BoundAssumption DEF Record
    <2>2. m \in Metric
      BY <1>1, <2>1 DEF Metric
    <2>3. t \in Task
      BY <2>2, NowType DEF Task
    <2>4. task' = [task EXCEPT ![r] = t]
      BY <1>2 DEF Record
    <2> HIDE DEF t
    <2> QED
      BY <1>1, <2>3, <2>4
  <1>3. ASSUME NEW step \in {"zadd", "expire", "sadd", "groupExpire"}, task[r] # Idle
        PROVE  /\ [task[r] EXCEPT !.step = step] \in Task
               /\ [task[r] EXCEPT !.step = step, !.complete = FALSE] \in Task
               /\ [task[r] EXCEPT !.step = step, !.day = DayOf(now)] \in Task
    BY <1>3, TaskType, NowType DEF Task
  <1>4. \/ \E s \in Subject : Record(r, s)
        \/ task' = task
        \/ task' = [task EXCEPT ![r] = Idle]
        \/ \E step \in {"zadd", "expire", "sadd", "groupExpire"} :
               /\ task[r] # Idle
               /\ \/ task' = [task EXCEPT ![r].step = step]
                  \/ task' = [task EXCEPT ![r].step = step, ![r].complete = FALSE]
                  \/ task' = [task EXCEPT ![r].step = step, ![r].day = DayOf(now)]
    BY DEF Recording, ZAdd, ZAddAgain, Expire, KeyCommandFails, SAdd, GroupExpire,
           GroupCommandFails, Abort, GoTo, At
  <1>5. task' \in [Recorder -> Task \cup {Idle}]
    <2>1. CASE \E s \in Subject : Record(r, s)
      BY <1>2, <2>1
    <2>2. CASE task' = task \/ task' = [task EXCEPT ![r] = Idle]
      BY <1>1, <2>2
    <2>3. ASSUME NEW step \in {"zadd", "expire", "sadd", "groupExpire"}, task[r] # Idle,
                 \/ task' = [task EXCEPT ![r].step = step]
                 \/ task' = [task EXCEPT ![r].step = step, ![r].complete = FALSE]
                 \/ task' = [task EXCEPT ![r].step = step, ![r].day = DayOf(now)]
          PROVE  task' \in [Recorder -> Task \cup {Idle}]
      BY <1>1, <1>3, <2>3
    <2> QED
      BY <1>4, <2>1, <2>2, <2>3
  <1>6. \A q \in Recorder : q # r => task'[q] = task[q]
    BY <1>1, <1>4 DEF Record
  <1>7. now' = now /\ reader' = reader
    BY DEF Recording, Record, ZAdd, ZAddAgain, Expire, KeyCommandFails, SAdd, GroupExpire,
           GroupCommandFails, Abort, redis
  <1> QED
    BY <1>5, <1>6, <1>7

KeysTyped ==
    /\ zset \in [Key -> Seq(Metric)]
    /\ expiry \in [Key -> Nat]
    /\ \A k \in Key : expiry[k] # 0 => zset[k] # <<>> /\ expiry[k] > now

GroupsTyped ==
    /\ group \in [DayOfMonth -> SUBSET Key]
    /\ groupExpiry \in [DayOfMonth -> Nat]
    /\ \A d \in DayOfMonth : groupExpiry[d] # 0 => group[d] # {} /\ groupExpiry[d] > now

LEMMA TypedParts ==
    ASSUME TypeOK
    PROVE  KeysTyped /\ GroupsTyped
  BY DEF TypeOK, KeysTyped, GroupsTyped

\* What a step of a recorder does to the sorted sets: nothing, unless it is at
\* one of the commands for its key.
LEMMA KeyChange ==
    ASSUME NEW r \in Recorder, Recording(r)
    PROVE  \/ UNCHANGED <<zset, expiry>>
           \/ /\ Writing(r)
              /\ \/ zset' = Added(task[r].metric) /\ expiry' = expiry
                 \/ zset' = zset /\ expiry' = Expiring(KeyOf(task[r].metric))
  BY DEF Recording, Record, ZAdd, ZAddAgain, Expire, KeyCommandFails, SAdd, GroupExpire,
         GroupCommandFails, Abort, redis, Writing, At

LEMMA GroupChange ==
    ASSUME NEW r \in Recorder, Recording(r)
    PROVE  \/ UNCHANGED <<group, groupExpiry>>
           \/ /\ At(r, "sadd")
              /\ group' = Grouped(task[r].metric) /\ groupExpiry' = groupExpiry
           \/ /\ At(r, "groupExpire")
              /\ group' = group
              /\ groupExpiry' = [groupExpiry EXCEPT ![task[r].day] =
                                     IF group[task[r].day] = {} THEN 0 ELSE now + TTL]
  BY DEF Recording, Record, ZAdd, ZAddAgain, Expire, KeyCommandFails, SAdd, GroupExpire,
         GroupCommandFails, Abort, redis

LEMMA ExpiringFacts ==
    ASSUME TypeOK, NEW k \in Key
    PROVE  /\ Expiring(k) \in [Key -> Nat]
           /\ \A x \in Key : x # k => Expiring(k)[x] = expiry[x]
           /\ Expiring(k)[k] = IF zset[k] = <<>> THEN 0 ELSE now + TTL
  BY NowType DEF TypeOK, Expiring

LEMMA KeysStayTyped ==
    ASSUME TypeOK, NEW r \in Recorder, Recording(r)
    PROVE  KeysTyped'
  <1>1. KeysTyped /\ now' = now
    BY TypedParts, TaskChange
  <1>2. CASE UNCHANGED <<zset, expiry>>
    BY <1>1, <1>2 DEF KeysTyped
  <1> DEFINE m == task[r].metric
  <1>3. ASSUME Writing(r), zset' = Added(m), expiry' = expiry
        PROVE  KeysTyped'
    <2>1. m \in Metric
      BY <1>3, TaskType DEF Writing
    <2>2. /\ Added(m) \in [Key -> Seq(Metric)]
          /\ \A k \in Key : k # KeyOf(m) => Added(m)[k] = zset[k]
          /\ Added(m)[KeyOf(m)] # <<>>
      BY <1>1, <2>1, AddedFacts DEF KeysTyped
    <2> QED
      BY <1>1, <1>3, <2>2 DEF KeysTyped
  <1>4. ASSUME Writing(r), zset' = zset, expiry' = Expiring(KeyOf(m))
        PROVE  KeysTyped'
    <2> DEFINE k == KeyOf(m)
    <2>1. k \in Key
      BY <1>4, TaskType DEF Writing
    <2>2. /\ expiry' \in [Key -> Nat]
          /\ \A x \in Key : x # k => expiry'[x] = expiry[x]
          /\ expiry'[k] = IF zset[k] = <<>> THEN 0 ELSE now + TTL
      BY <1>4, <2>1, ExpiringFacts
    <2> QED
      BY <1>1, <1>4, <2>2, NowType DEF KeysTyped
  <1> QED
    BY <1>2, <1>3, <1>4, KeyChange

LEMMA GroupsStayTyped ==
    ASSUME TypeOK, NEW r \in Recorder, Recording(r)
    PROVE  GroupsTyped'
  <1>1. GroupsTyped /\ now' = now
    BY TypedParts, TaskChange
  <1>2. CASE UNCHANGED <<group, groupExpiry>>
    BY <1>1, <1>2 DEF GroupsTyped
  <1> DEFINE k == KeyOf(task[r].metric)
             d == task[r].day
  <1>3. ASSUME At(r, "sadd"), group' = Grouped(task[r].metric), groupExpiry' = groupExpiry
        PROVE  GroupsTyped'
    <2>1. k \in Key
      BY <1>3, TaskType DEF At
    <2>2. group' = [group EXCEPT ![DayOf(now)] = @ \cup {k}]
      BY <1>3 DEF Grouped
    <2> QED
      BY <1>1, <1>3, <2>1, <2>2, NowType DEF GroupsTyped
  <1>4. ASSUME At(r, "groupExpire"), group' = group,
               groupExpiry' = [groupExpiry EXCEPT ![d] = IF group[d] = {} THEN 0 ELSE now + TTL]
        PROVE  GroupsTyped'
    <2>1. d \in DayOfMonth
      BY <1>4, TaskType DEF At
    <2> QED
      BY <1>1, <1>4, <2>1, NowType DEF GroupsTyped
  <1> QED
    BY <1>2, <1>3, <1>4, GroupChange

LEMMA TypeStep ==
    ASSUME TypeOK, [Next]_vars
    PROVE  TypeOK'
  <1>1. ASSUME NEW r \in Recorder, Recording(r)
        PROVE  TypeOK'
    <2>1. /\ task' \in [Recorder -> Task \cup {Idle}]
          /\ now' = now /\ reader' = reader
      BY <1>1, TaskChange
    <2>2. KeysTyped' /\ GroupsTyped'
      BY <1>1, KeysStayTyped, GroupsStayTyped
    <2>3. count' \in 0 .. MaxMetrics
      BY <1>1, BoundAssumption
      DEF TypeOK, Recording, Record, ZAdd, ZAddAgain, Expire, KeyCommandFails, SAdd,
          GroupExpire, GroupCommandFails, Abort
    <2>4. faults' \in 0 .. MaxFaults
      BY <1>1, BoundAssumption
      DEF TypeOK, Recording, Record, ZAdd, ZAddAgain, Expire, KeyCommandFails, SAdd,
          GroupExpire, GroupCommandFails, Abort, Fault
    <2>5. CASE task[r] = Idle
      <3>1. UNCHANGED history
        BY <1>1, <2>5
        DEF Recording, Record, ZAdd, ZAddAgain, Expire, KeyCommandFails, SAdd, GroupExpire,
            GroupCommandFails, Abort, At
      <3> QED
        BY <2>1, <2>2, <2>3, <2>4, <3>1 DEF TypeOK, KeysTyped, GroupsTyped, history
    <2>6. CASE task[r] # Idle
      <3> DEFINE m == task[r].metric
      <3>1. m \in Metric /\ KeyOf(m) \in Key /\ Day(m.ended) \in Nat
        BY <2>6, TaskType, KeyOfType
      <3>2. today' \in {today, today \cup {m}}
        BY <1>1, <2>6
        DEF Recording, Record, ZAdd, ZAddAgain, Expire, KeyCommandFails, SAdd, GroupExpire,
            GroupCommandFails, Abort, history
      <3>3. missed' \in {missed, missed \cup {KeyOf(m)}}
        BY <1>1, <2>6
        DEF Recording, Record, ZAdd, ZAddAgain, Expire, KeyCommandFails, SAdd, GroupExpire,
            GroupCommandFails, Abort, history, MissKey
      <3>4. missedGroup' \in BOOLEAN
        BY <1>1, <2>6
        DEF TypeOK, Recording, Record, ZAdd, ZAddAgain, Expire, KeyCommandFails, SAdd,
            GroupExpire, GroupCommandFails, Abort, history, MissGroup
      <3>5. straddled' \in {straddled, straddled \cup {Day(m.ended)}}
        BY <1>1, <2>6
        DEF Recording, Record, ZAdd, ZAddAgain, Expire, KeyCommandFails, SAdd, GroupExpire,
            GroupCommandFails, Abort, history, Straddles
      <3>6. today' \subseteq Metric /\ missed' \subseteq Key /\ straddled' \subseteq Nat
        BY <3>1, <3>2, <3>3, <3>5 DEF TypeOK
      <3> QED
        BY <2>1, <2>2, <2>3, <2>4, <3>4, <3>6 DEF TypeOK, KeysTyped, GroupsTyped
    <2> QED
      BY <2>5, <2>6
  <1>2. ASSUME Tick
        PROVE  TypeOK'
    <2>1. now \in Nat /\ now' = now + 1 /\ now' \in 0 .. MaxTime
      BY <1>2, BoundAssumption DEF TypeOK, Tick
    <2>2. KeysTyped'
      <3>1. KeysTyped
        BY TypedParts
      <3>2. /\ zset' = [k \in Key |-> IF expiry[k] = now + 1 THEN <<>> ELSE zset[k]]
            /\ expiry' = [k \in Key |-> IF expiry[k] = now + 1 THEN 0 ELSE expiry[k]]
        BY <1>2 DEF Tick
      <3>3. zset' \in [Key -> Seq(Metric)] /\ expiry' \in [Key -> Nat]
        BY <3>1, <3>2 DEF KeysTyped
      <3>4. \A k \in Key : expiry'[k] # 0 => zset'[k] # <<>> /\ expiry'[k] > now'
        BY <2>1, <3>1, <3>2 DEF KeysTyped
      <3> QED
        BY <3>3, <3>4 DEF KeysTyped
    <2>3. GroupsTyped'
      <3>1. GroupsTyped
        BY TypedParts
      <3>2. /\ group' = [d \in DayOfMonth |-> IF groupExpiry[d] = now + 1 THEN {} ELSE group[d]]
            /\ groupExpiry' = [d \in DayOfMonth |->
                                  IF groupExpiry[d] = now + 1 THEN 0 ELSE groupExpiry[d]]
        BY <1>2 DEF Tick
      <3>3. group' \in [DayOfMonth -> SUBSET Key] /\ groupExpiry' \in [DayOfMonth -> Nat]
        BY <3>1, <3>2 DEF GroupsTyped
      <3>4. \A d \in DayOfMonth :
                groupExpiry'[d] # 0 => group'[d] # {} /\ groupExpiry'[d] > now'
        BY <2>1, <3>1, <3>2 DEF GroupsTyped
      <3> QED
        BY <3>3, <3>4 DEF GroupsTyped
    <2>4. today' \subseteq Metric
      BY <1>2 DEF TypeOK, Tick
    <2>5. reader' = reader /\ (reader # Idle => reader.began = now)
      BY <1>2 DEF Tick
    <2> QED
      BY <1>2, <2>1, <2>2, <2>3, <2>4, <2>5 DEF TypeOK, Tick, KeysTyped, GroupsTyped
  <1>3. ASSUME Reading
        PROVE  TypeOK'
    <2>1. UNCHANGED <<now, count, redis, task, faults, history>>
      BY <1>3 DEF Reading, StartRead, ReadKey, EndRead
    <2>2. reader' \in Reader \cup {Idle} /\ (reader' # Idle => reader'.began <= now)
      <3>1. ASSUME StartRead
            PROVE  reader' \in Reader \cup {Idle} /\ (reader' # Idle => reader'.began <= now)
        <4>1. reader' = [todo |-> group[DayOf(now)], output |-> <<>>, began |-> now, due |-> today]
          BY <3>1 DEF StartRead
        <4>2. group[DayOf(now)] \in SUBSET Key /\ today \in SUBSET Metric
          BY NowType DEF TypeOK
        <4> QED
          BY <4>1, <4>2, NowType DEF Reader
      <3>2. ASSUME NEW k \in Key, ReadKey(k)
            PROVE  reader' \in Reader \cup {Idle} /\ (reader' # Idle => reader'.began <= now)
        <4>1. reader \in Reader /\ reader.began <= now
          BY <3>2 DEF ReadKey, TypeOK
        <4>2. zset[k] \in Seq(Metric) /\ reader.output \in Seq(Metric)
          BY <4>1 DEF TypeOK, Reader
        <4>3. reader.output \o zset[k] \in Seq(Metric)
          BY <4>2
        <4>4. reader' = [reader EXCEPT !.todo = @ \ {k}, !.output = @ \o zset[k]]
          BY <3>2 DEF ReadKey
        <4> QED
          BY <4>1, <4>3, <4>4 DEF Reader
      <3>3. CASE EndRead
        BY <3>3 DEF EndRead
      <3> QED
        BY <1>3, <3>1, <3>2, <3>3 DEF Reading
    <2> QED
      BY <2>1, <2>2 DEF TypeOK, redis, history
  <1>4. CASE UNCHANGED vars
    BY <1>4 DEF vars, redis, history, TypeOK
  <1> QED
    BY <1>1, <1>2, <1>3, <1>4 DEF Next

LEMMA TypeInit ==
    ASSUME Init
    PROVE  TypeOK
  <1>1. now \in 0 .. MaxTime /\ count \in 0 .. MaxMetrics /\ faults \in 0 .. MaxFaults
    BY BoundAssumption DEF Init
  <1>2. KeysTyped
    BY DEF Init, KeysTyped
  <1>3. GroupsTyped
    BY DEF Init, GroupsTyped
  <1>4. task \in [Recorder -> Task \cup {Idle}] /\ reader = Idle
    BY DEF Init
  <1>5. today = {} /\ missed = {} /\ missedGroup = FALSE /\ straddled = {}
    BY DEF Init
  <1> QED
    BY <1>1, <1>2, <1>3, <1>4, <1>5 DEF TypeOK, KeysTyped, GroupsTyped

\* The sorted sets, the groups, the recorders and the handler are what they
\* are meant to be; what has a TTL is there, and its time has not passed.
THEOREM TypeCorrect == Spec => []TypeOK
  <1>1. Init => TypeOK
    BY TypeInit
  <1>2. TypeOK /\ [Next]_vars => TypeOK'
    BY TypeStep
  <1> QED
    BY <1>1, <1>2, PTL DEF Spec

-----------------------------------------------------------------------------
(* What the recorders do to the keys and to the groups *)

LEMMA NearDays ==
    ASSUME NEW x \in Nat, NEW y \in Nat,
           x % DaysPerMonth = y % DaysPerMonth, x <= y + 2, y <= x + 2
    PROVE  x = y
  <1>1. x <= y => y < x + DaysPerMonth
    BY BoundAssumption
  <1>2. y <= x => x < y + DaysPerMonth
    BY BoundAssumption
  <1> QED
    BY <1>1, <1>2, SameDayOfMonth

LEMMA LastMinute ==
    ASSUME NEW a \in Nat, NEW b \in Nat, a <= b, b <= a + 1
    PROVE  Day(a) \in Nat /\ Day(b) \in Nat /\ Day(a) <= Day(b) /\ Day(b) <= Day(a) + 1
  <1>1. b = a \/ b = a + 1
    OBVIOUS
  <1> QED
    BY <1>1, DayOfNextMinute, DayBounds

\* History is not forgotten within a day.
LEMMA HistoryGrows ==
    ASSUME TypeOK, [Next]_vars
    PROVE  /\ straddled \subseteq straddled' /\ missed \subseteq missed'
           /\ missedGroup => missedGroup'
  <1>1. CASE Tick
    BY <1>1 DEF Tick
  <1>2. CASE Reading
    <2>1. UNCHANGED history
      BY <1>2 DEF Reading, StartRead, ReadKey, EndRead
    <2> QED
      BY <2>1 DEF history
  <1>3. ASSUME NEW r \in Recorder, Recording(r)
        PROVE  /\ straddled \subseteq straddled' /\ missed \subseteq missed'
               /\ missedGroup => missedGroup'
    <2>1. /\ straddled' = straddled \/ Straddles(task[r].metric)
          /\ missed' = missed \/ MissKey(r)
          /\ missedGroup' = missedGroup \/ \E d : MissGroup(d)
      BY <1>3 DEF Recording, Record, ZAdd, ZAddAgain, Expire, KeyCommandFails, SAdd,
         GroupExpire, GroupCommandFails, Abort, history
    <2>2. straddled \subseteq straddled'
      BY <2>1 DEF Straddles
    <2>3. missed \subseteq missed'
      BY <2>1 DEF MissKey
    <2>4. missedGroup => missedGroup'
      BY <2>1 DEF MissGroup
    <2> QED
      BY <2>2, <2>3, <2>4
  <1>4. CASE UNCHANGED vars
    BY <1>4 DEF vars, history
  <1> QED
    BY <1>1, <1>2, <1>3, <1>4 DEF Next

LEMMA KeysGrow ==
    ASSUME TypeOK, NEW r \in Recorder, Recording(r), NEW k \in Key
    PROVE  ToSet(zset[k]) \subseteq ToSet(zset'[k])
  <1>1. ASSUME Writing(r), zset' = Added(task[r].metric)
        PROVE  ToSet(zset[k]) \subseteq ToSet(zset'[k])
    BY <1>1, TaskType, TypedParts, AddedFacts DEF Writing, KeysTyped
  <1> QED
    BY <1>1, KeyChange

\* What a recorder does next.
LEMMA OwnTask ==
    ASSUME TypeOK, NEW r \in Recorder, Recording(r), task'[r] # Idle
    PROVE  \/ /\ task[r] = Idle
              /\ task'[r].step = "zadd" /\ task'[r].metric.ended = now
           \/ /\ task[r] # Idle
              /\ task'[r].metric = task[r].metric
              /\ \/ ZAddAgain(r) /\ task[r].step = "zadd" /\ task'[r].step = "zadd"
                 \/ ZAdd(r) /\ task[r].step = "zadd" /\ task'[r].step = "expire"
                 \/ /\ Expire(r) /\ task[r].step = "expire" /\ task'[r].step = "sadd"
                    /\ task'[r].complete = task[r].complete
                 \/ KeyCommandFails(r) /\ task'[r].step = "sadd" /\ ~task'[r].complete
                 \/ /\ SAdd(r) /\ task[r].step = "sadd" /\ task'[r].step = "groupExpire"
                    /\ task'[r].day = DayOf(now)
  <1>1. task \in [Recorder -> Task \cup {Idle}]
    BY DEF TypeOK
  <1>2. ASSUME NEW s \in Subject, Record(r, s)
        PROVE  /\ task[r] = Idle
               /\ task'[r].step = "zadd" /\ task'[r].metric.ended = now
    BY <1>1, <1>2 DEF Record
  <1>3. task[r] # Idle => task[r] \in Task
    BY <1>1
  <1>4. CASE ZAddAgain(r)
    BY <1>4 DEF ZAddAgain, At
  <1>5. CASE ZAdd(r)
    <2>1. task' = [task EXCEPT ![r].step = "expire"] /\ task[r] # Idle /\ task[r].step = "zadd"
      BY <1>5 DEF ZAdd, At, GoTo
    <2> QED
      BY <1>1, <1>3, <1>5, <2>1 DEF Task
  <1>6. CASE Expire(r)
    <2>1. task' = [task EXCEPT ![r].step = "sadd"] /\ task[r] # Idle /\ task[r].step = "expire"
      BY <1>6 DEF Expire, At, GoTo
    <2> QED
      BY <1>1, <1>3, <1>6, <2>1 DEF Task
  <1>7. CASE KeyCommandFails(r)
    <2>1. /\ task' = [task EXCEPT ![r].step = "sadd", ![r].complete = FALSE]
          /\ task[r] # Idle
      BY <1>7 DEF KeyCommandFails, At
    <2> QED
      BY <1>1, <1>3, <1>7, <2>1 DEF Task
  <1>8. CASE SAdd(r)
    <2>1. /\ task' = [task EXCEPT ![r].step = "groupExpire", ![r].day = DayOf(now)]
          /\ task[r] # Idle /\ task[r].step = "sadd"
      BY <1>8 DEF SAdd, At
    <2> QED
      BY <1>1, <1>3, <1>8, <2>1 DEF Task
  <1>9. CASE GroupExpire(r) \/ GroupCommandFails(r) \/ Abort(r)
    BY <1>1, <1>9 DEF GroupExpire, GroupCommandFails, Abort
  <1> QED
    BY <1>2, <1>4, <1>5, <1>6, <1>7, <1>8, <1>9 DEF Recording

\* The part of TaskInv about one recorder.
TaskOf(r) ==
    LET m == task[r].metric IN
    /\ m.ended <= now /\ now <= m.ended + 1
    /\ \/ task[r].step = "expire"
       \/ task[r].step = "sadd" /\ task[r].complete
       => (Day(m.ended) = Day(now) => m \in ToSet(zset[KeyOf(m)]))
    /\ task[r].step = "groupExpire" =>
           \E a \in m.ended .. now :
               DayOf(a) = task[r].day /\ Belongs(KeyOf(m), Day(a))

LEMMA TaskInvRecording ==
    ASSUME TypeOK, TaskInv, NEW r \in Recorder, Recording(r), straddled \subseteq straddled'
    PROVE  TaskInv'
  <1>1. /\ task' \in [Recorder -> Task \cup {Idle}] /\ now' = now /\ now \in Nat
        /\ \A q \in Recorder : q # r => task'[q] = task[q]
    BY TaskChange, NowType
  <1>2. \A k, n : Belongs(k, n) => Belongs(k, n)'
    BY DEF Belongs
  <1>3. ASSUME NEW q \in Recorder, q # r, task[q] # Idle
        PROVE  TaskOf(q)'
    <2>1. TaskOf(q) /\ task'[q] = task[q] /\ KeyOf(task[q].metric) \in Key
      BY <1>1, <1>3, TaskType DEF TaskInv, TaskOf
    <2>2. ToSet(zset[KeyOf(task[q].metric)]) \subseteq ToSet(zset'[KeyOf(task[q].metric)])
      BY <2>1, KeysGrow
    <2> QED
      BY <1>1, <1>2, <2>1, <2>2 DEF TaskOf
  <1>4. ASSUME task'[r] # Idle
        PROVE  TaskOf(r)'
    <2> DEFINE m == task[r].metric
               k == KeyOf(m)
    <2>1. CASE /\ task[r] = Idle
               /\ task'[r].step = "zadd" /\ task'[r].metric.ended = now
      BY <1>1, <2>1 DEF TaskOf
    <2>2. ASSUME task[r] # Idle
          PROVE  /\ m \in Metric /\ k \in Key /\ TaskOf(r)
                 /\ ToSet(zset[k]) \subseteq ToSet(zset'[k])
      BY <2>2, TaskType, KeysGrow DEF TaskInv, TaskOf
    <2>3. ASSUME task[r] # Idle, task'[r].metric = m, task'[r].step = "zadd"
          PROVE  TaskOf(r)'
      BY <1>1, <2>2, <2>3 DEF TaskOf
    <2>4. ASSUME task[r] # Idle, task'[r].metric = m, ZAdd(r), task'[r].step = "expire"
          PROVE  TaskOf(r)'
      <3>1. m \in ToSet(zset'[k])
        BY <2>2, <2>4, AddedFacts, TypedParts DEF ZAdd, KeysTyped
      <3> QED
        BY <1>1, <2>2, <2>4, <3>1 DEF TaskOf
    <2>5. ASSUME task[r] # Idle, task'[r].metric = m, task'[r].step = "sadd",
                 task[r].step = "expire" \/ ~task'[r].complete
          PROVE  TaskOf(r)'
      BY <1>1, <2>2, <2>5 DEF TaskOf
    <2>6. ASSUME task[r] # Idle, task'[r].metric = m, SAdd(r),
                 task'[r].step = "groupExpire", task'[r].day = DayOf(now)
          PROVE  TaskOf(r)'
      <3>1. m.ended \in Nat /\ m.ended <= now /\ now <= m.ended + 1
        BY <2>2, <2>6, KeyOfType DEF TaskOf
      <3>2. /\ Day(m.ended) \in Nat /\ Day(now) \in Nat
            /\ Day(m.ended) = Day(now) \/ Day(m.ended) + 1 = Day(now)
        BY <1>1, <3>1, LastMinute
      <3>3. k.day = Day(m.ended) % DaysPerMonth
        BY <2>2, <2>6, KeyOfType
      <3>4. Day(m.ended) = Day(now) \/ Day(m.ended) \in straddled'
        BY <2>6 DEF SAdd, Straddles
      <3>5. \/ k.day = Day(now) % DaysPerMonth
            \/ \E y \in straddled' : y + 1 = Day(now) /\ k.day = y % DaysPerMonth
        BY <3>2, <3>3, <3>4
      <3>6. now \in m.ended .. now
        BY <1>1, <3>1
      <3> QED
        BY <1>1, <2>6, <3>1, <3>5, <3>6 DEF TaskOf, Belongs
    <2> QED
      BY <1>4, <2>1, <2>3, <2>4, <2>5, <2>6, OwnTask
  <1> QED
    BY <1>1, <1>3, <1>4 DEF TaskInv, TaskOf

LEMMA KeyInvRecording ==
    ASSUME TypeOK, TaskInv, KeyInv, NEW r \in Recorder, Recording(r)
    PROVE  KeyInv'
  <1>1. now' = now
    BY TaskChange
  <1>2. CASE zset' = zset
    BY <1>1, <1>2 DEF KeyInv
  <1>3. ASSUME Writing(r), zset' = Added(task[r].metric)
        PROVE  KeyInv'
    <2> DEFINE m == task[r].metric
    <2>1. m \in Metric /\ KeyOf(m) \in Key /\ m.ended <= now
      BY <1>3, TaskType DEF Writing, TaskInv
    <2> HIDE DEF m
    <2>2. zset' = Added(m) /\ zset \in [Key -> Seq(Metric)]
      BY <1>3 DEF TypeOK, m
    <2>3. ASSUME NEW k \in Key
          PROVE  /\ \A x \in ToSet(zset'[k]) : KeyOf(x) = k /\ x.ended <= now
                 /\ \A i, j \in DOMAIN zset'[k] : zset'[k][i] = zset'[k][j] => i = j
      <3>1. CASE k # KeyOf(m)
        <4>1. zset'[k] = zset[k]
          BY <2>1, <2>2, <3>1, AddedFacts
        <4> QED
          BY <4>1 DEF KeyInv
      <3>2. CASE k = KeyOf(m)
        <4>1. \A x \in ToSet(zset[k]) : KeyOf(x) = k /\ x.ended <= now
          BY DEF KeyInv
        <4>2. \A i, j \in DOMAIN zset[k] : zset[k][i] = zset[k][j] => i = j
          BY DEF KeyInv
        <4>3. ToSet(zset'[k]) = ToSet(zset[k]) \cup {m}
          BY <2>1, <2>2, <3>2, AddedFacts
        <4>4. \A i, j \in DOMAIN zset'[k] : zset'[k][i] = zset'[k][j] => i = j
          BY <2>1, <2>2, <3>2, <4>2, AddedFacts
        <4> QED
          BY <2>1, <3>2, <4>1, <4>3, <4>4
      <3> QED
        BY <3>1, <3>2
    <2> QED
      BY <1>1, <2>3 DEF KeyInv
  <1> QED
    BY <1>2, <1>3, KeyChange

\* A key that was not left without a TTL has no metric older than yesterday.
LEMMA AgeOfKey ==
    ASSUME TypeOK, TaskInv, KeyInv, KeyExpiryInv,
           NEW k \in Key, k \notin missed, NEW x \in ToSet(zset[k])
    PROVE  /\ x \in Metric /\ KeyOf(x) = k /\ Day(x.ended) \in Nat
           /\ Day(x.ended) <= Day(now) /\ Day(now) <= Day(x.ended) + 1
  <1>1. zset[k] \in Seq(Metric) /\ expiry[k] \in Nat /\ now \in Nat
    BY NowType DEF TypeOK
  <1>2. x \in Metric
    BY <1>1 DEF ToSet
  <1>3. KeyOf(x) = k /\ x.ended <= now /\ x.ended \in Nat /\ Day(x.ended) \in Nat
    BY <1>2, KeyOfType DEF KeyInv
  <1>4. Day(x.ended) <= Day(now)
    BY <1>1, <1>3, DayOrder
  <1>5. CASE expiry[k] = 0
    <2>1. PICK r \in Recorder : Writing(r) /\ task[r].metric = x
      BY <1>5 DEF KeyExpiryInv
    <2>2. now <= x.ended + 1
      BY <2>1 DEF TaskInv, Writing
    <2> QED
      BY <1>1, <1>2, <1>3, <2>2, LastMinute
  <1>6. CASE expiry[k] # 0
    <2>1. expiry[k] <= (Day(x.ended) + 2) * TTL
      BY <1>6 DEF KeyExpiryInv
    <2>2. now < expiry[k]
      BY <1>6 DEF TypeOK
    <2>3. Day(x.ended) + 1 \in Nat /\ (Day(x.ended) + 1) + 1 = Day(x.ended) + 2
      BY <1>3
    <2>4. (Day(x.ended) + 2) * TTL \in Nat
      BY <1>3, BoundAssumption DEF TTL
    <2> HIDE DEF TTL
    <2>5. now < ((Day(x.ended) + 1) + 1) * TTL
      BY <1>1, <2>1, <2>2, <2>3, <2>4
    <2>6. Day(now) <= Day(x.ended) + 1
      BY <1>1, <2>3, <2>5, DayBefore
    <2> QED
      BY <1>2, <1>3, <1>4, <2>6
  <1> QED
    BY <1>5, <1>6

\* Only a recorder that has given its key a TTL, or missed to, leaves it.
LEMMA Leaving ==
    ASSUME TypeOK, NEW r \in Recorder, Recording(r), Writing(r)
    PROVE  LET k == KeyOf(task[r].metric) IN
           \/ Writing(r)' /\ task'[r].metric = task[r].metric
           \/ zset'[k] = <<>> \/ expiry'[k] # 0 \/ k \in missed'
  <1> DEFINE k == KeyOf(task[r].metric)
  <1>1. task \in [Recorder -> Task \cup {Idle}] /\ task[r] \in Task /\ k \in Key
    BY TaskType DEF TypeOK, Writing
  <1>2. CASE ZAdd(r)
    <2>1. task' = [task EXCEPT ![r].step = "expire"]
      BY <1>2 DEF ZAdd, GoTo
    <2>2. task'[r] \in Task /\ task'[r].step = "expire" /\ task'[r].metric = task[r].metric
      BY <1>1, <2>1 DEF Task
    <2> QED
      BY <2>2, IdleAssumption DEF Writing
  <1>3. CASE ZAddAgain(r)
    BY <1>3 DEF ZAddAgain, Writing
  <1>4. CASE Expire(r)
    <2>1. expiry' = Expiring(k) /\ zset' = zset
      BY <1>4 DEF Expire
    <2>2. zset'[k] = <<>> \/ expiry'[k] = now + TTL
      BY <1>1, <2>1, ExpiringFacts
    <2> QED
      BY <2>2, NowType
  <1>5. CASE KeyCommandFails(r) \/ Abort(r)
    BY <1>5 DEF KeyCommandFails, Abort, MissKey
  <1>6. ~(SAdd(r) \/ GroupExpire(r) \/ GroupCommandFails(r) \/ \E s \in Subject : Record(r, s))
    BY DEF Writing, SAdd, GroupExpire, GroupCommandFails, Record, At
  <1> QED
    BY <1>2, <1>3, <1>4, <1>5, <1>6 DEF Recording

LEMMA KeyExpiryRecording ==
    ASSUME TypeOK, TaskInv, KeyInv, KeyExpiryInv, NEW r \in Recorder, Recording(r),
           missed \subseteq missed'
    PROVE  KeyExpiryInv'
  <1>1. /\ task' \in [Recorder -> Task \cup {Idle}] /\ now' = now /\ now \in Nat
        /\ \A q \in Recorder : q # r => task'[q] = task[q]
        /\ zset \in [Key -> Seq(Metric)] /\ expiry \in [Key -> Nat]
    BY TaskChange, NowType DEF TypeOK
  <1>3. ASSUME NEW k \in Key, k \notin missed', NEW x \in ToSet(zset[k]),
               expiry[k] = 0, expiry'[k] = 0
        PROVE  \E q \in Recorder : Writing(q)' /\ task'[q].metric = x
    <2>1. PICK q \in Recorder : Writing(q) /\ task[q].metric = x
      BY <1>3 DEF KeyExpiryInv
    <2>2. CASE q # r
      BY <1>1, <2>1, <2>2 DEF Writing
    <2>3. CASE q = r
      <3>1. KeyOf(x) = k /\ x \in ToSet(zset'[k])
        BY <1>3, KeysGrow DEF KeyInv
      <3>2. zset'[k] # <<>>
        BY <3>1 DEF ToSet
      <3>3. Writing(r) /\ task[r].metric = x
        BY <2>1, <2>3
      <3>4. \/ Writing(r)' /\ task'[r].metric = x
            \/ zset'[k] = <<>> \/ expiry'[k] # 0 \/ k \in missed'
        BY <3>1, <3>3, Leaving
      <3> QED
        BY <1>3, <3>2, <3>4
    <2> QED
      BY <2>2, <2>3
  <1>4. ASSUME NEW k \in Key, zset'[k] = zset[k], expiry'[k] = expiry[k]
        PROVE  /\ expiry'[k] <= now + TTL
               /\ expiry'[k] # 0 => SetOn(k.day, expiry'[k])
               /\ k \notin missed' => \A x \in ToSet(zset'[k]) :
                      IF expiry'[k] = 0
                      THEN \E q \in Recorder : Writing(q)' /\ task'[q].metric = x
                      ELSE expiry'[k] <= (Day(x.ended) + 2) * TTL
    <2>1. expiry'[k] <= now + TTL /\ (expiry'[k] # 0 => SetOn(k.day, expiry'[k]))
      BY <1>4 DEF KeyExpiryInv
    <2>2. ASSUME k \notin missed', NEW x \in ToSet(zset'[k])
          PROVE  IF expiry'[k] = 0
                 THEN \E q \in Recorder : Writing(q)' /\ task'[q].metric = x
                 ELSE expiry'[k] <= (Day(x.ended) + 2) * TTL
      <3>1. CASE expiry'[k] = 0
        BY <1>3, <1>4, <2>2, <3>1
      <3>2. CASE expiry'[k] # 0
        BY <1>4, <2>2, <3>2 DEF KeyExpiryInv
      <3> QED
        BY <3>1, <3>2
    <2> QED
      BY <2>1, <2>2
  <1> DEFINE m == task[r].metric
             k0 == KeyOf(m)
  <1>5. ASSUME Writing(r)
        PROVE  /\ m \in Metric /\ k0 \in Key /\ m.ended \in Nat /\ Day(m.ended) \in Nat
               /\ m.ended <= now /\ now <= m.ended + 1
               /\ k0.day = DayOf(m.ended) /\ k0.day = Day(m.ended) % DaysPerMonth
               /\ now + TTL <= (Day(m.ended) + 2) * TTL
    <2>1. m \in Metric /\ m.ended <= now /\ now <= m.ended + 1
      BY <1>5, TaskType DEF Writing, TaskInv
    <2>2. k0 \in Key /\ m.ended \in Nat /\ Day(m.ended) \in Nat
      BY <2>1, KeyOfType
    <2>3. k0.day = DayOf(m.ended) /\ k0.day = Day(m.ended) % DaysPerMonth
      BY <2>1, KeyOfType DEF DayOf
    <2>4. now + TTL <= (Day(m.ended) + 2) * TTL
      BY <1>1, <2>1, <2>2, Deadline
    <2> QED
      BY <2>1, <2>2, <2>3, <2>4
  <1> DEFINE Good(k) ==
                 /\ expiry'[k] <= now + TTL
                 /\ expiry'[k] # 0 => SetOn(k.day, expiry'[k])
                 /\ k \notin missed' => \A x \in ToSet(zset'[k]) :
                        IF expiry'[k] = 0
                        THEN \E q \in Recorder : Writing(q)' /\ task'[q].metric = x
                        ELSE expiry'[k] <= (Day(x.ended) + 2) * TTL
  <1>6. ASSUME Writing(r), zset' = Added(m), expiry' = expiry
        PROVE  \A k \in Key : Good(k)
    <2>1. /\ \A k \in Key : k # k0 => zset'[k] = zset[k]
          /\ ToSet(zset'[k0]) = ToSet(zset[k0]) \cup {m}
          /\ zset'[k0] # <<>>
      BY <1>1, <1>5, <1>6, AddedFacts
    <2>2. expiry'[k0] <= now + TTL /\ (expiry'[k0] # 0 => SetOn(k0.day, expiry'[k0]))
      BY <1>5, <1>6 DEF KeyExpiryInv
    <2>3. ASSUME k0 \notin missed', NEW x \in ToSet(zset'[k0])
          PROVE  IF expiry'[k0] = 0
                 THEN \E q \in Recorder : Writing(q)' /\ task'[q].metric = x
                 ELSE expiry'[k0] <= (Day(x.ended) + 2) * TTL
      <3>1. CASE expiry'[k0] = 0 /\ x \in ToSet(zset[k0])
        BY <1>3, <1>5, <1>6, <2>3, <3>1
      <3>2. CASE expiry'[k0] = 0 /\ x = m
        <4>1. Writing(r)' /\ task'[r].metric = m
          BY <1>6, <2>1, <2>3, <3>2, Leaving
        <4> QED
          BY <3>2, <4>1
      <3>3. CASE expiry'[k0] # 0 /\ x \in ToSet(zset[k0])
        BY <1>5, <1>6, <2>3, <3>3 DEF KeyExpiryInv
      <3>4. CASE expiry'[k0] # 0 /\ x = m
        <4>1. /\ expiry'[k0] \in Nat /\ expiry'[k0] <= now + TTL /\ now + TTL \in Nat
              /\ now + TTL <= (Day(m.ended) + 2) * TTL
              /\ (Day(m.ended) + 2) * TTL \in Nat
          BY <1>1, <1>5, <1>6, <2>2, NowType, BoundAssumption DEF TTL
        <4>2. expiry'[k0] <= (Day(m.ended) + 2) * TTL
          BY <4>1
        <4> QED
          BY <3>4, <4>2
      <3> QED
        BY <2>1, <2>3, <3>1, <3>2, <3>3, <3>4
    <2>4. Good(k0)
      BY <2>2, <2>3
    <2>5. \A k \in Key : k # k0 => Good(k)
      BY <1>4, <1>6, <2>1
    <2> QED
      BY <2>4, <2>5
  <1>7. ASSUME Writing(r), zset' = zset, expiry' = Expiring(k0)
        PROVE  \A k \in Key : Good(k)
    <2>1. /\ \A k \in Key : k # k0 => expiry'[k] = expiry[k]
          /\ expiry'[k0] = IF zset[k0] = <<>> THEN 0 ELSE now + TTL
      BY <1>5, <1>7, ExpiringFacts
    <2>2. expiry'[k0] <= now + TTL
      BY <2>1, NowType
    <2>3. expiry'[k0] # 0 => SetOn(k0.day, expiry'[k0])
      <3>1. SUFFICES ASSUME expiry'[k0] = now + TTL
                     PROVE  SetOn(k0.day, expiry'[k0])
        BY <2>1
      <3>2. /\ m.ended \in 0 .. now /\ DayOf(m.ended) = k0.day
            /\ m.ended + TTL <= expiry'[k0] /\ expiry'[k0] <= m.ended + 1 + TTL
        <4>1. m.ended \in Nat /\ m.ended <= now /\ now <= m.ended + 1 /\ TTL \in Nat
          BY <1>5, <1>7, BoundAssumption DEF TTL
        <4>2. DayOf(m.ended) = k0.day
          BY <1>5, <1>7
        <4> HIDE DEF m, k0
        <4> QED
          BY <1>1, <3>1, <4>1, <4>2
      <3> QED
        BY <3>2 DEF SetOn
    <2>4. ASSUME k0 \notin missed', NEW x \in ToSet(zset'[k0])
          PROVE  expiry'[k0] # 0 /\ expiry'[k0] <= (Day(x.ended) + 2) * TTL
      <3>1. expiry'[k0] = now + TTL /\ now + TTL # 0
        BY <1>7, <2>1, <2>4, NowType DEF ToSet
      <3>2. /\ KeyOf(x) = k0 /\ Day(x.ended) \in Nat /\ x \in Metric
            /\ Day(x.ended) <= Day(now) /\ Day(now) <= Day(x.ended) + 1
        BY <1>5, <1>7, <2>4, AgeOfKey
      <3>3. /\ Day(m.ended) <= Day(now) /\ Day(now) <= Day(m.ended) + 1 /\ Day(now) \in Nat
        BY <1>1, <1>5, <1>7, LastMinute
      <3>4. Day(x.ended) % DaysPerMonth = Day(m.ended) % DaysPerMonth
        BY <1>5, <1>7, <3>2, KeyOfType
      <3>5. Day(x.ended) = Day(m.ended)
        <4>1. Day(x.ended) <= Day(m.ended) + 2 /\ Day(m.ended) <= Day(x.ended) + 2
          BY <1>5, <1>7, <3>2, <3>3
        <4> QED
          BY <1>5, <1>7, <3>2, <3>4, <4>1, NearDays
      <3> QED
        BY <1>5, <1>7, <3>1, <3>5
    <2>5. Good(k0)
      BY <2>2, <2>3, <2>4
    <2>6. \A k \in Key : k # k0 => Good(k)
      BY <1>4, <1>7, <2>1
    <2> QED
      BY <2>5, <2>6
  <1>8. ASSUME UNCHANGED <<zset, expiry>>
        PROVE  \A k \in Key : Good(k)
    <2> TAKE k \in Key
    <2>1. zset'[k] = zset[k] /\ expiry'[k] = expiry[k]
      BY <1>8
    <2> QED
      BY <1>4, <2>1
  <1> HIDE DEF Good
  <1>9. \A k \in Key : Good(k)
    BY <1>6, <1>7, <1>8, KeyChange
  <1> QED
    BY <1>1, <1>9 DEF KeyExpiryInv, SetOn, Good

\* A group that was not left without a TTL is of today or of yesterday.
LEMMA AgeOfGroup ==
    ASSUME TypeOK, TaskInv, GroupInv, ~missedGroup,
           NEW d \in DayOfMonth, NEW k \in group[d]
    PROVE  \E n \in Nat : /\ n % DaysPerMonth = d
                          /\ Belongs(k, n)
                          /\ n <= Day(now) /\ Day(now) <= n + 1
  <1>1. now \in Nat /\ Day(now) \in Nat /\ groupExpiry[d] \in Nat
    BY NowType DEF TypeOK
  <1>2. CASE groupExpiry[d] = 0
    <2>1. PICK r \in Recorder :
              Grouping(r) /\ task[r].day = d /\ KeyOf(task[r].metric) = k
      BY <1>2 DEF GroupInv
    <2> DEFINE m == task[r].metric
    <2>2. m.ended <= now /\ now <= m.ended + 1
      BY <2>1 DEF TaskInv, Grouping, At
    <2>3. m.ended \in Nat
      BY <2>1, TaskType, KeyOfType DEF Grouping, At
    <2>4. PICK a \in m.ended .. now : DayOf(a) = d /\ Belongs(k, Day(a))
      BY <2>1 DEF TaskInv, Grouping, At
    <2> HIDE DEF m
    <2>5. a \in Nat /\ a <= now /\ now <= a + 1
      BY <1>1, <2>2, <2>3, <2>4
    <2>6. /\ Day(a) \in Nat /\ Day(a) % DaysPerMonth = d
          /\ Day(a) <= Day(now) /\ Day(now) <= Day(a) + 1
      BY <1>1, <2>4, <2>5, LastMinute DEF DayOf
    <2> QED
      BY <2>4, <2>6
  <1>3. CASE groupExpiry[d] # 0
    <2>1. PICK n \in 0 .. Day(now) :
              n % DaysPerMonth = d /\ Belongs(k, n) /\ groupExpiry[d] <= (n + 2) * TTL
      BY <1>3 DEF GroupInv
    <2>2. now < groupExpiry[d]
      BY <1>3 DEF TypeOK
    <2>3. n \in Nat /\ n + 1 \in Nat /\ (n + 1) + 1 = n + 2 /\ n <= Day(now)
      BY <1>1, <2>1
    <2>4. (n + 2) * TTL \in Nat
      BY <2>3, BoundAssumption DEF TTL
    <2>5. now < ((n + 1) + 1) * TTL
      BY <1>1, <2>1, <2>2, <2>3, <2>4
    <2>6. Day(now) <= n + 1
      BY <1>1, <2>3, <2>5, DayBefore
    <2> QED
      BY <2>1, <2>3, <2>6
  <1> QED
    BY <1>2, <1>3

\* A recorder that has put its key into a group stays until the group has a TTL,
\* or misses to give it one.
LEMMA LeavingGroup ==
    ASSUME TypeOK, NEW r \in Recorder, Recording(r), Grouping(r)
    PROVE  LET d == task[r].day IN
           group'[d] = {} \/ groupExpiry'[d] # 0 \/ missedGroup'
  <1> DEFINE d == task[r].day
  <1>1. d \in DayOfMonth
    BY TaskType DEF Grouping, At
  <1>2. CASE GroupExpire(r)
    <2>1. /\ group' = group
          /\ groupExpiry' = [groupExpiry EXCEPT ![d] = IF group[d] = {} THEN 0 ELSE now + TTL]
      BY <1>2 DEF GroupExpire
    <2>2. groupExpiry'[d] = IF group[d] = {} THEN 0 ELSE now + TTL
      BY <1>1, <2>1 DEF TypeOK
    <2> QED
      BY <2>1, <2>2, NowType
  <1>3. CASE GroupCommandFails(r)
    <2>1. MissGroup(d)
      BY <1>3 DEF GroupCommandFails, Grouping, At
    <2> QED
      BY <2>1 DEF MissGroup
  <1>4. CASE Abort(r)
    <2>1. MissGroup(d)
      BY <1>4 DEF Abort
    <2> QED
      BY <2>1 DEF MissGroup
  <1>5. ~(ZAdd(r) \/ ZAddAgain(r) \/ Expire(r) \/ KeyCommandFails(r) \/ SAdd(r)
          \/ \E s \in Subject : Record(r, s))
    BY DEF Grouping, ZAdd, ZAddAgain, Expire, KeyCommandFails, SAdd, Record, At
  <1> QED
    BY <1>2, <1>3, <1>4, <1>5 DEF Recording

LEMMA Joining ==
    ASSUME TypeOK, NEW r \in Recorder, Recording(r), At(r, "sadd"),
           group' = Grouped(task[r].metric), group' # group
    PROVE  LET d == DayOf(now) IN
           /\ Straddles(task[r].metric)
           /\ \/ Grouping(r)' /\ task'[r].metric = task[r].metric /\ task'[r].day = d
              \/ group'[d] = {} \/ groupExpiry'[d] # 0 \/ missedGroup'
  <1>1. task \in [Recorder -> Task \cup {Idle}] /\ task[r] \in Task
    BY DEF TypeOK, At
  <1>2. CASE SAdd(r)
    <2>1. /\ task' = [task EXCEPT ![r].step = "groupExpire", ![r].day = DayOf(now)]
          /\ Straddles(task[r].metric)
      BY <1>2 DEF SAdd
    <2>2. /\ task'[r] \in Task /\ task'[r].step = "groupExpire" /\ task'[r].day = DayOf(now)
          /\ task'[r].metric = task[r].metric
      BY <1>1, <2>1, NowType DEF Task
    <2> QED
      BY <2>1, <2>2, IdleAssumption DEF Grouping, At
  <1>3. CASE GroupCommandFails(r)
    <2>1. MissGroup(DayOf(now)) /\ Straddles(task[r].metric)
      BY <1>3 DEF GroupCommandFails, At
    <2> QED
      BY <2>1 DEF MissGroup
  <1>4. CASE Abort(r)
    BY <1>4 DEF Abort, redis
  <1>5. ~(ZAdd(r) \/ ZAddAgain(r) \/ Expire(r) \/ KeyCommandFails(r) \/ GroupExpire(r)
          \/ \E s \in Subject : Record(r, s))
    BY DEF ZAdd, ZAddAgain, Expire, KeyCommandFails, GroupExpire, Record, At
  <1> QED
    BY <1>2, <1>3, <1>4, <1>5 DEF Recording

LEMMA GroupInvRecording ==
    ASSUME TypeOK, TaskInv, GroupInv, NEW r \in Recorder, Recording(r),
           straddled \subseteq straddled', missedGroup => missedGroup'
    PROVE  GroupInv'
  <1>1. /\ task' \in [Recorder -> Task \cup {Idle}] /\ now' = now /\ now \in Nat
        /\ \A q \in Recorder : q # r => task'[q] = task[q]
        /\ group \in [DayOfMonth -> SUBSET Key] /\ groupExpiry \in [DayOfMonth -> Nat]
        /\ Day(now) \in Nat /\ DayOf(now) \in DayOfMonth
    BY TaskChange, NowType DEF TypeOK
  <1> DEFINE Has(k, n) ==
                 \/ k.day = n % DaysPerMonth
                 \/ \E y \in straddled' : y + 1 = n /\ k.day = y % DaysPerMonth
             Held(k, d) == \E q \in Recorder :
                               Grouping(q)' /\ task'[q].day = d /\ KeyOf(task'[q].metric) = k
             Timed(k, d) == \E n \in 0 .. Day(now) :
                               /\ n % DaysPerMonth = d
                               /\ Has(k, n)
                               /\ groupExpiry'[d] <= (n + 2) * TTL
             Bounded(d) == /\ groupExpiry'[d] <= now + TTL
                           /\ groupExpiry'[d] # 0 => SetOn(d, groupExpiry'[d])
             Own(d) == \A k \in group'[d] : k.day = d \/ (k.day + 1) % DaysPerMonth = d
             Kept(d) == ~missedGroup' => \A k \in group'[d] :
                            IF groupExpiry'[d] = 0 THEN Held(k, d) ELSE Timed(k, d)
  <1>2. \A k, n : Belongs(k, n) => Has(k, n)
    BY DEF Belongs
  <1> HIDE DEF Has
  <1>3. ASSUME NEW d \in DayOfMonth, NEW k \in group[d], k \in group'[d], ~missedGroup',
               groupExpiry[d] = 0, groupExpiry'[d] = 0
        PROVE  Held(k, d)
    <2>1. PICK q \in Recorder :
              Grouping(q) /\ task[q].day = d /\ KeyOf(task[q].metric) = k
      BY <1>3 DEF GroupInv
    <2>2. CASE q # r
      BY <1>1, <2>1, <2>2 DEF Grouping, At
    <2>3. CASE q = r
      BY <1>3, <2>1, <2>3, LeavingGroup
    <2> QED
      BY <2>2, <2>3
  <1>4. ASSUME NEW d \in DayOfMonth, NEW k \in group[d], ~missedGroup',
               groupExpiry[d] # 0, groupExpiry'[d] = groupExpiry[d]
        PROVE  Timed(k, d)
    BY <1>2, <1>4 DEF GroupInv
  <1> HIDE DEF Held, Timed
  <1>5. ASSUME NEW d \in DayOfMonth, group'[d] = group[d], groupExpiry'[d] = groupExpiry[d]
        PROVE  Bounded(d) /\ Own(d) /\ Kept(d)
    <2>1. Bounded(d) /\ Own(d)
      BY <1>5 DEF GroupInv
    <2>2. Kept(d)
      BY <1>3, <1>4, <1>5
    <2> QED
      BY <2>1, <2>2
  <1>6. CASE UNCHANGED <<group, groupExpiry>>
    <2> SUFFICES ASSUME NEW d \in DayOfMonth
                 PROVE  Bounded(d) /\ Own(d) /\ Kept(d)
      BY <1>1 DEF GroupInv, SetOn, Held, Timed, Has, Belongs
    <2>1. group'[d] = group[d] /\ groupExpiry'[d] = groupExpiry[d]
      BY <1>6
    <2> QED
      BY <1>5, <2>1
  <1>7. ASSUME At(r, "sadd"), group' = Grouped(task[r].metric), groupExpiry' = groupExpiry,
               group' # group
        PROVE  GroupInv'
    <2> DEFINE m == task[r].metric
               k0 == KeyOf(m)
               d0 == DayOf(now)
    <2>1. m \in Metric /\ m.ended <= now /\ now <= m.ended + 1
      BY <1>7, TaskType DEF At, TaskInv
    <2>2. /\ k0 \in Key /\ m.ended \in Nat /\ Day(m.ended) \in Nat
          /\ k0.day = Day(m.ended) % DaysPerMonth
      BY <2>1, KeyOfType
    <2>3. Day(m.ended) = Day(now) \/ Day(m.ended) + 1 = Day(now)
      <3>1. Day(m.ended) <= Day(now) /\ Day(now) <= Day(m.ended) + 1
        BY <1>1, <2>1, <2>2, LastMinute
      <3> HIDE DEF m
      <3> QED
        BY <1>1, <2>2, <3>1
    <2>4. /\ group'[d0] = group[d0] \cup {k0}
          /\ \A d \in DayOfMonth : d # d0 => group'[d] = group[d]
      BY <1>1, <1>7 DEF Grouped
    <2>5. Day(m.ended) = Day(now) \/ Day(m.ended) \in straddled'
      BY <1>7, Joining DEF Straddles
    <2>6. d0 = Day(now) % DaysPerMonth
      BY DEF DayOf
    <2>7. Has(k0, Day(now))
      BY <2>2, <2>3, <2>5 DEF Has
    <2>8. k0.day = d0 \/ (k0.day + 1) % DaysPerMonth = d0
      <3>1. k0.day \in DayOfMonth
        BY <2>2 DEF Key
      <3> QED
        BY <2>2, <2>3, <2>6, <3>1, FollowingDayOfMonth
    <2>9. Bounded(d0)
      BY <1>1, <1>7 DEF GroupInv
    <2>10. Own(d0)
      BY <1>1, <2>4, <2>8 DEF GroupInv
    <2>11. ASSUME ~missedGroup', NEW k \in group'[d0]
           PROVE  IF groupExpiry'[d0] = 0 THEN Held(k, d0) ELSE Timed(k, d0)
      <3>1. CASE groupExpiry'[d0] = 0 /\ k \in group[d0]
        BY <1>1, <1>3, <1>7, <2>11, <3>1
      <3>2. CASE groupExpiry'[d0] = 0 /\ k = k0
        <4>1. Grouping(r)' /\ task'[r].metric = m /\ task'[r].day = d0
          BY <1>7, <2>11, <3>2, Joining
        <4> QED
          BY <3>2, <4>1 DEF Held
      <3>3. CASE groupExpiry'[d0] # 0 /\ k \in group[d0]
        BY <1>1, <1>4, <1>7, <2>11, <3>3
      <3>4. CASE groupExpiry'[d0] # 0 /\ k = k0
        <4>1. groupExpiry'[d0] \in Nat /\ groupExpiry'[d0] <= now + TTL /\ now + TTL \in Nat
          BY <1>1, <1>7, <2>9, NowType
        <4>2. now + TTL <= (Day(now) + 2) * TTL /\ (Day(now) + 2) * TTL \in Nat
          <5>1. now + TTL <= (Day(now) + 2) * TTL
            BY <1>1, Deadline
          <5>2. (Day(now) + 2) * TTL \in Nat
            BY <1>1, BoundAssumption DEF TTL
          <5> QED
            BY <5>1, <5>2
        <4>3. groupExpiry'[d0] <= (Day(now) + 2) * TTL
          BY <4>1, <4>2
        <4>4. Day(now) \in 0 .. Day(now)
          BY <1>1
        <4> QED
          BY <2>6, <2>7, <3>4, <4>3, <4>4 DEF Timed
      <3> QED
        BY <2>4, <2>11, <3>1, <3>2, <3>3, <3>4
    <2>12. \A d \in DayOfMonth : d # d0 => Bounded(d) /\ Own(d) /\ Kept(d)
      <3> SUFFICES ASSUME NEW d \in DayOfMonth, d # d0
                   PROVE  Bounded(d) /\ Own(d) /\ Kept(d)
        OBVIOUS
      <3>1. group'[d] = group[d] /\ groupExpiry'[d] = groupExpiry[d]
        BY <1>7, <2>4
      <3> QED
        BY <1>5, <3>1
    <2>13. \A d \in DayOfMonth : Bounded(d) /\ Own(d) /\ Kept(d)
      BY <2>9, <2>10, <2>11, <2>12
    <2> QED
      BY <1>1, <2>13 DEF GroupInv, SetOn, Held, Timed, Has, Belongs
  <1>8. ASSUME At(r, "groupExpire"), group' = group,
               groupExpiry' = [groupExpiry EXCEPT ![task[r].day] =
                                   IF group[task[r].day] = {} THEN 0 ELSE now + TTL]
        PROVE  GroupInv'
    <2> DEFINE m == task[r].metric
               d0 == task[r].day
    <2>1. m \in Metric /\ d0 \in DayOfMonth /\ m.ended <= now /\ now <= m.ended + 1
      BY <1>8, TaskType DEF At, TaskInv
    <2>2. m.ended \in Nat
      BY <2>1, KeyOfType
    <2>3. PICK a \in m.ended .. now : DayOf(a) = d0
      BY <1>8 DEF At, TaskInv
    <2> HIDE DEF m
    <2>4. a \in Nat /\ a <= now /\ now <= a + 1
      BY <1>1, <2>1, <2>2, <2>3
    <2>5. /\ Day(a) \in Nat /\ Day(a) % DaysPerMonth = d0
          /\ Day(a) <= Day(now) /\ Day(now) <= Day(a) + 1
      BY <1>1, <2>3, <2>4, LastMinute DEF DayOf
    <2>6. /\ groupExpiry'[d0] = IF group[d0] = {} THEN 0 ELSE now + TTL
          /\ \A d \in DayOfMonth : d # d0 => groupExpiry'[d] = groupExpiry[d]
      BY <1>1, <1>8, <2>1
    <2>7. now + TTL <= (Day(a) + 2) * TTL
      BY <1>1, <2>4, Deadline
    <2>8. Bounded(d0)
      <3>1. groupExpiry'[d0] <= now + TTL
        BY <2>6, NowType
      <3>2. TTL \in Nat /\ a \in 0 .. now
        BY <1>1, <2>4, BoundAssumption DEF TTL
      <3>3. a + TTL <= now + TTL /\ now + TTL <= a + 1 + TTL
        BY <1>1, <2>4, <3>2
      <3>4. SetOn(d0, now + TTL)
        BY <2>3, <3>2, <3>3 DEF SetOn
      <3> QED
        BY <2>6, <3>1, <3>4
    <2>9. Own(d0)
      BY <1>8, <2>1 DEF GroupInv
    <2>10. ASSUME ~missedGroup', NEW k \in group'[d0]
           PROVE  groupExpiry'[d0] # 0 /\ Timed(k, d0)
      <3>1. groupExpiry'[d0] = now + TTL /\ now + TTL # 0
        BY <1>8, <2>6, <2>10, NowType
      <3>2. PICK n \in Nat : /\ n % DaysPerMonth = d0
                             /\ Belongs(k, n)
                             /\ n <= Day(now) /\ Day(now) <= n + 1
        BY <1>8, <2>1, <2>10, AgeOfGroup
      <3>3. n = Day(a)
        <4>1. n <= Day(a) + 2 /\ Day(a) <= n + 2
          BY <1>1, <2>5, <3>2
        <4> QED
          BY <2>5, <3>2, <4>1, NearDays
      <3>4. n \in 0 .. Day(now) /\ Has(k, n)
        BY <1>1, <1>2, <3>2
      <3> QED
        BY <2>7, <3>1, <3>2, <3>3, <3>4 DEF Timed
    <2>11. \A d \in DayOfMonth : d # d0 => Bounded(d) /\ Own(d) /\ Kept(d)
      <3> SUFFICES ASSUME NEW d \in DayOfMonth, d # d0
                   PROVE  Bounded(d) /\ Own(d) /\ Kept(d)
        OBVIOUS
      <3>1. group'[d] = group[d] /\ groupExpiry'[d] = groupExpiry[d]
        BY <1>8, <2>6
      <3> QED
        BY <1>5, <3>1
    <2>12. \A d \in DayOfMonth : Bounded(d) /\ Own(d) /\ Kept(d)
      BY <2>8, <2>9, <2>10, <2>11
    <2> QED
      BY <1>1, <2>12 DEF GroupInv, SetOn, Held, Timed, Has, Belongs
  <1> QED
    BY <1>6, <1>7, <1>8, GroupChange

LEMMA TodayInvRecording ==
    ASSUME TypeOK, TaskInv, TodayInv, NEW r \in Recorder, Recording(r)
    PROVE  TodayInv'
  <1>1. now' = now /\ DayOf(now) \in DayOfMonth /\ group \in [DayOfMonth -> SUBSET Key]
    BY TaskChange, NowType DEF TypeOK
  <1>2. \A d \in DayOfMonth : group[d] \subseteq group'[d]
    BY <1>1, GroupChange DEF Grouped
  <1>3. ASSUME NEW m \in today
        PROVE  /\ Day(m.ended) = Day(now)
               /\ m \in ToSet(zset'[KeyOf(m)])
               /\ KeyOf(m) \in group'[DayOf(now)]
    <2>1. KeyOf(m) \in Key
      BY KeyOfType DEF TypeOK
    <2> QED
      BY <1>1, <1>2, <2>1, KeysGrow DEF TodayInv
  <1>4. ASSUME today' # today
        PROVE  LET m == task[r].metric IN
               /\ today' = today \cup {m}
               /\ Day(m.ended) = Day(now)
               /\ m \in ToSet(zset'[KeyOf(m)])
               /\ KeyOf(m) \in group'[DayOf(now)]
    <2> DEFINE m == task[r].metric
    <2>1. SAdd(r)
      BY <1>4 DEF Recording, Record, ZAdd, ZAddAgain, Expire, KeyCommandFails, GroupExpire,
         GroupCommandFails, Abort, history
    <2>2. /\ task[r] # Idle /\ task[r].step = "sadd" /\ task[r].complete
          /\ today' = today \cup {m} /\ Day(m.ended) = Day(now)
          /\ zset' = zset /\ group' = Grouped(m)
      BY <1>4, <2>1 DEF SAdd, At
    <2>3. m \in ToSet(zset[KeyOf(m)])
      BY <2>2 DEF TaskInv
    <2>4. KeyOf(m) \in group'[DayOf(now)]
      BY <1>1, <2>2 DEF Grouped
    <2> QED
      BY <2>2, <2>3, <2>4
  <1> DEFINE Found(m) == /\ Day(m.ended) = Day(now)
                         /\ m \in ToSet(zset'[KeyOf(m)])
                         /\ KeyOf(m) \in group'[DayOf(now)]
  <1>5. \A m \in today' : Found(m)
    <2>1. \A m \in today : Found(m)
      BY <1>3
    <2>2. today' # today => today' = today \cup {task[r].metric} /\ Found(task[r].metric)
      BY <1>4
    <2> HIDE DEF Found
    <2> QED
      BY <2>1, <2>2
  <1> QED
    BY <1>1, <1>5 DEF TodayInv

\* The handler is not affected, and what it owes is still there.
LEMMA ReaderInvRecording ==
    ASSUME TypeOK, ReaderInv, NothingTwice, AnswersAreOfToday, NEW r \in Recorder, Recording(r),
           straddled \subseteq straddled', missed \subseteq missed',
           missedGroup => missedGroup'
    PROVE  ReaderInv' /\ NothingTwice' /\ AnswersAreOfToday'
  <1>1. now' = now /\ reader' = reader
    BY TaskChange
  <1>2. today \subseteq today'
    BY DEF Recording, Record, ZAdd, ZAddAgain, Expire, KeyCommandFails, SAdd, GroupExpire,
       GroupCommandFails, Abort, history
  <1>3. ReaderInv'
    BY <1>1, <1>2 DEF ReaderInv
  <1>4. NothingTwice'
    BY <1>1 DEF NothingTwice
  <1>5. AnswersAreOfToday'
    BY <1>1 DEF AnswersAreOfToday
  <1> QED
    BY <1>3, <1>4, <1>5

-----------------------------------------------------------------------------
(* The clock *)

\* What got its TTL on a day of the month does not expire on such a day.
LEMMA NotToday ==
    ASSUME now \in Nat, SetOn(DayOf(now), now + 1)
    PROVE  Day(now + 1) # Day(now)
  <1>1. PICK e \in 0 .. now : /\ DayOf(e) = DayOf(now)
                              /\ e + TTL <= now + 1 /\ now + 1 <= e + 1 + TTL
    BY DEF SetOn
  <1>2. e \in Nat /\ e + 1 \in Nat /\ TTL \in Nat
    BY BoundAssumption DEF TTL
  <1>3. /\ Day(e) \in Nat /\ Day(e + 1) \in Nat /\ Day(e + 1) <= Day(e) + 1
        /\ Day(now) \in Nat
    BY <1>2, DayBounds, DayOfNextMinute
  <1>4. Day(e) + 1 <= Day(now + 1)
    <2>1. Day(e + TTL) = Day(e) + 1 /\ e + TTL \in Nat /\ now + 1 \in Nat
      BY <1>2, DayAfterTTL
    <2> QED
      BY <1>1, <2>1, DayOrder
  <1>5. Day(now + 1) <= Day(e) + 2
    <2>1. Day((e + 1) + TTL) = Day(e + 1) + 1 /\ (e + 1) + TTL \in Nat /\ now + 1 \in Nat
      BY <1>2, DayAfterTTL
    <2>2. Day(now + 1) <= Day((e + 1) + TTL)
      BY <1>1, <2>1, DayOrder
    <2>3. Day(now + 1) \in Nat
      BY <2>1, DayBounds
    <2> QED
      BY <1>3, <2>1, <2>2, <2>3
  <1>6. SUFFICES ASSUME Day(now + 1) = Day(now)
                 PROVE  FALSE
    OBVIOUS
  <1>7. Day(e) % DaysPerMonth = Day(now) % DaysPerMonth
    BY <1>1 DEF DayOf
  <1>8. Day(e) + 1 <= Day(now) /\ Day(now) <= Day(e) + 2
    BY <1>4, <1>5, <1>6
  <1>9. Day(e) = Day(now)
    BY <1>3, <1>7, <1>8, NearDays
  <1> QED
    BY <1>3, <1>8, <1>9

\* The keys of the day, and its group, stay as long as the day lasts.
LEMMA TodayStays ==
    ASSUME TypeOK, KeyExpiryInv, GroupInv, Tick, Day(now + 1) = Day(now)
    PROVE  /\ \A k \in Key : k.day = DayOf(now) => zset'[k] = zset[k]
           /\ group'[DayOf(now)] = group[DayOf(now)]
           /\ DayOf(now + 1) = DayOf(now)
  <1>1. now \in Nat /\ now + 1 # 0 /\ DayOf(now) \in DayOfMonth
    BY NowType
  <1>2. ASSUME NEW k \in Key, k.day = DayOf(now)
        PROVE  zset'[k] = zset[k]
    <2>1. expiry[k] # now + 1
      BY <1>1, <1>2, NotToday DEF KeyExpiryInv
    <2> QED
      BY <2>1 DEF Tick
  <1>3. groupExpiry[DayOf(now)] # now + 1
    BY <1>1, NotToday DEF GroupInv
  <1> QED
    BY <1>1, <1>2, <1>3 DEF Tick, DayOf

LEMMA ClockTick ==
    ASSUME TypeOK, Tick
    PROVE  /\ now \in Nat /\ now' = now + 1 /\ Day(now) \in Nat /\ Day(now + 1) \in Nat
           /\ Day(now) <= Day(now + 1)
           /\ task' = task /\ reader' = reader /\ straddled' = straddled
           /\ missed' = missed /\ missedGroup' = missedGroup
  <1>1. now \in Nat /\ now + 1 \in Nat
    BY NowType
  <1> QED
    BY <1>1, DayBounds, DayOfNextMinute DEF Tick

LEMMA TaskInvTick ==
    ASSUME TypeOK, TaskInv, KeyExpiryInv, GroupInv, Tick
    PROVE  TaskInv'
  <1>1. /\ now \in Nat /\ now' = now + 1 /\ task' = task /\ straddled' = straddled
    BY ClockTick
  <1>2. ASSUME NEW r \in Recorder, task[r] # Idle
        PROVE  TaskOf(r)'
    <2> DEFINE m == task[r].metric
               k == KeyOf(m)
    <2>1. m.ended = now /\ m \in Metric /\ TaskOf(r)
      BY <1>2, TaskType DEF Tick, TaskInv, TaskOf
    <2>2. m.ended <= now' /\ now' <= m.ended + 1
      BY <1>1, <2>1
    <2>3. ASSUME \/ task[r].step = "expire"
                 \/ task[r].step = "sadd" /\ task[r].complete,
                 Day(m.ended) = Day(now')
          PROVE  m \in ToSet(zset'[k])
      <3>1. m \in ToSet(zset[k])
        BY <2>1, <2>3 DEF TaskOf
      <3>2. Day(now + 1) = Day(now)
        BY <1>1, <2>1, <2>3
      <3>3. k \in Key /\ k.day = DayOf(now)
        BY <2>1, KeyOfType DEF DayOf
      <3> QED
        BY <3>1, <3>2, <3>3, TodayStays
    <2>4. task[r].step = "groupExpire" =>
              \E a \in m.ended .. now' : DayOf(a) = task[r].day /\ Belongs(k, Day(a))
      BY <1>1, <2>1 DEF TaskOf
    <2> QED
      BY <1>1, <2>2, <2>3, <2>4 DEF TaskOf, Belongs
  <1> QED
    BY <1>1, <1>2 DEF TaskInv, TaskOf

LEMMA KeysTick ==
    ASSUME TypeOK, KeyInv, KeyExpiryInv, Tick
    PROVE  KeyInv' /\ KeyExpiryInv'
  <1>1. /\ now \in Nat /\ now' = now + 1 /\ task' = task /\ missed' = missed
    BY ClockTick
  <1>2. ASSUME NEW k \in Key
        PROVE  \/ zset'[k] = <<>> /\ expiry'[k] = 0
               \/ zset'[k] = zset[k] /\ expiry'[k] = expiry[k]
    BY DEF Tick
  <1>3. TTL \in Nat /\ \A k \in Key : expiry[k] \in Nat
    BY BoundAssumption DEF TTL, TypeOK
  <1>4. ToSet(<<>>) = {} /\ DOMAIN <<>> = {}
    BY DEF ToSet
  <1>5. ASSUME NEW k \in Key
        PROVE  /\ \A x \in ToSet(zset'[k]) : KeyOf(x) = k /\ x.ended <= now'
               /\ \A i, j \in DOMAIN zset'[k] : zset'[k][i] = zset'[k][j] => i = j
    <2>1. CASE zset'[k] = <<>>
      BY <1>4, <2>1
    <2>2. CASE zset'[k] = zset[k]
      <3>1. \A x \in ToSet(zset[k]) : x \in Metric
        BY DEF TypeOK, ToSet
      <3>2. \A x \in ToSet(zset[k]) : x.ended \in Nat
        BY <3>1, KeyOfType
      <3>3. \A x \in ToSet(zset[k]) : KeyOf(x) = k /\ x.ended <= now'
        BY <1>1, <3>2 DEF KeyInv
      <3> QED
        BY <2>2, <3>3 DEF KeyInv
    <2> QED
      BY <1>2, <2>1, <2>2
  <1>6. \A d, t : SetOn(d, t) => \E e \in 0 .. now + 1 :
            DayOf(e) = d /\ e + TTL <= t /\ t <= e + 1 + TTL
    BY <1>1 DEF SetOn
  <1>7. ASSUME NEW k \in Key
        PROVE  /\ expiry'[k] <= now + 1 + TTL
               /\ expiry'[k] # 0 => \E e \in 0 .. now + 1 :
                      DayOf(e) = k.day /\ e + TTL <= expiry'[k] /\ expiry'[k] <= e + 1 + TTL
               /\ k \notin missed => \A x \in ToSet(zset'[k]) :
                      IF expiry'[k] = 0
                      THEN \E r \in Recorder : Writing(r) /\ task[r].metric = x
                      ELSE expiry'[k] <= (Day(x.ended) + 2) * TTL
    <2>1. CASE zset'[k] = <<>> /\ expiry'[k] = 0
      BY <1>1, <1>3, <1>4, <2>1
    <2>2. CASE zset'[k] = zset[k] /\ expiry'[k] = expiry[k]
      <3>1. expiry[k] <= now + TTL /\ expiry[k] \in Nat
        BY <1>3 DEF KeyExpiryInv
      <3>2. expiry[k] <= now + 1 + TTL
        BY <1>1, <1>3, <3>1
      <3> QED
        BY <1>6, <2>2, <3>2 DEF KeyExpiryInv
    <2> QED
      BY <1>2, <2>1, <2>2
  <1>8. KeyInv'
    BY <1>5 DEF KeyInv
  <1>9. KeyExpiryInv'
    BY <1>1, <1>7 DEF KeyExpiryInv, SetOn, Writing
  <1> QED
    BY <1>8, <1>9

LEMMA GroupsTick ==
    ASSUME TypeOK, GroupInv, Tick
    PROVE  GroupInv'
  <1>1. /\ now \in Nat /\ now' = now + 1 /\ task' = task /\ missedGroup' = missedGroup
        /\ straddled' = straddled
        /\ Day(now) \in Nat /\ Day(now + 1) \in Nat /\ Day(now) <= Day(now + 1)
    BY ClockTick
  <1>2. ASSUME NEW d \in DayOfMonth
        PROVE  \/ group'[d] = {} /\ groupExpiry'[d] = 0
               \/ group'[d] = group[d] /\ groupExpiry'[d] = groupExpiry[d]
    BY DEF Tick
  <1>3. TTL \in Nat /\ \A d \in DayOfMonth : groupExpiry[d] \in Nat
    BY BoundAssumption DEF TTL, TypeOK
  <1>4. \A d, t : SetOn(d, t) => \E e \in 0 .. now + 1 :
            DayOf(e) = d /\ e + TTL <= t /\ t <= e + 1 + TTL
    BY <1>1 DEF SetOn
  <1>5. \A n \in 0 .. Day(now) : n \in 0 .. Day(now + 1)
    BY <1>1
  <1>6. ASSUME NEW d \in DayOfMonth
        PROVE  /\ groupExpiry'[d] <= now + 1 + TTL
               /\ groupExpiry'[d] # 0 => \E e \in 0 .. now + 1 :
                      /\ DayOf(e) = d
                      /\ e + TTL <= groupExpiry'[d] /\ groupExpiry'[d] <= e + 1 + TTL
               /\ \A k \in group'[d] : k.day = d \/ (k.day + 1) % DaysPerMonth = d
               /\ ~missedGroup => \A k \in group'[d] :
                      IF groupExpiry'[d] = 0
                      THEN \E r \in Recorder :
                               Grouping(r) /\ task[r].day = d /\ KeyOf(task[r].metric) = k
                      ELSE \E n \in 0 .. Day(now + 1) :
                               /\ n % DaysPerMonth = d
                               /\ Belongs(k, n)
                               /\ groupExpiry'[d] <= (n + 2) * TTL
    <2>1. CASE group'[d] = {} /\ groupExpiry'[d] = 0
      BY <1>1, <1>3, <2>1
    <2>2. CASE group'[d] = group[d] /\ groupExpiry'[d] = groupExpiry[d]
      <3>1. groupExpiry[d] <= now + TTL /\ groupExpiry[d] \in Nat
        BY <1>3 DEF GroupInv
      <3>2. groupExpiry[d] <= now + 1 + TTL
        BY <1>1, <1>3, <3>1
      <3>3. ASSUME ~missedGroup, NEW k \in group[d], groupExpiry[d] # 0
            PROVE  \E n \in 0 .. Day(now + 1) :
                       /\ n % DaysPerMonth = d
                       /\ Belongs(k, n)
                       /\ groupExpiry[d] <= (n + 2) * TTL
        BY <1>5, <3>3 DEF GroupInv
      <3>4. ASSUME ~missedGroup, NEW k \in group[d], groupExpiry[d] = 0
            PROVE  \E r \in Recorder :
                       Grouping(r) /\ task[r].day = d /\ KeyOf(task[r].metric) = k
        BY <3>4 DEF GroupInv
      <3>5. /\ groupExpiry[d] # 0 => SetOn(d, groupExpiry[d])
            /\ \A k \in group[d] : k.day = d \/ (k.day + 1) % DaysPerMonth = d
        BY DEF GroupInv
      <3> QED
        BY <1>4, <2>2, <3>2, <3>3, <3>4, <3>5
    <2> QED
      BY <1>2, <2>1, <2>2
  <1> QED
    BY <1>1, <1>6 DEF GroupInv, SetOn, Grouping, At, Belongs

LEMMA TodayInvTick ==
    ASSUME TypeOK, KeyExpiryInv, GroupInv, TodayInv, Tick
    PROVE  TodayInv'
  <1>1. /\ now \in Nat /\ now' = now + 1
        /\ today' = IF Day(now + 1) = Day(now) THEN today ELSE {}
    BY ClockTick DEF Tick
  <1>2. CASE Day(now + 1) # Day(now)
    BY <1>1, <1>2 DEF TodayInv
  <1>3. CASE Day(now + 1) = Day(now)
    <2>1. /\ \A k \in Key : k.day = DayOf(now) => zset'[k] = zset[k]
          /\ group'[DayOf(now)] = group[DayOf(now)]
          /\ DayOf(now + 1) = DayOf(now)
      BY <1>3, TodayStays
    <2>2. ASSUME NEW m \in today
          PROVE  /\ Day(m.ended) = Day(now')
                 /\ m \in ToSet(zset'[KeyOf(m)])
                 /\ KeyOf(m) \in group'[DayOf(now')]
      <3>1. m \in Metric
        BY DEF TypeOK
      <3>2. KeyOf(m) \in Key /\ KeyOf(m).day = DayOf(now)
        BY <3>1, KeyOfType DEF TodayInv, DayOf
      <3>3. zset'[KeyOf(m)] = zset[KeyOf(m)]
        BY <2>1, <3>2
      <3> QED
        BY <1>1, <1>3, <2>1, <3>3 DEF TodayInv
    <2> QED
      BY <1>1, <1>3, <2>2 DEF TodayInv
  <1> QED
    BY <1>2, <1>3

LEMMA ReaderInvTick ==
    ASSUME TypeOK, ReaderInv, NothingTwice, AnswersAreOfToday, Tick
    PROVE  ReaderInv' /\ NothingTwice' /\ AnswersAreOfToday'
  <1>1. /\ now \in Nat /\ now' = now + 1 /\ reader' = reader /\ straddled' = straddled
        /\ missed' = missed /\ missedGroup' = missedGroup
        /\ Day(now) \in Nat /\ Day(now + 1) \in Nat /\ Day(now) <= Day(now + 1)
    BY ClockTick
  <1>2. NothingTwice' /\ AnswersAreOfToday'
    BY <1>1 DEF NothingTwice, AnswersAreOfToday
  <1>3. ASSUME reader # Idle
        PROVE  /\ now' <= reader.began + 1
               /\ Day(now') = Day(reader.began) => today' = today /\ Day(now) = Day(reader.began)
    <2>1. reader.began = now
      BY <1>3 DEF Tick
    <2> QED
      BY <1>1, <2>1 DEF Tick
  <1>4. ReaderInv'
    BY <1>1, <1>3 DEF ReaderInv
  <1> QED
    BY <1>2, <1>4

-----------------------------------------------------------------------------
(* The handler of the insights *)

LEMMA ReadersOnlyRead ==
    ASSUME Reading
    PROVE  UNCHANGED <<now, count, redis, task, faults, history>>
  BY DEF Reading, StartRead, ReadKey, EndRead

LEMMA OthersReading ==
    ASSUME TaskInv, KeyInv, KeyExpiryInv, GroupInv, TodayInv,
           UNCHANGED <<now, count, redis, task, faults, history>>
    PROVE  TaskInv' /\ KeyInv' /\ KeyExpiryInv' /\ GroupInv' /\ TodayInv'
  <1>1. TaskInv'
    BY DEF TaskInv, Belongs, redis, history
  <1>2. KeyInv' /\ KeyExpiryInv'
    BY DEF KeyInv, KeyExpiryInv, SetOn, Writing, redis, history
  <1>3. GroupInv'
    BY DEF GroupInv, SetOn, Grouping, At, Belongs, redis, history
  <1>4. TodayInv'
    BY DEF TodayInv, redis, history
  <1> QED
    BY <1>1, <1>2, <1>3, <1>4

LEMMA ReaderStart ==
    ASSUME TypeOK, TaskInv, GroupInv, TodayInv, StartRead
    PROVE  ReaderInv' /\ NothingTwice' /\ AnswersAreOfToday'
  <1> DEFINE d == DayOf(now)
  <1>1. /\ now \in Nat /\ Day(now) \in Nat /\ d \in DayOfMonth /\ d = Day(now) % DaysPerMonth
        /\ group[d] \subseteq Key
    BY NowType DEF DayOf, TypeOK
  <1>2. /\ reader' = [todo |-> group[d], output |-> <<>>, began |-> now, due |-> today]
        /\ UNCHANGED <<now, redis, history>>
    BY DEF StartRead
  <1>3. /\ reader'.todo = group[d] /\ reader'.output = <<>>
        /\ reader'.began = now /\ reader'.due = today
        /\ now' = now /\ straddled' = straddled /\ missedGroup' = missedGroup
        /\ today' = today /\ now' <= now + 1
    BY <1>1, <1>2 DEF history
  <1>4. ASSUME NEW k \in group[d]
        PROVE  \/ k.day = d
               \/ /\ (k.day + 1) % DaysPerMonth = d
                  /\ missedGroup \/ \E y \in straddled : y + 1 = Day(now)
    <2>1. k.day = d \/ (k.day + 1) % DaysPerMonth = d
      BY <1>1 DEF GroupInv
    <2>2. ASSUME ~missedGroup
          PROVE  k.day = d \/ \E y \in straddled : y + 1 = Day(now)
      <3>1. PICK n \in Nat : /\ n % DaysPerMonth = d
                             /\ Belongs(k, n)
                             /\ n <= Day(now) /\ Day(now) <= n + 1
        BY <1>1, <2>2, AgeOfGroup
      <3>2. n = Day(now)
        <4>1. n <= Day(now) + 2 /\ Day(now) <= n + 2
          BY <1>1, <3>1
        <4> QED
          BY <1>1, <3>1, <4>1, NearDays
      <3> QED
        BY <1>1, <3>1, <3>2 DEF Belongs
    <2> QED
      BY <2>1, <2>2
  <1>5. ASSUME NEW m \in today
        PROVE  KeyOf(m) \in group[d]
    BY DEF TodayInv
  <1>6. ToSet(<<>>) = {} /\ DOMAIN <<>> = {}
    BY DEF ToSet
  <1> HIDE DEF d
  <1>7. ReaderInv'
    BY <1>3, <1>4, <1>5, <1>6 DEF ReaderInv, d
  <1>8. NothingTwice'
    BY <1>3, <1>6 DEF NothingTwice
  <1>9. AnswersAreOfToday'
    BY <1>3, <1>6 DEF AnswersAreOfToday
  <1> QED
    BY <1>7, <1>8, <1>9

\* The metrics of a key that the handler has yet to read are of today, but for
\* the exceptions of AnswersAreOfToday.
LEMMA WhatIsRead ==
    ASSUME TypeOK, TaskInv, KeyInv, KeyExpiryInv, ReaderInv, reader # Idle,
           NEW k \in reader.todo, k \in Key, NEW m \in ToSet(zset[k])
    PROVE  LET age == Day(reader.began) - Day(m.ended) IN
           \/ age = 0
           \/ age = 1 /\ (Day(m.ended) \in straddled \/ missedGroup)
           \/ KeyOf(m) \in missed
  <1> DEFINE b == Day(reader.began)
             x == Day(m.ended)
             n == Day(now)
  <1>1. SUFFICES ASSUME k \notin missed
                 PROVE  \/ b - x = 0
                        \/ b - x = 1 /\ (x \in straddled \/ missedGroup)
    BY DEF KeyInv
  <1>2. /\ x \in Nat /\ x <= n /\ n <= x + 1 /\ k.day = x % DaysPerMonth
    BY <1>1, AgeOfKey, KeyOfType
  <1>3. now \in Nat /\ reader.began \in Nat /\ reader.began <= now /\ now <= reader.began + 1
    BY NowType DEF TypeOK, Reader, ReaderInv
  <1>4. b \in Nat /\ n \in Nat /\ b <= n /\ n <= b + 1
    BY <1>3, LastMinute
  <1>5. b % DaysPerMonth = DayOf(reader.began)
    BY DEF DayOf
  <1>6. k.day \in DayOfMonth
    BY DEF Key
  <1>7. \/ k.day = DayOf(reader.began)
        \/ /\ (k.day + 1) % DaysPerMonth = DayOf(reader.began)
           /\ missedGroup \/ \E y \in straddled : y + 1 = b
    BY DEF ReaderInv
  <1>8. straddled \subseteq Nat
    BY DEF TypeOK
  <1> HIDE DEF b, x, n
  <1>9. CASE k.day = DayOf(reader.began)
    <2>1. x <= b + 2 /\ b <= x + 2
      BY <1>2, <1>4
    <2>2. x = b
      BY <1>2, <1>4, <1>5, <1>9, <2>1, NearDays
    <2> QED
      BY <1>4, <2>2
  <1>10. CASE /\ (k.day + 1) % DaysPerMonth = DayOf(reader.began)
              /\ missedGroup \/ \E y \in straddled : y + 1 = b
    <2>1. (x + 1) % DaysPerMonth = b % DaysPerMonth
      BY <1>2, <1>5, <1>6, <1>10, FollowingDayOfMonth
    <2>2. x + 1 \in Nat /\ x + 1 <= b + 2 /\ b <= (x + 1) + 2
      BY <1>2, <1>4
    <2>3. x + 1 = b
      BY <1>4, <2>1, <2>2, NearDays
    <2>4. x \in straddled \/ missedGroup
      BY <1>2, <1>8, <1>10, <2>3
    <2>5. b - x = 1
      BY <1>2, <1>4, <2>3
    <2> QED
      BY <2>4, <2>5
  <1> QED
    BY <1>7, <1>9, <1>10

LEMMA ReaderReads ==
    ASSUME TypeOK, TaskInv, KeyInv, KeyExpiryInv, TodayInv, ReaderInv, NothingTwice,
           AnswersAreOfToday, NEW k \in Key, ReadKey(k)
    PROVE  ReaderInv' /\ NothingTwice' /\ AnswersAreOfToday'
  <1> DEFINE old == reader.output
             new == old \o zset[k]
  <1>1. /\ reader \in Reader /\ reader # Idle /\ k \in reader.todo
        /\ old \in Seq(Metric) /\ zset[k] \in Seq(Metric) /\ reader.todo \subseteq Key
    BY DEF ReadKey, TypeOK, Reader
  <1>2. UNCHANGED <<now, redis, history>>
    BY DEF ReadKey
  <1>3. reader' = [reader EXCEPT !.todo = @ \ {k}, !.output = @ \o zset[k]]
    BY DEF ReadKey
  <1>4. /\ reader'.todo = reader.todo \ {k} /\ reader'.output = new
        /\ reader'.began = reader.began /\ reader'.due = reader.due
    BY <1>1, <1>3 DEF Reader
  <1>5. /\ now' = now /\ straddled' = straddled /\ missed' = missed
        /\ missedGroup' = missedGroup /\ today' = today
    BY <1>2 DEF history
  <1>6. \A m \in ToSet(zset[k]) : KeyOf(m) = k
    BY DEF KeyInv
  <1>7. \A m \in ToSet(old) : KeyOf(m) \notin reader.todo
    BY <1>1 DEF ReaderInv
  <1>8. /\ new \in Seq(Metric)
        /\ ToSet(new) = ToSet(old) \cup ToSet(zset[k])
        /\ \A i, j \in DOMAIN new : new[i] = new[j] => i = j
    <2>1. ToSet(old) \cap ToSet(zset[k]) = {}
      BY <1>1, <1>6, <1>7
    <2>2. \A i, j \in DOMAIN old : old[i] = old[j] => i = j
      BY <1>1 DEF NothingTwice
    <2>3. \A i, j \in DOMAIN zset[k] : zset[k][i] = zset[k][j] => i = j
      BY DEF KeyInv
    <2> QED
      BY <1>1, <2>1, <2>2, <2>3, Joined
  <1> HIDE DEF new
  <1>9. NothingTwice'
    BY <1>4, <1>8 DEF NothingTwice
  <1>10. AnswersAreOfToday'
    <2> DEFINE Right(m) == LET age == Day(reader.began) - Day(m.ended) IN
                           \/ age = 0
                           \/ age = 1 /\ (Day(m.ended) \in straddled \/ missedGroup)
                           \/ KeyOf(m) \in missed
    <2>1. \A m \in ToSet(zset[k]) : Right(m)
      BY <1>1, WhatIsRead
    <2>2. \A m \in ToSet(old) : Right(m)
      BY <1>1 DEF AnswersAreOfToday, ToSet
    <2>3. \A i \in DOMAIN new : new[i] \in ToSet(new)
      BY DEF ToSet
    <2>4. \A i \in DOMAIN new : Right(new[i])
      <3> HIDE DEF Right
      <3> QED
        BY <1>8, <2>1, <2>2, <2>3
    <2> QED
      BY <1>4, <1>5, <2>4 DEF AnswersAreOfToday
  <1>11. ReaderInv'
    <2>1. \A m \in ToSet(new) : KeyOf(m) \notin reader'.todo
      BY <1>4, <1>6, <1>7, <1>8
    <2>2. now <= reader.began + 1
      BY <1>1 DEF ReaderInv
    <2>3. ASSUME NEW x \in reader'.todo
          PROVE  \/ x.day = DayOf(reader.began)
                 \/ /\ (x.day + 1) % DaysPerMonth = DayOf(reader.began)
                    /\ missedGroup \/ \E y \in straddled : y + 1 = Day(reader.began)
      BY <1>1, <1>4 DEF ReaderInv
    <2>4. ASSUME Day(now) = Day(reader.began), NEW m \in reader.due
          PROVE  m \in today /\ (m \in ToSet(new) \/ KeyOf(m) \in reader'.todo)
      <3>1. m \in today /\ (m \in ToSet(old) \/ KeyOf(m) \in reader.todo)
        BY <1>1, <2>4 DEF ReaderInv
      <3>2. m \in ToSet(zset[KeyOf(m)])
        BY <3>1 DEF TodayInv
      <3> QED
        BY <1>4, <1>8, <3>1, <3>2
    <2> QED
      BY <1>4, <1>5, <2>1, <2>2, <2>3, <2>4 DEF ReaderInv
  <1> QED
    BY <1>9, <1>10, <1>11

LEMMA ReaderInvReading ==
    ASSUME TypeOK, TaskInv, KeyInv, KeyExpiryInv, GroupInv, TodayInv, ReaderInv, NothingTwice,
           AnswersAreOfToday, Reading
    PROVE  ReaderInv' /\ NothingTwice' /\ AnswersAreOfToday'
  <1>1. CASE EndRead
    BY <1>1 DEF EndRead, ReaderInv, NothingTwice, AnswersAreOfToday
  <1> QED
    BY <1>1, ReaderStart, ReaderReads DEF Reading

-----------------------------------------------------------------------------

LEMMA InvariantInit ==
    ASSUME Init
    PROVE  IInv
  <1>1. TypeOK
    BY TypeInit
  <1>2. /\ now = 0 /\ reader = Idle /\ today = {} /\ missed = {}
        /\ \A r \in Recorder : task[r] = Idle
        /\ \A k \in Key : zset[k] = <<>> /\ expiry[k] = 0
        /\ \A d \in DayOfMonth : group[d] = {} /\ groupExpiry[d] = 0
    BY DEF Init
  <1>3. ToSet(<<>>) = {} /\ DOMAIN <<>> = {}
    BY DEF ToSet
  <1>4. 0 <= now + TTL
    BY <1>1, NowType
  <1>5. TaskInv /\ TodayInv
    BY <1>2 DEF TaskInv, TodayInv
  <1>6. KeyInv /\ KeyExpiryInv
    BY <1>2, <1>3, <1>4 DEF KeyInv, KeyExpiryInv
  <1>7. GroupInv
    BY <1>2, <1>4 DEF GroupInv
  <1>8. ReaderInv /\ NothingTwice /\ AnswersAreOfToday
    BY <1>2 DEF ReaderInv, NothingTwice, AnswersAreOfToday
  <1> QED
    BY <1>1, <1>5, <1>6, <1>7, <1>8 DEF IInv

LEMMA InvariantStep ==
    ASSUME IInv, [Next]_vars
    PROVE  IInv'
  <1>1. /\ TypeOK /\ TaskInv /\ KeyInv /\ KeyExpiryInv /\ GroupInv /\ TodayInv
        /\ ReaderInv /\ NothingTwice /\ AnswersAreOfToday
    BY DEF IInv
  <1>2. TypeOK'
    BY <1>1, TypeStep
  <1>3. /\ straddled \subseteq straddled' /\ missed \subseteq missed'
        /\ missedGroup => missedGroup'
    BY <1>1, HistoryGrows
  <1>4. ASSUME NEW r \in Recorder, Recording(r)
        PROVE  IInv'
    <2>1. TaskInv' /\ KeyInv' /\ KeyExpiryInv'
      BY <1>1, <1>3, <1>4, TaskInvRecording, KeyInvRecording, KeyExpiryRecording
    <2>2. GroupInv' /\ TodayInv'
      BY <1>1, <1>3, <1>4, GroupInvRecording, TodayInvRecording
    <2>3. ReaderInv' /\ NothingTwice' /\ AnswersAreOfToday'
      BY <1>1, <1>3, <1>4, ReaderInvRecording
    <2> QED
      BY <1>2, <2>1, <2>2, <2>3 DEF IInv
  <1>5. CASE Tick
    <2>1. TaskInv' /\ KeyInv' /\ KeyExpiryInv'
      BY <1>1, <1>5, TaskInvTick, KeysTick
    <2>2. GroupInv' /\ TodayInv'
      BY <1>1, <1>5, GroupsTick, TodayInvTick
    <2>3. ReaderInv' /\ NothingTwice' /\ AnswersAreOfToday'
      BY <1>1, <1>5, ReaderInvTick
    <2> QED
      BY <1>2, <2>1, <2>2, <2>3 DEF IInv
  <1>6. CASE Reading
    <2>1. TaskInv' /\ KeyInv' /\ KeyExpiryInv' /\ GroupInv' /\ TodayInv'
      BY <1>1, <1>6, ReadersOnlyRead, OthersReading
    <2>2. ReaderInv' /\ NothingTwice' /\ AnswersAreOfToday'
      BY <1>1, <1>6, ReaderInvReading
    <2> QED
      BY <1>2, <2>1, <2>2 DEF IInv
  <1>7. CASE UNCHANGED vars
    <2>1. UNCHANGED <<now, count, redis, task, faults, history>> /\ reader' = reader
      BY <1>7 DEF vars
    <2>2. TaskInv' /\ KeyInv' /\ KeyExpiryInv' /\ GroupInv' /\ TodayInv'
      BY <1>1, <2>1, OthersReading
    <2>3. ReaderInv' /\ NothingTwice' /\ AnswersAreOfToday'
      BY <1>1, <2>1 DEF ReaderInv, NothingTwice, AnswersAreOfToday, history
    <2> QED
      BY <1>2, <2>2, <2>3 DEF IInv
  <1> QED
    BY <1>4, <1>5, <1>6, <1>7 DEF Next

LEMMA Invariant == Spec => []IInv
  <1>1. Init => IInv
    BY InvariantInit
  <1>2. IInv /\ [Next]_vars => IInv'
    BY InvariantStep
  <1> QED
    BY <1>1, <1>2, PTL DEF Spec

\* Whoever asks for the insights gets every metric of the day that had been
\* recorded by then, whatever else is recorded or fails meanwhile.
THEOREM ShownCorrect == Spec => []RecordedIsShown
  <1>1. IInv => RecordedIsShown
    BY DEF IInv, RecordedIsShown, Complete, ReaderInv
  <1> QED
    BY <1>1, Invariant, PTL

\* And gets no metric twice, although commands are sent again and a key may be
\* in the groups of two days.
THEOREM OnceCorrect == Spec => []NothingTwice
  <1>1. IInv => NothingTwice
    BY DEF IInv
  <1> QED
    BY <1>1, Invariant, PTL

\* And gets none of another day, but for recordings over midnight and for keys
\* and groups that were left without a TTL.
THEOREM TodayCorrect == Spec => []AnswersAreOfToday
  <1>1. IInv => AnswersAreOfToday
    BY DEF IInv
  <1> QED
    BY <1>1, Invariant, PTL
=============================================================================
