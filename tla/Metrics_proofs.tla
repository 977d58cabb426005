--------------------------- MODULE Metrics_proofs ---------------------------
(***************************************************************************)
(* Proofs about Metrics, for any metrics and any number of them.           *)
(***************************************************************************)
EXTENDS Metrics, FiniteSetTheorems, TLAPS

-----------------------------------------------------------------------------
(* What the invariant says of one part of the sums, the published or the      *)
(* consumed metrics, when the loop has gone through ms.                       *)

Slot == [minute : {m.ended : m \in Measured}, value : Nat]

Own(name, n) == {i \in DOMAIN name : name[i] = n}

\* CountsInOrder, of the metrics ms.
InOrder(ms, series, own) ==
    \E entry \in [own -> DOMAIN series] :
        /\ \A i \in own : series[entry[i]].minute = ms[i].ended
        /\ \A i, j \in own : i < j => entry[i] <= entry[j]
        /\ \A k \in DOMAIN series :
               series[k].value = Cardinality({i \in own : entry[i] = k})

Totals(ms, c, name) ==
    /\ c.total = Cardinality(DOMAIN name)
    /\ c.success = Cardinality({i \in DOMAIN name : ms[i].ack})
    /\ c.err \in Nat /\ c.success + c.err = c.total

Segmented(c, segment) ==
    /\ DOMAIN c.segments = Range(segment)
    /\ \A s \in Range(segment) : c.segments[s] = Cardinality(Own(segment, s))

Series(ms, c, name) ==
    /\ DOMAIN c.series = Range(name)
    /\ \A n \in Range(name) :
           /\ c.series[n] \in Seq(Slot) \ {<<>>}
           /\ InOrder(ms, c.series[n], Own(name, n))

\* One duration is kept of each name.
Durations(ms, c, name) ==
    /\ DOMAIN c.durations = Range(name)
    /\ \A n \in Range(name) :
           \E i \in Own(name, n) : c.durations[n] = <<ms[i].duration>>

Tallied(ms, c, segment, name) ==
    /\ DOMAIN segment = DOMAIN name /\ DOMAIN name \subseteq DOMAIN ms
    /\ Totals(ms, c, name)
    /\ Segmented(c, segment)
    /\ Series(ms, c, name)
    /\ Durations(ms, c, name)

-----------------------------------------------------------------------------
(* Lemmas about the operators *)

\* One more position of a name.
LEMMA OwnGrows ==
    ASSUME NEW map, NEW e, e \notin DOMAIN map, NEW v
    PROVE  /\ Range(Put(map, e, v)) = Range(map) \cup {v}
           /\ Own(Put(map, e, v), v) = Own(map, v) \cup {e}
           /\ \A n \in Range(map) \ {v} : Own(Put(map, e, v), n) = Own(map, n)
           /\ v \notin Range(map) => Own(map, v) = {}
  BY DEF Put, Range, Own

LEMMA Appended ==
    ASSUME NEW S, NEW ms \in Seq(S), NEW m \in S
    PROVE  /\ Append(ms, m) \in Seq(S)
           /\ Len(Append(ms, m)) = Len(ms) + 1
           /\ DOMAIN Append(ms, m) = DOMAIN ms \cup {Len(ms) + 1}
           /\ Len(ms) + 1 \notin DOMAIN ms
           /\ Append(ms, m)[Len(ms) + 1] = m
           /\ \A i \in DOMAIN ms : Append(ms, m)[i] = ms[i]
  OBVIOUS

LEMMA FinitePositions ==
    ASSUME NEW S, NEW ms \in Seq(S), NEW D \in SUBSET DOMAIN ms
    PROVE  IsFiniteSet(D) /\ Cardinality(D) \in Nat
  <1>1. IsFiniteSet(DOMAIN ms)
    BY FS_Interval
  <1> QED  BY <1>1, FS_Subset, FS_CardinalityType

\* One more element that has a property, or does not have it.
LEMMA CountOneMore ==
    ASSUME NEW S, NEW ms \in Seq(S), NEW D \in SUBSET DOMAIN ms, NEW e, e \notin D
    PROVE  Cardinality(D \cup {e}) = Cardinality(D) + 1
  BY FinitePositions, FS_AddElement

\* Of one number every percentile is that number.
LEMMA PercentileOfOne ==
    ASSUME NEW d \in Nat, NEW p \in {75, 99}
    PROVE  Percentile(<<d>>, p) = d
  <1> DEFINE data == <<d>>
  <1>1. (p * Len(data) + 99) \div 100 = 1
    <2>1. Len(data) = 1
      OBVIOUS
    <2>2. CASE p = 75
      BY <2>1, <2>2
    <2>3. CASE p = 99
      BY <2>1, <2>3
    <2> QED  BY <2>2, <2>3
  <1>2. DOMAIN data = {1} /\ data[1] = d
    OBVIOUS
  <1>3. ToSet(data) = {d}
    BY <1>2 DEF ToSet
  <1>4. /\ {i \in DOMAIN data : data[i] < d} = {}
        /\ {i \in DOMAIN data : data[i] <= d} = {1}
    BY <1>2
  <1>5. Cardinality({}) = 0 /\ Cardinality({1}) = 1
    BY FS_EmptySet, FS_Singleton
  <1> HIDE DEF data
  <1>6. Percentile(data, p) = CHOOSE x \in ToSet(data) :
            /\ Cardinality({i \in DOMAIN data : data[i] < x}) < 1
            /\ Cardinality({i \in DOMAIN data : data[i] <= x}) >= 1
    BY <1>1 DEF Percentile
  <1>7. /\ d \in ToSet(data)
        /\ Cardinality({i \in DOMAIN data : data[i] < d}) < 1
        /\ Cardinality({i \in DOMAIN data : data[i] <= d}) >= 1
    BY <1>3, <1>4, <1>5
  <1>8. Percentile(data, p) \in ToSet(data)
    BY <1>6, <1>7
  <1> QED  BY <1>3, <1>8 DEF data

-----------------------------------------------------------------------------
(* One more metric *)

\* What add makes of the entries of a name.
Extended(old, minute) ==
    IF old # <<>> /\ Last(old).minute = minute
    THEN [old EXCEPT ![Len(old)].value = @ + 1]
    ELSE Append(old, [minute |-> minute, value |-> 1])

\* A metric of another name leaves the order as it is.
LEMMA InOrderStays ==
    ASSUME NEW ms \in Seq(Measured), NEW m \in Measured, NEW own \in SUBSET DOMAIN ms,
           NEW series, InOrder(ms, series, own)
    PROVE  InOrder(Append(ms, m), series, own)
  <1>1. \A i \in own : Append(ms, m)[i] = ms[i]
    BY Appended
  <1>2. PICK entry \in [own -> DOMAIN series] :
            /\ \A i \in own : series[entry[i]].minute = ms[i].ended
            /\ \A i, j \in own : i < j => entry[i] <= entry[j]
            /\ \A k \in DOMAIN series :
                   series[k].value = Cardinality({i \in own : entry[i] = k})
    BY DEF InOrder
  <1>3. \A i \in own : series[entry[i]].minute = Append(ms, m)[i].ended
    BY <1>1, <1>2
  <1> QED  BY <1>2, <1>3 DEF InOrder

\* The entry the metric e is counted in is the last one.
LEMMA InOrderWith ==
    ASSUME NEW ms \in Seq(Measured), NEW m \in Measured, NEW own \in SUBSET DOMAIN ms,
           NEW old \in Seq(Slot), NEW new \in Seq(Slot), NEW e, e = Len(ms) + 1,
           InOrder(ms, old, own),
           NEW last \in DOMAIN new, last = Len(new), Len(old) <= last,
           new[last].minute = m.ended,
           \A k \in DOMAIN old : new[k].minute = old[k].minute,
           \A k \in DOMAIN new \ {last} : k \in DOMAIN old /\ new[k] = old[k],
           new[last].value = (IF last \in DOMAIN old THEN old[last].value ELSE 0) + 1
    PROVE  InOrder(Append(ms, m), new, own \cup {e})
  <1>0. PICK entry \in [own -> DOMAIN old] :
            /\ \A i \in own : old[entry[i]].minute = ms[i].ended
            /\ \A i, j \in own : i < j => entry[i] <= entry[j]
            /\ \A k \in DOMAIN old :
                   old[k].value = Cardinality({i \in own : entry[i] = k})
    BY DEF InOrder
  <1> DEFINE more == [i \in own \cup {e} |-> IF i = e THEN last ELSE entry[i]]
             all == Append(ms, m)
  <1>1. /\ e \notin own /\ all[e] = m
        /\ \A i \in own : all[i] = ms[i] /\ i \in Nat /\ i < e
    BY Appended
  <1>2. DOMAIN old \subseteq DOMAIN new
    OBVIOUS
  <1>3. /\ more \in [own \cup {e} -> DOMAIN new]
        /\ more[e] = last /\ \A i \in own : more[i] = entry[i]
    BY <1>1, <1>2
  <1> HIDE DEF more, all
  <1>4. \A i \in own \cup {e} : new[more[i]].minute = all[i].ended
    BY <1>0, <1>1, <1>3
  <1>5. ASSUME NEW i \in own \cup {e}, NEW j \in own \cup {e}, i < j
        PROVE  more[i] <= more[j]
    <2>1. e \in Nat
      OBVIOUS
    <2>2. i \in own
      BY <1>1, <1>5, <2>1
    <2>3. CASE j = e
      <3>1. entry[i] \in DOMAIN old
        BY <2>2
      <3> QED  BY <1>3, <2>2, <2>3, <3>1
    <2>4. CASE j \in own
      BY <1>0, <1>3, <1>5, <2>2, <2>4
    <2> QED  BY <2>3, <2>4
  <1>6. ASSUME NEW k \in DOMAIN new
        PROVE  new[k].value = Cardinality({i \in own \cup {e} : more[i] = k})
    <2> DEFINE before == {i \in own : entry[i] = k}
    <2>1. CASE k = last
      <3>1. {i \in own \cup {e} : more[i] = k} = before \cup {e}
        BY <1>3, <2>1
      <3>2. Cardinality(before \cup {e}) = Cardinality(before) + 1
        BY <1>1, CountOneMore, before \in SUBSET DOMAIN ms, e \notin before
      <3>3. CASE last \in DOMAIN old
        BY <1>0, <2>1, <3>1, <3>2, <3>3
      <3>4. CASE last \notin DOMAIN old
        <4>1. before = {}
          BY <2>1, <3>4
        <4> QED  BY <2>1, <3>1, <3>2, <3>4, <4>1, FS_EmptySet
      <3> QED  BY <3>3, <3>4
    <2>2. CASE k # last
      <3>1. {i \in own \cup {e} : more[i] = k} = before
        BY <1>1, <1>3, <2>2
      <3> QED  BY <1>0, <2>2, <3>1
    <2> QED  BY <2>1, <2>2
  <1> QED  BY <1>3, <1>4, <1>5, <1>6 DEF InOrder, all

LEMMA ExtendedInOrder ==
    ASSUME NEW ms \in Seq(Measured), NEW m \in Measured, NEW own \in SUBSET DOMAIN ms,
           NEW old \in Seq(Slot), InOrder(ms, old, own)
    PROVE  /\ Extended(old, m.ended) \in Seq(Slot) \ {<<>>}
           /\ InOrder(Append(ms, m), Extended(old, m.ended), own \cup {Len(ms) + 1})
  <1> DEFINE new == Extended(old, m.ended)
  <1>2. CASE old # <<>> /\ Last(old).minute = m.ended
    <2> DEFINE n == Len(old)
    <2>1. n \in DOMAIN old /\ old[n] \in Slot /\ old[n].minute = m.ended
      BY <1>2 DEF Last
    <2>2. new = [old EXCEPT ![n] = [old[n] EXCEPT !.value = @ + 1]]
      BY <1>2 DEF Extended
    <2>3. [old[n] EXCEPT !.value = @ + 1] = [minute |-> old[n].minute, value |-> old[n].value + 1]
      BY <2>1 DEF Slot
    <2>4. /\ new \in Seq(Slot) /\ Len(new) = n /\ DOMAIN new = DOMAIN old
          /\ new[n] = [minute |-> old[n].minute, value |-> old[n].value + 1]
          /\ \A k \in DOMAIN old \ {n} : new[k] = old[k]
      BY <2>1, <2>2, <2>3 DEF Slot
    <2> HIDE DEF new
    <2>5. /\ n \in DOMAIN new /\ n = Len(new) /\ Len(old) <= n
          /\ new[n].minute = m.ended
          /\ \A k \in DOMAIN old : new[k].minute = old[k].minute
          /\ \A k \in DOMAIN new \ {n} : k \in DOMAIN old /\ new[k] = old[k]
          /\ new[n].value = (IF n \in DOMAIN old THEN old[n].value ELSE 0) + 1
      BY <2>1, <2>4
    <2>6. InOrder(Append(ms, m), new, own \cup {Len(ms) + 1})
      <3> HIDE DEF n
      <3> QED  BY <2>4, <2>5, InOrderWith
    <2> QED  BY <2>1, <2>4, <2>6 DEF new
  <1>3. CASE ~(old # <<>> /\ Last(old).minute = m.ended)
    <2> DEFINE slot == [minute |-> m.ended, value |-> 1]
               n == Len(old) + 1
    <2>1. slot \in Slot /\ slot.minute = m.ended /\ slot.value = 1
      BY DEF Slot
    <2>2. new = Append(old, slot)
      BY <1>3 DEF Extended
    <2> HIDE DEF slot, new
    <2>3. /\ new \in Seq(Slot) /\ Len(new) = n /\ DOMAIN new = DOMAIN old \cup {n}
          /\ n \notin DOMAIN old /\ new[n] = slot
          /\ \A k \in DOMAIN old : new[k] = old[k]
      BY <2>1, <2>2, Appended
    <2>4. /\ n \in DOMAIN new /\ n = Len(new) /\ Len(old) <= n
          /\ new[n].minute = m.ended
          /\ \A k \in DOMAIN old : new[k].minute = old[k].minute
          /\ \A k \in DOMAIN new \ {n} : k \in DOMAIN old /\ new[k] = old[k]
          /\ new[n].value = (IF n \in DOMAIN old THEN old[n].value ELSE 0) + 1
      BY <2>1, <2>3
    <2>5. InOrder(Append(ms, m), new, own \cup {Len(ms) + 1})
      <3> HIDE DEF n
      <3> QED  BY <2>3, <2>4, InOrderWith
    <2> QED  BY <2>3, <2>5 DEF new
  <1> QED  BY <1>2, <1>3

LEMMA InOrderOfNone ==
    ASSUME NEW ms
    PROVE  InOrder(ms, <<>>, {})
  <1> DEFINE entry == [i \in {} |-> i]
  <1>1. entry \in [{} -> DOMAIN <<>>]
    OBVIOUS
  <1>2. DOMAIN <<>> = {}
    OBVIOUS
  <1> HIDE DEF entry
  <1> QED  BY <1>1, <1>2 DEF InOrder

\* A metric of the other part.
LEMMA TalliedStays ==
    ASSUME NEW ms \in Seq(Measured), NEW m \in Measured, NEW c, NEW segment, NEW name,
           Tallied(ms, c, segment, name)
    PROVE  Tallied(Append(ms, m), c, segment, name)
  <1> DEFINE all == Append(ms, m)
  <1>1. \A i \in DOMAIN name : i \in DOMAIN ms /\ i \in DOMAIN all /\ all[i] = ms[i]
    BY Appended DEF Tallied
  <1>2. \A n : Own(name, n) \in SUBSET DOMAIN ms /\ Own(name, n) \subseteq DOMAIN name
    BY <1>1 DEF Own
  <1> HIDE DEF all
  <1>3. Totals(all, c, name)
    <2>1. {i \in DOMAIN name : all[i].ack} = {i \in DOMAIN name : ms[i].ack}
      BY <1>1
    <2> QED  BY <2>1 DEF Tallied, Totals
  <1>4. Series(all, c, name)
    BY <1>2, InOrderStays DEF Tallied, Series, all
  <1>5. Durations(all, c, name)
    BY <1>1, <1>2 DEF Tallied, Durations
  <1> QED  BY <1>1, <1>3, <1>4, <1>5 DEF Tallied, all

\* A metric of this part, with its segment s and its name n.
LEMMA TalliedGrows ==
    ASSUME NEW ms \in Seq(Measured), NEW m \in Measured, NEW c, NEW segment, NEW name,
           Tallied(ms, c, segment, name), NEW s, NEW n, NEW e, e = Len(ms) + 1
    PROVE  Tallied(Append(ms, m), Tally(c, m, s, n), Put(segment, e, s), Put(name, e, n))
  <1> DEFINE all == Append(ms, m)
             d == Tally(c, m, s, n)
             segments == Put(segment, e, s)
             names == Put(name, e, n)
  <1>1. /\ DOMAIN segment = DOMAIN name /\ DOMAIN name \in SUBSET DOMAIN ms
        /\ Totals(ms, c, name) /\ Segmented(c, segment) /\ Series(ms, c, name)
        /\ Durations(ms, c, name)
    BY DEF Tallied
  <1>2. /\ e \notin DOMAIN name /\ e \notin DOMAIN segment
        /\ DOMAIN all = DOMAIN ms \cup {e} /\ all[e] = m
        /\ \A i \in DOMAIN name : all[i] = ms[i]
    BY <1>1, Appended
  <1>0. DOMAIN names = DOMAIN name \cup {e} /\ DOMAIN segments = DOMAIN name \cup {e}
    BY <1>1 DEF Put
  <1>3. /\ DOMAIN names = DOMAIN name \cup {e}
        /\ Range(names) = Range(name) \cup {n} /\ Own(names, n) = Own(name, n) \cup {e}
        /\ \A x \in Range(name) \ {n} : Own(names, x) = Own(name, x)
        /\ n \notin Range(name) => Own(name, n) = {}
    BY <1>0, <1>2, OwnGrows
  <1>4. /\ Range(segments) = Range(segment) \cup {s}
        /\ Own(segments, s) = Own(segment, s) \cup {e}
        /\ \A x \in Range(segment) \ {s} : Own(segments, x) = Own(segment, x)
        /\ s \notin Range(segment) => Own(segment, s) = {}
    BY <1>2, OwnGrows
  <1>5. \A x : /\ Own(name, x) \in SUBSET DOMAIN ms /\ Own(name, x) \subseteq DOMAIN name
              /\ Own(segment, x) \in SUBSET DOMAIN ms /\ e \notin Own(segment, x)
    BY <1>1, <1>2 DEF Own
  <1>6. /\ d.total = c.total + 1
        /\ d.success = c.success + (IF m.ack THEN 1 ELSE 0)
        /\ d.err = c.err + (IF m.ack THEN 0 ELSE 1)
        /\ d.segments = Increment(c.segments, s)
        /\ d.series = AddToSeries(c.series, n, m.ended)
        /\ d.durations = AddDuration(c.durations, n, m.duration)
    BY DEF Tally
  <1> HIDE DEF all, d, segments, names
  <1>7. Totals(all, d, names)
    <2> DEFINE acked == {i \in DOMAIN name : ms[i].ack}
    <2>1. Cardinality(DOMAIN names) = Cardinality(DOMAIN name) + 1
      BY <1>1, <1>2, <1>3, CountOneMore
    <2>2. /\ m.ack => {i \in DOMAIN names : all[i].ack} = acked \cup {e}
          /\ ~m.ack => {i \in DOMAIN names : all[i].ack} = acked
      BY <1>2, <1>3
    <2>3. Cardinality(acked \cup {e}) = Cardinality(acked) + 1
      BY <1>1, <1>2, CountOneMore, acked \in SUBSET DOMAIN ms, e \notin acked
    <2>4. Cardinality(acked) \in Nat /\ Cardinality(DOMAIN name) \in Nat
      BY <1>1, FinitePositions, acked \in SUBSET DOMAIN ms
    <2>5. c.total = Cardinality(DOMAIN name) /\ c.success = Cardinality(acked)
          /\ c.err \in Nat /\ c.success + c.err = c.total
      BY <1>1 DEF Totals
    <2> HIDE DEF acked
    <2>6. d.total = Cardinality(DOMAIN names)
      BY <1>6, <2>1, <2>5
    <2>7. d.success = Cardinality({i \in DOMAIN names : all[i].ack})
      <3>1. CASE m.ack
        BY <1>6, <2>2, <2>3, <2>5, <3>1
      <3>2. CASE ~m.ack
        <4>1. c.success \in Nat
          BY <2>4, <2>5
        <4>2. d.success = c.success
          BY <1>6, <3>2, <4>1
        <4> QED  BY <2>2, <2>5, <3>2, <4>2
      <3> QED  BY <3>1, <3>2
    <2>8. d.err \in Nat /\ d.success + d.err = d.total
      BY <1>6, <2>4, <2>5
    <2> QED  BY <2>6, <2>7, <2>8 DEF Totals
  <1>8. Segmented(d, segments)
    <2>1. /\ DOMAIN c.segments = Range(segment)
          /\ \A x \in Range(segment) : c.segments[x] = Cardinality(Own(segment, x))
      BY <1>1 DEF Segmented
    <2>2. /\ DOMAIN d.segments = Range(segments)
          /\ \A x \in Range(segment) \ {s} : d.segments[x] = c.segments[x]
          /\ d.segments[s] = Entry(c.segments, s, 0) + 1
      BY <1>4, <1>6, <2>1 DEF Increment, Put
    <2>3. Cardinality(Own(segments, s)) = Cardinality(Own(segment, s)) + 1
      BY <1>4, <1>5, CountOneMore
    <2>4. Entry(c.segments, s, 0) = Cardinality(Own(segment, s))
      BY <1>4, <2>1, FS_EmptySet DEF Entry
    <2> QED  BY <1>4, <2>1, <2>2, <2>3, <2>4 DEF Segmented
  <1>9. Series(all, d, names)
    <2> DEFINE old == Entry(c.series, n, <<>>)
    <2>0. DOMAIN c.series = Range(name)
      BY <1>1 DEF Series
    <2>1. \A x \in Range(name) : /\ c.series[x] \in Seq(Slot) \ {<<>>}
                                /\ InOrder(ms, c.series[x], Own(name, x))
      BY <1>1 DEF Series
    <2>2. old \in Seq(Slot) /\ InOrder(ms, old, Own(name, n))
      <3>1. CASE n \in Range(name)
        BY <2>0, <2>1, <3>1 DEF Entry
      <3>2. CASE n \notin Range(name)
        <4>1. old = <<>> /\ Own(name, n) = {}
          BY <1>3, <2>0, <3>2 DEF Entry
        <4>2. InOrder(ms, <<>>, {}) /\ <<>> \in Seq(Slot)
          BY InOrderOfNone
        <4> QED  BY <4>1, <4>2
      <3> QED  BY <3>1, <3>2
    <2>3. d.series = Put(c.series, n, Extended(old, m.ended))
      BY <1>6 DEF AddToSeries, Extended
    <2> HIDE DEF old
    <2>4. /\ Extended(old, m.ended) \in Seq(Slot) \ {<<>>}
          /\ InOrder(all, Extended(old, m.ended), Own(names, n))
      <3>1. Own(name, n) \in SUBSET DOMAIN ms
        BY <1>5
      <3>2. /\ Extended(old, m.ended) \in Seq(Slot) \ {<<>>}
            /\ InOrder(all, Extended(old, m.ended), Own(name, n) \cup {Len(ms) + 1})
        BY ONLY <2>2, <3>1, m \in Measured, ms \in Seq(Measured), ExtendedInOrder DEF all
      <3> QED  BY <1>3, <3>2
    <2>5. \A x \in Range(name) \ {n} : InOrder(all, c.series[x], Own(names, x))
      BY <1>3, <1>5, <2>1, InOrderStays DEF all
    <2>6. /\ DOMAIN d.series = Range(names)
          /\ d.series[n] = Extended(old, m.ended)
          /\ \A x \in Range(name) \ {n} : d.series[x] = c.series[x]
      BY <1>3, <2>0, <2>3 DEF Put
    <2> QED  BY <1>3, <2>1, <2>4, <2>5, <2>6 DEF Series
  <1>10. Durations(all, d, names)
    <2>0. DOMAIN c.durations = Range(name)
      BY <1>1 DEF Durations
    <2>1. \A x \in Range(name) : \E i \in Own(name, x) : c.durations[x] = <<ms[i].duration>>
      BY <1>1 DEF Durations
    <2> DEFINE kept == Entry(c.durations, n, <<m.duration>>)
    <2>put. d.durations = Put(c.durations, n, kept)
      BY <1>6 DEF AddDuration
    <2> HIDE DEF kept
    <2>2. /\ DOMAIN d.durations = Range(names)
          /\ d.durations[n] = kept
          /\ \A x \in Range(name) \ {n} : d.durations[x] = c.durations[x]
      BY <1>3, <2>0, <2>put DEF Put
    <2>3. ASSUME NEW x \in Range(name), d.durations[x] = c.durations[x]
          PROVE  \E i \in Own(names, x) : d.durations[x] = <<all[i].duration>>
      <3>1. PICK i \in Own(name, x) : c.durations[x] = <<ms[i].duration>>
        BY <2>1
      <3>2. i \in Own(names, x) /\ all[i] = ms[i]
        BY <1>2, <1>3, <1>5
      <3> QED  BY <2>3, <3>1, <3>2
    <2>4. CASE n \in Range(name)
      BY <1>3, <2>0, <2>2, <2>3, <2>4 DEF Durations, Entry, kept
    <2>5. CASE n \notin Range(name)
      <3>1. d.durations[n] = <<all[e].duration>> /\ e \in Own(names, n)
        BY <1>2, <1>3, <2>0, <2>2, <2>5 DEF Entry, kept
      <3> QED  BY <1>3, <2>2, <2>3, <3>1 DEF Durations
    <2> QED  BY <2>4, <2>5
  <1>11. DOMAIN segments = DOMAIN names /\ DOMAIN names \subseteq DOMAIN all
    BY <1>0, <1>1, <1>2
  <1> QED  BY <1>7, <1>8, <1>9, <1>10, <1>11 DEF Tallied, all, d, segments, names

-----------------------------------------------------------------------------
(* The invariant *)

\* Consumed and Published, and what their metrics are called, in ms.
ConsumedIn(ms) == {i \in DOMAIN ms : ms[i].consumer # NoName}
PublishedIn(ms) == DOMAIN ms \ ConsumedIn(ms)
ConsumerOf(ms) == [i \in ConsumedIn(ms) |-> ms[i].consumer]
PairOf(ms) == [i \in ConsumedIn(ms) |-> <<ms[i].topic, ms[i].consumer>>]
TopicOf(ms) == [i \in PublishedIn(ms) |-> ms[i].topic]
NameOf(ms) == [i \in PublishedIn(ms) |-> <<ms[i].topic>>]

Inv ==
    /\ metrics \in Seq(Measured) /\ Len(metrics) <= MaxMeasured
    /\ sums = [consumed |-> sums.consumed, published |-> sums.published]
    /\ Tallied(metrics, sums.consumed, ConsumerOf(metrics), PairOf(metrics))
    /\ Tallied(metrics, sums.published, TopicOf(metrics), NameOf(metrics))

\* A consumed metric is one more of these, and none of the others.
LEMMA OneMoreConsumed ==
    ASSUME NEW ms \in Seq(Measured), NEW m \in Measured, NEW e, e = Len(ms) + 1, m.consumer # NoName
    PROVE  /\ ConsumerOf(Append(ms, m)) = Put(ConsumerOf(ms), e, m.consumer)
           /\ PairOf(Append(ms, m)) = Put(PairOf(ms), e, <<m.topic, m.consumer>>)
           /\ TopicOf(Append(ms, m)) = TopicOf(ms)
           /\ NameOf(Append(ms, m)) = NameOf(ms)
  <1> DEFINE all == Append(ms, m)
  <1>1. /\ DOMAIN all = DOMAIN ms \cup {e} /\ e \notin DOMAIN ms /\ all[e] = m
        /\ \A i \in DOMAIN ms : all[i] = ms[i]
    BY Appended
  <1> HIDE DEF all
  <1>2. ConsumedIn(all) = ConsumedIn(ms) \cup {e} /\ e \notin ConsumedIn(ms)
    BY <1>1 DEF ConsumedIn
  <1>3. PublishedIn(all) = PublishedIn(ms) /\ PublishedIn(ms) \subseteq DOMAIN ms
    BY <1>1, <1>2 DEF PublishedIn
  <1>4. \A i \in ConsumedIn(ms) : all[i] = ms[i]
    BY <1>1 DEF ConsumedIn
  <1>5. ConsumerOf(all) = Put(ConsumerOf(ms), e, m.consumer)
    BY <1>1, <1>2, <1>4 DEF ConsumerOf, Put
  <1>6. PairOf(all) = Put(PairOf(ms), e, <<m.topic, m.consumer>>)
    BY <1>1, <1>2, <1>4 DEF PairOf, Put
  <1>7. TopicOf(all) = TopicOf(ms) /\ NameOf(all) = NameOf(ms)
    BY <1>1, <1>3 DEF TopicOf, NameOf
  <1> QED  BY <1>5, <1>6, <1>7 DEF all

\* And a published one the other way round.
LEMMA OneMorePublished ==
    ASSUME NEW ms \in Seq(Measured), NEW m \in Measured, NEW e, e = Len(ms) + 1, m.consumer = NoName
    PROVE  /\ TopicOf(Append(ms, m)) = Put(TopicOf(ms), e, m.topic)
           /\ NameOf(Append(ms, m)) = Put(NameOf(ms), e, <<m.topic>>)
           /\ ConsumerOf(Append(ms, m)) = ConsumerOf(ms)
           /\ PairOf(Append(ms, m)) = PairOf(ms)
  <1> DEFINE all == Append(ms, m)
  <1>1. /\ DOMAIN all = DOMAIN ms \cup {e} /\ e \notin DOMAIN ms /\ all[e] = m
        /\ \A i \in DOMAIN ms : all[i] = ms[i]
    BY Appended
  <1> HIDE DEF all
  <1>2. ConsumedIn(all) = ConsumedIn(ms) /\ ConsumedIn(ms) \subseteq DOMAIN ms
    BY <1>1 DEF ConsumedIn
  <1>3. PublishedIn(all) = PublishedIn(ms) \cup {e} /\ PublishedIn(ms) \subseteq DOMAIN ms
    BY <1>1, <1>2 DEF PublishedIn
  <1>4. \A i \in PublishedIn(ms) : all[i] = ms[i]
    BY <1>1, <1>3
  <1>5. TopicOf(all) = Put(TopicOf(ms), e, m.topic)
    BY <1>1, <1>3, <1>4 DEF TopicOf, Put
  <1>6. NameOf(all) = Put(NameOf(ms), e, <<m.topic>>)
    BY <1>1, <1>3, <1>4 DEF NameOf, Put
  <1>7. ConsumerOf(all) = ConsumerOf(ms) /\ PairOf(all) = PairOf(ms)
    BY <1>1, <1>2 DEF ConsumerOf, PairOf
  <1> QED  BY <1>5, <1>6, <1>7 DEF all

LEMMA NothingTallied ==
    ASSUME NEW segment, NEW name, DOMAIN segment = {}, DOMAIN name = {}
    PROVE  Tallied(<<>>, NoCounts, segment, name)
  <1>1. Range(segment) = {} /\ Range(name) = {}
    BY DEF Range
  <1>2. NoCounts.total = 0 /\ NoCounts.success = 0 /\ NoCounts.err = 0
    BY DEF NoCounts
  <1>3. /\ DOMAIN NoCounts.segments = {} /\ DOMAIN NoCounts.series = {}
        /\ DOMAIN NoCounts.durations = {}
    BY DEF NoCounts
  <1>4. {i \in DOMAIN name : <<>>[i].ack} = {}
    OBVIOUS
  <1>5. Totals(<<>>, NoCounts, name)
    BY <1>2, <1>4, FS_EmptySet DEF Totals
  <1> QED  BY <1>1, <1>3, <1>5 DEF Tallied, Segmented, Series, Durations

LEMMA InvInit == LoopInit => Inv
  <1> SUFFICES ASSUME LoopInit PROVE Inv
    OBVIOUS
  <1>1. metrics = <<>> /\ sums = [consumed |-> NoCounts, published |-> NoCounts]
    BY DEF LoopInit
  <1>2. ConsumedIn(<<>>) = {} /\ PublishedIn(<<>>) = {}
    BY DEF ConsumedIn, PublishedIn
  <1>3. /\ DOMAIN ConsumerOf(<<>>) = {} /\ DOMAIN PairOf(<<>>) = {}
        /\ DOMAIN TopicOf(<<>>) = {} /\ DOMAIN NameOf(<<>>) = {}
    BY <1>2 DEF ConsumerOf, PairOf, TopicOf, NameOf
  <1>4. /\ Tallied(<<>>, NoCounts, ConsumerOf(<<>>), PairOf(<<>>))
        /\ Tallied(<<>>, NoCounts, TopicOf(<<>>), NameOf(<<>>))
    BY <1>3, NothingTallied
  <1>5. metrics \in Seq(Measured) /\ Len(metrics) <= MaxMeasured
    BY <1>1, MetricAssumption
  <1> QED  BY <1>1, <1>4, <1>5 DEF Inv

LEMMA InvStep == Inv /\ [LoopNext]_loopVars => Inv'
  <1> SUFFICES ASSUME Inv, [LoopNext]_loopVars PROVE Inv'
    OBVIOUS
  <1>1. CASE UNCHANGED loopVars
    BY <1>1 DEF Inv, loopVars
  <1>2. ASSUME NEW m \in Measured, Iterate(m)
        PROVE  Inv'
    <2> DEFINE e == Len(metrics) + 1
    <2>1. /\ metrics \in Seq(Measured) /\ metrics' = Append(metrics, m) /\ sums' = AddMetric(sums, m)
          /\ sums = [consumed |-> sums.consumed, published |-> sums.published]
          /\ Tallied(metrics, sums.consumed, ConsumerOf(metrics), PairOf(metrics))
          /\ Tallied(metrics, sums.published, TopicOf(metrics), NameOf(metrics))
      BY <1>2 DEF Inv, Iterate
    <2>2. metrics' \in Seq(Measured) /\ Len(metrics') <= MaxMeasured
      BY <1>2, <2>1, Appended, MetricAssumption DEF Iterate
    <2>3. CASE m.consumer # NoName
      <3> DEFINE more == Tally(sums.consumed, m, m.consumer, <<m.topic, m.consumer>>)
      <3>1. sums' = [consumed |-> more, published |-> sums.published]
        BY <2>1, <2>3 DEF AddMetric
      <3> HIDE DEF more
      <3>2. sums'.consumed = more /\ sums'.published = sums.published
        BY <3>1
      <3>3. Tallied(Append(metrics, m), sums.published, TopicOf(metrics), NameOf(metrics))
        BY <2>1, TalliedStays
      <3>4. Tallied(Append(metrics, m), more, Put(ConsumerOf(metrics), e, m.consumer),
                    Put(PairOf(metrics), e, <<m.topic, m.consumer>>))
        BY <2>1, TalliedGrows DEF more
      <3>5. /\ ConsumerOf(metrics') = Put(ConsumerOf(metrics), e, m.consumer)
            /\ PairOf(metrics') = Put(PairOf(metrics), e, <<m.topic, m.consumer>>)
            /\ TopicOf(metrics') = TopicOf(metrics) /\ NameOf(metrics') = NameOf(metrics)
        BY <2>1, <2>3, OneMoreConsumed
      <3> QED  BY <2>1, <2>2, <3>1, <3>2, <3>3, <3>4, <3>5 DEF Inv
    <2>4. CASE m.consumer = NoName
      <3> DEFINE more == Tally(sums.published, m, m.topic, <<m.topic>>)
      <3>1. sums' = [consumed |-> sums.consumed, published |-> more]
        BY <2>1, <2>4 DEF AddMetric
      <3> HIDE DEF more
      <3>2. sums'.published = more /\ sums'.consumed = sums.consumed
        BY <3>1
      <3>3. Tallied(Append(metrics, m), sums.consumed, ConsumerOf(metrics), PairOf(metrics))
        BY <2>1, TalliedStays
      <3>4. Tallied(Append(metrics, m), more, Put(TopicOf(metrics), e, m.topic),
                    Put(NameOf(metrics), e, <<m.topic>>))
        BY <2>1, TalliedGrows DEF more
      <3>5. /\ TopicOf(metrics') = Put(TopicOf(metrics), e, m.topic)
            /\ NameOf(metrics') = Put(NameOf(metrics), e, <<m.topic>>)
            /\ ConsumerOf(metrics') = ConsumerOf(metrics) /\ PairOf(metrics') = PairOf(metrics)
        BY <2>1, <2>4, OneMorePublished
      <3> QED  BY <2>1, <2>2, <3>1, <3>2, <3>3, <3>4, <3>5 DEF Inv
    <2> QED  BY <2>3, <2>4
  <1> QED  BY <1>1, <1>2 DEF LoopNext

LEMMA InvHolds == LoopSpec => []Inv
  <1>1. LoopInit => Inv
    BY InvInit
  <1>2. Inv /\ [LoopNext]_loopVars => Inv'
    BY InvStep
  <1> QED  BY <1>1, <1>2, PTL DEF LoopSpec

-----------------------------------------------------------------------------
(* The theorems *)

\* The counts are numbers, no name has an empty series, and a name has durations
\* if and only if it has a series (RpmPublisher.add indexes the last entry).
THEOREM TypeCorrect == LoopSpec => []SumsTypeOK
  <1>1. Inv => SumsTypeOK
    <2> SUFFICES ASSUME Inv PROVE SumsTypeOK
      OBVIOUS
    <2>1. ASSUME NEW c, NEW segment, NEW name, Tallied(metrics, c, segment, name)
          PROVE  /\ {c.total, c.success, c.err} \subseteq Nat
                 /\ \A n \in DOMAIN c.series : c.series[n] # <<>>
                 /\ DOMAIN c.durations = DOMAIN c.series
      <3>1. DOMAIN name \in SUBSET DOMAIN metrics /\ metrics \in Seq(Measured)
        BY <2>1 DEF Tallied, Inv
      <3>2. {i \in DOMAIN name : metrics[i].ack} \in SUBSET DOMAIN metrics
        BY <3>1
      <3>3. {c.total, c.success, c.err} \subseteq Nat
        BY <2>1, <3>1, <3>2, FinitePositions DEF Tallied, Totals
      <3> QED  BY <2>1, <3>3 DEF Tallied, Series, Durations
    <2> QED  BY <2>1 DEF Inv, SumsTypeOK
  <1> QED  BY <1>1, InvHolds, PTL

LEMMA TalliedAddsUp ==
    ASSUME metrics \in Seq(Measured),
           NEW STATE c, NEW STATE segment, NEW STATE name,
           Tallied(metrics, c, segment, name)
    PROVE  AddsUp(Report(c), segment, name)
  <1> DEFINE part == Report(c)
  <1>1. /\ part.total = c.total /\ part.success = c.success /\ part.err = c.err
        /\ part.segments = c.segments /\ part.rpm = c.series
        /\ part.p99 = [n \in DOMAIN c.durations |-> Percentile(c.durations[n], 99)]
        /\ part.p75 = [n \in DOMAIN c.durations |-> Percentile(c.durations[n], 75)]
    BY DEF Report
  <1> HIDE DEF part
  <1>2. /\ part.total = Cardinality(DOMAIN name)
        /\ part.success = Cardinality({i \in DOMAIN name : metrics[i].ack})
        /\ part.success + part.err = part.total
    BY <1>1 DEF Tallied, Totals
  <1>3. /\ DOMAIN part.segments = Range(segment)
        /\ \A s \in Range(segment) :
               part.segments[s] = Cardinality({i \in DOMAIN segment : segment[i] = s})
    BY <1>1 DEF Tallied, Segmented, Own
  <1>4. /\ DOMAIN part.rpm = Range(name)
        /\ \A n \in Range(name) : CountsInOrder(part.rpm[n], Own(name, n))
    <2>1. /\ DOMAIN c.series = Range(name)
          /\ \A n \in Range(name) : InOrder(metrics, c.series[n], Own(name, n))
      BY DEF Tallied, Series
    <2>2. ASSUME NEW series, NEW own, InOrder(metrics, series, own)
          PROVE  CountsInOrder(series, own)
      BY <2>2 DEF InOrder, CountsInOrder
    <2> QED  BY <1>1, <2>1, <2>2
  <1>5. /\ DOMAIN c.durations = Range(name)
        /\ DOMAIN part.p99 = Range(name) /\ DOMAIN part.p75 = Range(name)
    BY <1>1 DEF Tallied, Durations
  <1>6. ASSUME NEW n \in Range(name)
        PROVE  /\ {part.p99[n], part.p75[n]} \subseteq {metrics[i].duration : i \in Own(name, n)}
               /\ part.p75[n] <= part.p99[n]
    <2>1. PICK i \in Own(name, n) : c.durations[n] = <<metrics[i].duration>>
      BY DEF Tallied, Durations
    <2>2. metrics[i] \in Measured
      BY DEF Tallied, Own
    <2>3. metrics[i].duration \in Nat
      BY <2>2, MetricAssumption
    <2>4. /\ Percentile(c.durations[n], 99) = metrics[i].duration
          /\ Percentile(c.durations[n], 75) = metrics[i].duration
      BY <2>1, <2>3, PercentileOfOne
    <2>5. part.p99[n] = metrics[i].duration /\ part.p75[n] = metrics[i].duration
      BY <1>1, <1>5, <2>4
    <2> QED  BY <2>1, <2>3, <2>5
  <1> QED  BY <1>2, <1>3, <1>4, <1>5, <1>6 DEF AddsUp, Own, part

\* The insights add up to the metrics they are made of, however the metrics are
\* ordered and whatever they are about (Metrics.Insights).
THEOREM AddsUpCorrect == LoopSpec => []AnswerAddsUp
  <1>1. Inv => AnswerAddsUp
    <2> SUFFICES ASSUME Inv PROVE AnswerAddsUp
      OBVIOUS
    <2>1. /\ AddsUp(Report(sums.consumed), ConsumerOf(metrics), PairOf(metrics))
          /\ AddsUp(Report(sums.published), TopicOf(metrics), NameOf(metrics))
      BY TalliedAddsUp DEF Inv
    <2>2. /\ Insights.consumed = Report(sums.consumed)
          /\ Insights.published = Report(sums.published)
      BY DEF Insights
    <2> QED
      BY <2>1, <2>2
      DEF AnswerAddsUp, ConsumerOf, PairOf, TopicOf, NameOf, Consumed, Published,
          ConsumedIn, PublishedIn
  <1> QED  BY <1>1, InvHolds, PTL
=============================================================================
