------------------------------- MODULE Metrics -------------------------------
(***************************************************************************)
(* Metrics.Insights (internal/domain/metric.go): the loop that sums up the *)
(* metrics GetAll has read, one metric per step, and what is reported at   *)
(* its end.                                                                *)
(***************************************************************************)
EXTENDS Naturals, Sequences, FiniteSets, SequencesExt

CONSTANTS
    Measured,   \* [topic, consumer, ack, ended, duration]; ended is a minute
    NoName,     \* the empty ConsumerName, as of every published message
    MaxMeasured

ASSUME MetricAssumption ==
    /\ \A m \in Measured : m.ack \in BOOLEAN /\ m.duration \in Nat
    /\ MaxMeasured \in Nat

VARIABLES
    metrics,    \* those the loop has gone through
    sums        \* what it has counted

loopVars == <<metrics, sums>>

\* A Go map with one entry set, and what it holds (or would hold) for a name.
Put(map, name, value) ==
    [n \in DOMAIN map \cup {name} |-> IF n = name THEN value ELSE map[n]]
Entry(map, name, zero) == IF name \in DOMAIN map THEN map[name] ELSE zero

Increment(counts, name) == Put(counts, name, Entry(counts, name, 0) + 1)

\* Mutant: the first entry is compared.
AddToSeriesByFirst(series, name, minute) ==
    LET old == Entry(series, name, <<>>) IN
    Put(series, name,
        IF old # <<>> /\ Head(old).minute = minute
        THEN [old EXCEPT ![Len(old)].value = @ + 1]
        ELSE Append(old, [minute |-> minute, value |-> 1]))

\* RpmPublisher.add and RpmConsumer.add: only the last entry is compared.
AddToSeries(series, name, minute) ==
    LET old == Entry(series, name, <<>>) IN
    Put(series, name,
        IF old # <<>> /\ Last(old).minute = minute
        THEN [old EXCEPT ![Len(old)].value = @ + 1]
        ELSE Append(old, [minute |-> minute, value |-> 1]))

\* Mutant: the first duration is dropped as well.
AddNoDuration(durations, name, d) == durations

\* The durations of a name: what is appended to an existing slice is dropped.
AddDuration(durations, name, d) == Put(durations, name, Entry(durations, name, <<d>>))

\* percentile, for p in per cent, 1 to 100, of at least one number: the smallest
\* that p per cent of all do not exceed.
Percentile(data, p) ==
    LET k == (p * Len(data) + 99) \div 100 IN
    CHOOSE d \in ToSet(data) :
        /\ Cardinality({i \in DOMAIN data : data[i] < d}) < k
        /\ Cardinality({i \in DOMAIN data : data[i] <= d}) >= k

\* Hundredths of a per cent, rounded; 0/0 is printed as NaN.
Percentage(part, total) ==
    IF total = 0 THEN "NaN" ELSE (20000 * part + total) \div (2 * total)

NoCounts == [total |-> 0, success |-> 0, err |-> 0, segments |-> <<>>,
             series |-> <<>>, durations |-> <<>>]

\* One metric.  Names are joined by a separator that topics and consumers are
\* taken not to contain.  The published ones are segmented by topic, the consumed ones by
\* consumer, with series and durations per topic and consumer.
Tally(counts, m, segment, name) ==
    [total     |-> counts.total + 1,
     success   |-> counts.success + (IF m.ack THEN 1 ELSE 0),
     err       |-> counts.err + (IF m.ack THEN 0 ELSE 1),
     segments  |-> Increment(counts.segments, segment),
     series    |-> AddToSeries(counts.series, name, m.ended),
     durations |-> AddDuration(counts.durations, name, m.duration)]

\* Who is counted as consumed is told by the ConsumerName alone.
AddMetric(s, m) ==
    IF m.consumer # NoName
    THEN [s EXCEPT !.consumed = Tally(@, m, m.consumer, <<m.topic, m.consumer>>)]
    ELSE [s EXCEPT !.published = Tally(@, m, m.topic, <<m.topic>>)]

Report(counts) ==
    [total      |-> counts.total,
     success    |-> counts.success,
     err        |-> counts.err,
     percentage |-> Percentage(counts.success, counts.total),
     segments   |-> counts.segments,
     rpm        |-> counts.series,
     p99        |-> [n \in DOMAIN counts.durations |-> Percentile(counts.durations[n], 99)],
     p75        |-> [n \in DOMAIN counts.durations |-> Percentile(counts.durations[n], 75)]]

Insights == [consumed |-> Report(sums.consumed), published |-> Report(sums.published)]

-----------------------------------------------------------------------------

SumsTypeOK ==
    /\ metrics \in Seq(Measured) /\ Len(metrics) <= MaxMeasured
    /\ \A part \in {sums.consumed, sums.published} :
           /\ {part.total, part.success, part.err} \subseteq Nat
           /\ \A n \in DOMAIN part.series : part.series[n] # <<>>
           /\ DOMAIN part.durations = DOMAIN part.series

LoopInit ==
    /\ metrics = <<>>
    /\ sums = [consumed |-> NoCounts, published |-> NoCounts]

\* One iteration.  The metrics of a key come in the order of their arrival in
\* Redis and the keys in any order, so that minutes may go back and forth.
Iterate(m) ==
    /\ Len(metrics) < MaxMeasured
    /\ metrics' = Append(metrics, m)
    /\ sums' = AddMetric(sums, m)

LoopNext == \E m \in Measured : Iterate(m)

LoopSpec == LoopInit /\ [][LoopNext]_loopVars

-----------------------------------------------------------------------------
(* Properties *)

\* Each entry of a series counts metrics of its minute, the entries one after the
\* other: own are the positions of the metrics that belong to the series.
CountsInOrder(series, own) ==
    \E entry \in [own -> DOMAIN series] :
        /\ \A i \in own : series[entry[i]].minute = metrics[i].ended
        /\ \A i, j \in own : i < j => entry[i] <= entry[j]
        /\ \A k \in DOMAIN series :
               series[k].value = Cardinality({i \in own : entry[i] = k})

\* What a part of the insights should be, given the segment and the name of each
\* of its metrics: every total, segment and series counts its metrics, although
\* a minute may be listed more than once, and the percentiles are durations of
\* that name.
AddsUp(part, segment, name) ==
    /\ part.total = Cardinality(DOMAIN name)
    /\ part.success = Cardinality({i \in DOMAIN name : metrics[i].ack})
    /\ part.success + part.err = part.total
    /\ DOMAIN part.segments = Range(segment)
    /\ \A s \in Range(segment) :
           part.segments[s] = Cardinality({i \in DOMAIN segment : segment[i] = s})
    /\ DOMAIN part.rpm = Range(name)
    /\ DOMAIN part.p99 = Range(name) /\ DOMAIN part.p75 = Range(name)
    /\ \A n \in Range(name) :
           LET own == {i \in DOMAIN name : name[i] = n} IN
           /\ CountsInOrder(part.rpm[n], own)
           /\ {part.p99[n], part.p75[n]} \subseteq {metrics[i].duration : i \in own}
           /\ part.p75[n] <= part.p99[n]

Consumed == {i \in DOMAIN metrics : metrics[i].consumer # NoName}
Published == DOMAIN metrics \ Consumed

\* The insights add up to the metrics they are made of, at each step of the loop
\* (Metrics.Insights).
AnswerAddsUp ==
    /\ AddsUp(Insights.consumed,
              [i \in Consumed |-> metrics[i].consumer],
              [i \in Consumed |-> <<metrics[i].topic, metrics[i].consumer>>])
    /\ AddsUp(Insights.published,
              [i \in Published |-> metrics[i].topic],
              [i \in Published |-> <<metrics[i].topic>>])
=============================================================================
