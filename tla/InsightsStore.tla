--------------------------- MODULE InsightsStore ---------------------------
(***************************************************************************)
(* The metrics of published and consumed messages: handlers record one     *)
(* metric each in Redis (storests.Store), and the insights handler of the  *)
(* back office reads those of the day, which Metrics sums up.              *)
(*                                                                         *)
(* A metric goes into a sorted set whose key ends with the day of the      *)
(* month, and that key into the group of the day on which this is done.    *)
(* Keys and groups expire after the TTL, one day by default.  These are    *)
(* single Redis commands, and each may fail, also after it had its effect. *)
(*                                                                         *)
(* Time goes in minutes; days and months are short here.  Redis is         *)
(* external.                                                               *)
(***************************************************************************)
EXTENDS Naturals, Sequences, SequencesExt

CONSTANTS
    Recorder,       \* handlers that record a metric
    Subject,        \* what may be recorded: published or consumed, its topic,
                    \* its consumer, with success or not; all of it is in the key
    MinutesPerDay, DaysPerMonth,
    MaxTime, MaxMetrics, MaxFaults,
    Idle

ASSUME BoundAssumption ==
    /\ MinutesPerDay \in Nat \ {0}
    /\ DaysPerMonth \in Nat \ {0, 1, 2}
    /\ {MaxTime, MaxMetrics, MaxFaults} \subseteq Nat

VARIABLES
    now,        \* the minute
    count,      \* metrics so far; the next one's duration, which tells them apart
    zset,       \* the sorted sets: the metrics of a key, by time of arrival
    expiry,     \* when a key expires (0: never)
    group,      \* the keys of a day
    groupExpiry,
    task,       \* what each recorder is doing
    reader,     \* the insights handler
    faults,
    today,      \* history: today's metrics whose recording was completed
    missed,     \* history: keys that were written and not given a TTL
    missedGroup,\* history: some group was not given a TTL
    straddled   \* history: days with a key put into the group of the next day

redis == <<zset, expiry, group, groupExpiry>>
history == <<today, missed, missedGroup, straddled>>
vars == <<now, count, redis, task, reader, faults, history>>

DayOfMonth == 0 .. DaysPerMonth - 1
Day(minute) == minute \div MinutesPerDay
DayOf(minute) == Day(minute) % DaysPerMonth

Metric == [subject : Subject, ended : 0 .. MaxTime, duration : 1 .. MaxMetrics]

\* Store.key: what was measured, and the day of the month.
Key == [subject : Subject, day : DayOfMonth]
KeyOf(m) == [subject |-> m.subject, day |-> DayOf(m.ended)]

-----------------------------------------------------------------------------

\* A recorder on its way through the commands of Published or Consumed.
Task == [step : {"zadd", "expire", "sadd", "groupExpire"}, metric : Metric,
         complete : BOOLEAN, day : DayOfMonth]

ASSUME IdleAssumption == Idle \notin Task

\* GetAll on its way through the keys.
Reader == [todo : SUBSET Key, output : Seq(Metric), began : Nat, due : SUBSET Metric]

TypeOK ==
    /\ now \in 0 .. MaxTime
    /\ count \in 0 .. MaxMetrics
    /\ zset \in [Key -> Seq(Metric)]
    /\ expiry \in [Key -> Nat]
    /\ \A k \in Key : expiry[k] # 0 => zset[k] # <<>> /\ expiry[k] > now
    /\ group \in [DayOfMonth -> SUBSET Key]
    /\ groupExpiry \in [DayOfMonth -> Nat]
    /\ \A d \in DayOfMonth : groupExpiry[d] # 0 => group[d] # {} /\ groupExpiry[d] > now
    /\ task \in [Recorder -> Task \cup {Idle}]
    /\ reader \in Reader \cup {Idle}
    /\ reader # Idle => reader.began <= now
    /\ faults \in 0 .. MaxFaults
    /\ today \subseteq Metric
    /\ missed \subseteq Key
    /\ missedGroup \in BOOLEAN
    /\ straddled \subseteq Nat

Init ==
    /\ now = 0
    /\ count = 0
    /\ zset = [k \in Key |-> <<>>]
    /\ expiry = [k \in Key |-> 0]
    /\ group = [d \in DayOfMonth |-> {}]
    /\ groupExpiry = [d \in DayOfMonth |-> 0]
    /\ task = [r \in Recorder |-> Idle]
    /\ reader = Idle
    /\ faults = 0
    /\ today = {}
    /\ missed = {}
    /\ missedGroup = FALSE
    /\ straddled = {}

Fault ==
    /\ faults < MaxFaults
    /\ faults' = faults + 1

TTL == MinutesPerDay

\* Mutant: an expired key leaves its time behind.
TickLeavesExpiry ==
    /\ now < MaxTime
    /\ \A r \in Recorder : task[r] # Idle => task[r].metric.ended = now
    /\ reader # Idle => reader.began = now
    /\ now' = now + 1
    /\ zset' = [k \in Key |-> IF expiry[k] = now + 1 THEN <<>> ELSE zset[k]]
    /\ group' = [d \in DayOfMonth |-> IF groupExpiry[d] = now + 1 THEN {} ELSE group[d]]
    /\ groupExpiry' = [d \in DayOfMonth |->
                          IF groupExpiry[d] = now + 1 THEN 0 ELSE groupExpiry[d]]
    /\ today' = IF Day(now + 1) = Day(now) THEN today ELSE {}
    /\ UNCHANGED <<count, expiry, task, reader, faults, missed, missedGroup, straddled>>

\* The next minute; Redis drops what has expired.  A recording or a reading
\* takes less than a minute: Redis commands have time limits of seconds.
Tick ==
    /\ now < MaxTime
    /\ \A r \in Recorder : task[r] # Idle => task[r].metric.ended = now
    /\ reader # Idle => reader.began = now
    /\ now' = now + 1
    /\ zset' = [k \in Key |-> IF expiry[k] = now + 1 THEN <<>> ELSE zset[k]]
    /\ expiry' = [k \in Key |-> IF expiry[k] = now + 1 THEN 0 ELSE expiry[k]]
    /\ group' = [d \in DayOfMonth |-> IF groupExpiry[d] = now + 1 THEN {} ELSE group[d]]
    /\ groupExpiry' = [d \in DayOfMonth |->
                          IF groupExpiry[d] = now + 1 THEN 0 ELSE groupExpiry[d]]
    /\ today' = IF Day(now + 1) = Day(now) THEN today ELSE {}
    /\ UNCHANGED <<count, task, reader, faults, missed, missedGroup, straddled>>

-----------------------------------------------------------------------------
(* Recording *)

\* insertInsights of a handler calls Published or Consumed.
Record(r, s) ==
    /\ task[r] = Idle
    /\ count < MaxMetrics
    /\ count' = count + 1
    /\ task' = [task EXCEPT ![r] =
           [step |-> "zadd", complete |-> TRUE, day |-> DayOf(now),
            metric |-> [subject |-> s, ended |-> now, duration |-> count + 1]]]
    /\ UNCHANGED <<now, redis, reader, faults, history>>

At(r, step) == task[r] # Idle /\ task[r].step = step

GoTo(r, step) == task' = [task EXCEPT ![r].step = step]

\* The recorder leaves its key, or the group it has added it to, without a TTL.
MissKey(r) ==
    LET k == KeyOf(task[r].metric) IN
    missed' = IF zset'[k] # <<>> /\ expiry'[k] = 0 THEN missed \cup {k} ELSE missed

MissGroup(d) ==
    missedGroup' = (missedGroup \/ (group'[d] # {} /\ groupExpiry'[d] = 0))

\* Mutant: a list instead of a sorted set.
AddedToList(m) == [zset EXCEPT ![KeyOf(m)] = Append(@, m)]

Without(list, m) ==
    IF m \in ToSet(list)
    THEN RemoveAt(list, CHOOSE i \in DOMAIN list : list[i] = m)
    ELSE list

\* ZADD of a member that is there already gives it a new score, which moves it
\* to the end.  (Scores are taken to be in the order of arrival.)
Added(m) == [zset EXCEPT ![KeyOf(m)] = Append(Without(@, m), m)]

Expiring(k) == [expiry EXCEPT ![k] = IF zset[k] = <<>> THEN 0 ELSE now + TTL]

ZAdd(r) ==
    /\ At(r, "zadd")
    /\ zset' = Added(task[r].metric)
    /\ GoTo(r, "expire")
    /\ UNCHANGED <<now, count, expiry, group, groupExpiry, reader, faults, history>>

\* The answer is lost and the Redis client sends the command again.
ZAddAgain(r) ==
    /\ Fault
    /\ At(r, "zadd")
    /\ zset' = Added(task[r].metric)
    /\ UNCHANGED <<now, count, expiry, group, groupExpiry, task, reader, history>>

\* Mutant: the key is not given a TTL.
ExpireNothing(r) ==
    /\ At(r, "expire")
    /\ GoTo(r, "sadd")
    /\ UNCHANGED <<now, count, redis, reader, faults, history>>

Expire(r) ==
    /\ At(r, "expire")
    /\ expiry' = Expiring(KeyOf(task[r].metric))
    /\ GoTo(r, "sadd")
    /\ UNCHANGED <<now, count, zset, group, groupExpiry, reader, faults, history>>

\* The handler's context ended, or Redis does not answer in time.  Only the
\* deferred groupInsights is left to do.
KeyCommandFails(r) ==
    LET m == task[r].metric IN
    /\ Fault
    /\ \/ At(r, "zadd") /\ zset' \in {zset, Added(m)} /\ UNCHANGED expiry
       \/ At(r, "expire") /\ expiry' \in {expiry, Expiring(KeyOf(m))} /\ UNCHANGED zset
    /\ MissKey(r)
    /\ task' = [task EXCEPT ![r].step = "sadd", ![r].complete = FALSE]
    /\ UNCHANGED <<now, count, group, groupExpiry, reader, today, missedGroup, straddled>>

\* Mutant: SET instead of SADD, so that the last key is the only one.
SetGroup(m) == [group EXCEPT ![DayOf(now)] = {KeyOf(m)}]

\* The key of the metric, which may be of yesterday by now, in the group of the
\* current day.
Grouped(m) == [group EXCEPT ![DayOf(now)] = @ \cup {KeyOf(m)}]

Straddles(m) ==
    straddled' = IF Day(m.ended) = Day(now) THEN straddled ELSE straddled \cup {Day(m.ended)}

\* groupInsights
SAdd(r) ==
    LET m == task[r].metric IN
    /\ At(r, "sadd")
    /\ group' = Grouped(m)
    /\ task' = [task EXCEPT ![r].step = "groupExpire", ![r].day = DayOf(now)]
    /\ today' = IF task[r].complete /\ Day(m.ended) = Day(now) THEN today \cup {m} ELSE today
    /\ Straddles(m)
    /\ UNCHANGED <<now, count, zset, expiry, groupExpiry, reader, faults,
                   missed, missedGroup>>

GroupExpire(r) ==
    LET d == task[r].day IN
    /\ At(r, "groupExpire")
    /\ groupExpiry' = [groupExpiry EXCEPT ![d] = IF group[d] = {} THEN 0 ELSE now + TTL]
    /\ task' = [task EXCEPT ![r] = Idle]
    /\ UNCHANGED <<now, count, zset, expiry, group, reader, faults, history>>

\* A failure here is not noticed by anybody.
GroupCommandFails(r) ==
    LET m == task[r].metric IN
    /\ Fault
    /\ \/ /\ At(r, "sadd")
          /\ \/ group' = Grouped(m) /\ Straddles(m)
             \/ UNCHANGED <<group, straddled>>
          /\ UNCHANGED groupExpiry
          /\ MissGroup(DayOf(now))
       \/ /\ At(r, "groupExpire")
          /\ UNCHANGED <<group, groupExpiry, straddled>>
          /\ MissGroup(task[r].day)
    /\ task' = [task EXCEPT ![r] = Idle]
    /\ UNCHANGED <<now, count, zset, expiry, reader, today, missed>>

\* The process ends.
Abort(r) ==
    /\ Fault
    /\ task[r] # Idle
    /\ task' = [task EXCEPT ![r] = Idle]
    /\ UNCHANGED <<now, count, redis, reader, today, straddled>>
    /\ MissKey(r)
    /\ MissGroup(task[r].day)

-----------------------------------------------------------------------------
(* Reading *)

\* GetAll: the members of today's group,
StartRead ==
    /\ reader = Idle
    /\ reader' = [todo |-> group[DayOf(now)], output |-> <<>>, began |-> now,
                  due |-> today]
    /\ UNCHANGED <<now, count, redis, task, faults, history>>

\* then the metrics of one key after the other, in any order.
ReadKey(k) ==
    /\ reader # Idle
    /\ k \in reader.todo
    /\ reader' = [reader EXCEPT !.todo = @ \ {k}, !.output = @ \o zset[k]]
    /\ UNCHANGED <<now, count, redis, task, faults, history>>

\* The answer is sent, or a command failed and it is 500.
EndRead ==
    /\ reader # Idle
    /\ reader' = Idle
    /\ UNCHANGED <<now, count, redis, task, faults, history>>

-----------------------------------------------------------------------------

Recording(r) ==
    \/ \E s \in Subject : Record(r, s)
    \/ ZAdd(r) \/ ZAddAgain(r) \/ Expire(r) \/ KeyCommandFails(r)
    \/ SAdd(r) \/ GroupExpire(r) \/ GroupCommandFails(r)
    \/ Abort(r)

Reading == StartRead \/ (\E k \in Key : ReadKey(k)) \/ EndRead

Next == Tick \/ Reading \/ \E r \in Recorder : Recording(r)

Spec == Init /\ [][Next]_vars

-----------------------------------------------------------------------------
(* Properties *)

Complete == reader # Idle /\ reader.todo = {}

\* A metric whose recording was completed before the insights were asked for is
\* among them, if they are all read on the same day: its key is in the group
\* of the day, and neither expires meanwhile.
RecordedIsShown ==
    Complete /\ Day(now) = Day(reader.began) => reader.due \subseteq ToSet(reader.output)

\* No metric is counted twice, although Redis commands are sent again and two
\* days may share a group.
NothingTwice ==
    reader # Idle => \A i, j \in DOMAIN reader.output :
        reader.output[i] = reader.output[j] => i = j

\* The insights are those of the day on which they were asked for.  Yesterday's
\* metrics are among them only if a recording lasted over midnight (its key then
\* is in both groups) or a group was left without a TTL; older ones, of the
\* same day of an earlier month, only if their key was left without one.
AnswersAreOfToday ==
    reader # Idle => \A i \in DOMAIN reader.output :
        LET m == reader.output[i]
            age == Day(reader.began) - Day(m.ended) IN
        \/ age = 0
        \/ age = 1 /\ (Day(m.ended) \in straddled \/ missedGroup)
        \/ KeyOf(m) \in missed
=============================================================================
