------------------------- MODULE DeliveryContract -------------------------
(***************************************************************************)
(* What gqueue promises of one job, whatever broker carries it.            *)
(*                                                                         *)
(* A job is one call that must reach one consumer's webhook: one iteration *)
(* of the fan-out loop of the two PublisherEvent handlers.  The broker     *)
(* stores the job, copies of it are worked on (live), and the job leaves   *)
(* the system only with an outcome: the webhook took it (delivered), it    *)
(* was given up after the retries (discarded), or a worker that was told   *)
(* to stop acknowledged it unfinished (dropped).  Delivery is at least     *)
(* once: a job may be live again, and be delivered again, after an outcome.*)
(***************************************************************************)

CONSTANT Job

VARIABLES
    stored,     \* jobs the broker ever took in
    accepted,   \* jobs whose publisher was answered with success
    live,       \* jobs some copy of which the broker still holds
    failed,     \* jobs that had an attempt which failed
    delivered,  \* jobs the webhook took
    discarded,  \* jobs given up after the last retry
    dropped     \* jobs acknowledged by a worker that was stopping

vars == <<stored, accepted, live, failed, delivered, discarded, dropped>>

Outcome == delivered \cup discarded \cup dropped

Init ==
    /\ stored = {}
    /\ accepted = {}
    /\ live = {}
    /\ failed = {}
    /\ delivered = {}
    /\ discarded = {}
    /\ dropped = {}

\* The broker takes in a copy of j; the publisher may not hear of it.
Store(j, answered) ==
    /\ stored' = stored \cup {j}
    /\ live' = live \cup {j}
    /\ accepted' = IF answered THEN accepted \cup {j} ELSE accepted
    /\ UNCHANGED <<failed, delivered, discarded, dropped>>

\* A copy that was being worked on, or was about to be acknowledged, is handed
\* out again.
Redeliver(S) ==
    /\ S \subseteq stored
    /\ live' = live \cup S
    /\ UNCHANGED <<stored, accepted, failed, delivered, discarded, dropped>>

Fail(j) ==
    /\ j \in stored
    /\ failed' = failed \cup {j}
    /\ UNCHANGED <<stored, accepted, live, delivered, discarded, dropped>>

\* The copy that reached an outcome may have been the last one.
MayRetire(j) == live' \in {live, live \ {j}}

Deliver(j) ==
    /\ j \in stored
    /\ delivered' = delivered \cup {j}
    /\ MayRetire(j)
    /\ UNCHANGED <<stored, accepted, failed, discarded, dropped>>

Discard(j) ==
    /\ j \in failed
    /\ discarded' = discarded \cup {j}
    /\ MayRetire(j)
    /\ UNCHANGED <<stored, accepted, failed, delivered, dropped>>

Drop(j) ==
    /\ j \in failed
    /\ dropped' = dropped \cup {j}
    /\ MayRetire(j)
    /\ UNCHANGED <<stored, accepted, failed, delivered, discarded>>

Next ==
    \/ \E j \in Job, answered \in BOOLEAN : Store(j, answered)
    \/ \E S \in SUBSET Job : Redeliver(S)
    \/ \E j \in Job : Fail(j) \/ Deliver(j) \/ Discard(j) \/ Drop(j)

Spec == Init /\ [][Next]_vars

-----------------------------------------------------------------------------

TypeOK ==
    /\ stored \subseteq Job
    /\ accepted \subseteq stored
    /\ live \subseteq stored
    /\ failed \subseteq stored
    /\ delivered \subseteq stored
    /\ discarded \subseteq failed
    /\ dropped \subseteq failed

\* No job disappears: what the broker took in is still held by it or has an
\* outcome.
Conservation == stored \subseteq live \cup Outcome
=============================================================================
