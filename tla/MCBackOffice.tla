---------------------------- MODULE MCBackOffice ----------------------------
(***************************************************************************)
(* What the back office reads: the insights (InsightsStore, and the loop   *)
(* of Metrics) and the list of events (EventListing).  The three share no  *)
(* state, so that each behaviour moves one of them (part) and leaves the   *)
(* others as they were at first.                                           *)
(***************************************************************************)
EXTENDS InsightsStore, Metrics, EventListing, TLC

CONSTANTS archived, orders, quoted

VARIABLE part

\* Published or consumed, at the one or the other minute, fast or slow.  The
\* publisher handlers record every request as a success, but what a consumer
\* without a name has consumed, or failed to, is a published metric too.
MCMeasured ==
    [topic : {"created", "paid"}, consumer : {"mailer", NoName},
     ack : BOOLEAN, ended : {1, 2}, duration : {10, 20}]

\* Nothing at all, small pages, a state, services, blanks, a team, a limit beyond
\* what the statement takes, one beyond what parses, and no number.
MCQuery ==
    [state : {<<>>}, team : {<<>>}, service : {<<>>},
     limit : {Blank, Bad, MaxBigint + 1, MaxUint + 1}]
    \cup [state : {<<>>}, team : {<<>>},
          service : {<<>>, <<<<orders>>>>, <<<<orders, quoted>>>>}, limit : {0, 1}]
    \cup [state : {<<<<Blank>>>>, <<<<archived, Blank>>, <<Active>>>>},
          team : {<<>>, <<<<Blank, "team">>>>}, service : {<<<<Blank>>>>}, limit : {2}]

\* The parts that do not move start in one state only.
MCInit ==
    /\ Init
    /\ LoopInit
    /\ ListInit
    /\ part \in {"store", "loop", "list"}
    /\ part # "list" => rows = <<>>

MCNext ==
    \/ part = "store" /\ Next /\ UNCHANGED <<part, loopVars, listVars>>
    \/ part = "loop" /\ LoopNext /\ UNCHANGED <<part, vars, listVars>>
    \/ part = "list" /\ ListNext /\ UNCHANGED <<part, vars, loopVars>>

MCSpec == MCInit /\ [][MCNext]_<<part, vars, loopVars, listVars>>

Symmetry == Permutations(Recorder)
=============================================================================
