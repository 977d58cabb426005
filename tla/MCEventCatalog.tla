-------------------------- MODULE MCEventCatalog --------------------------
(* The Pub/Sub and the task service in one process (scope "all", a shared    *)
(* MemStore) and in a process each (scopes "pubsub" and "task").             *)
EXTENDS EventCatalog

CONSTANTS pubsub, task, ms1, ms2

MCRefresher == {pubsub, task}
MCMemStore == {ms1, ms2}
MCDeployment == {[r \in MCRefresher |-> ms1],
                 [r \in MCRefresher |-> IF r = task THEN ms2 ELSE ms1]}
=============================================================================
