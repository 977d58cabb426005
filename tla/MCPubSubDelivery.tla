------------------------- MODULE MCPubSubDelivery -------------------------
(* Small instances of PubSubDelivery for TLC. *)
EXTENDS PubSubDelivery, TLC

\* Jobs and callbacks are interchangeable, so the safety runs may identify
\* states that differ only by a renaming of them.
Symmetry == Permutations(Job) \cup Permutations(Worker)
=============================================================================
