------------------------- MODULE MCEventPublisher -------------------------
(* Two clients that send the same payload, and an event that has one         *)
(* consumer, two (in either order), or is not served.                        *)
EXTENDS EventPublisher

CONSTANTS c1, c2, d1, k1, k2

MCClient == {c1, c2}
MCSameData == [c \in MCClient |-> d1]
MCListing == {<<k1, k2>>, <<k2, k1>>, <<k2>>}
=============================================================================
