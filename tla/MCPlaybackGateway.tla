------------------------- MODULE MCPlaybackGateway -------------------------
(* Values of PlaybackGateway's constants for TLC.                            *)
EXTENDS PlaybackGateway, TLC

CONSTANTS a1, a2, k1, k2, t1, t2, t3, d1, d2

(* The whole file, and what lies behind a file of two. *)
SomeHeaders == {[kind |-> "absent"], [kind |-> "from", start |-> 2]}

Symm == Permutations(Keys) \cup Permutations(Deliveries)
=============================================================================
