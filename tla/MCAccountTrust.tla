--------------------------- MODULE MCAccountTrust ---------------------------
(* Values of AccountTrust's constants for TLC. *)
EXTENDS AccountTrust, TLC

CONSTANTS w1, w2, w0, p1, p2, p0, k1, k2, r1, r2, artist

Symm == Permutations(Wallets) \cup Permutations(Credentials) \cup Permutations(Requests)
=============================================================================
