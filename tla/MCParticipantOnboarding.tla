---------------------- MODULE MCParticipantOnboarding ----------------------
(* Values of ParticipantOnboarding's constants for TLC.                      *)
EXTENDS ParticipantOnboarding, TLC

CONSTANTS a1, a2, w1, w2, k1, k2, r1, r2

Symm == Permutations(Accounts) \cup Permutations(Wallets) \cup Permutations(Keys) \cup Permutations(Calls)
=============================================================================
