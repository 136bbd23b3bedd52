---------------------- MODULE MCParticipantEnrollment ----------------------
(* Values of ParticipantEnrollment's constants for TLC.                      *)
EXTENDS ParticipantEnrollment, TLC

CONSTANTS i1, i2, w1, w2
=============================================================================
