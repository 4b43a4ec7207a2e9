------------------------ MODULE MCVerificationQueue ------------------------
(* Instances of VerificationQueue for TLC. *)
EXTENDS VerificationQueue

CONSTANTS s1, s2

MCEventIds == [s \in Sessions |-> IF s = s1 THEN {1, 3} ELSE {2}]
=============================================================================
