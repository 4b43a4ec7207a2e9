--------------------------- MODULE MCVerification ---------------------------
(* Instances of VerificationReview for TLC. *)
EXTENDS VerificationReview

CONSTANTS name, site

(* Two edits of different fields *)
MCPatches == {[f \in {name} |-> 1], [f \in {site} |-> 1]}
=============================================================================
