--------------------------- MODULE GatewayTraffic ---------------------------
(* The requests under way between the gateway and a service; an identity is *)
(* used again when its request is over.                                     *)
EXTENDS Integers, FiniteSets

CONSTANT Requests

ASSUME RequestsFinite == IsFiniteSet(Requests)

(* what is left of a time *)
Rest(t) == IF t < 0 THEN 0 ELSE t
=============================================================================
