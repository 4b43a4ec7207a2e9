------------------------- MODULE MCCurrentUserCache -------------------------
(* Small instances of CurrentUserCache for TLC. *)
EXTENDS CurrentUserCache

(* one request in each of two replicas; two requests in one replica *)
OnePerReplica == [c \in Callers |-> c]
SameReplica == [c \in Callers |-> CHOOSE r \in Replicas : TRUE]
=============================================================================
