---------------------------- MODULE ClerkEvents ----------------------------
(***************************************************************************)
(* The signed Clerk user events that identity-service synchronizes, and    *)
(* the total order in which they supersede each other.                     *)
(*                                                                         *)
(* An event is what clerkwebhook.parseEvent returns for a supported type:  *)
(* its Svix message id, the Clerk user, the type, the provider timestamp   *)
(* and the verified primary email (NoEmail when there is none, and always  *)
(* for user.deleted).  Ids and timestamps are numbers: only their order    *)
(* matters.                                                                *)
(***************************************************************************)
EXTENDS Naturals

CONSTANTS
    Users,      \* Clerk user ids
    Emails,     \* verified primary email addresses
    NoEmail,    \* SQL null
    Events      \* the events Clerk publishes

EventTypes == {"user.created", "user.updated", "user.deleted"}

Event == [id: Nat, user: Users, type: EventTypes, at: Nat,
          email: Emails \union {NoEmail}]

ASSUME NoEmailAssumption == NoEmail \notin Emails

ASSUME EventsAssumption ==
    /\ Events \subseteq Event
    /\ \A e, f \in Events : e.id = f.id => e = f
    /\ \A e \in Events : e.type = "user.deleted" => e.email = NoEmail

-----------------------------------------------------------------------------
(* Faulty variants of the order, for mutation: no rank, no final tie-break *)
BugNoRank(type) == 0

(* deletion wins over update, update over creation, at equal timestamps *)
EventRank(type) == CASE type = "user.deleted" -> 3
                     [] type = "user.updated" -> 2
                     [] type = "user.created" -> 1

(* Supersedes(f, e): f is newer than e in the order of timestamp, rank, id *)
Supersedes(f, e) ==
    \/ f.at > e.at
    \/ /\ f.at = e.at
       /\ \/ EventRank(f.type) > EventRank(e.type)
          \/ EventRank(f.type) = EventRank(e.type) /\ f.id > e.id

(* the events of inbox that make e stale *)
Superseding(e, inbox) ==
    {f \in inbox : f.user = e.user /\ f.id # e.id /\ Supersedes(f, e)}
=============================================================================
