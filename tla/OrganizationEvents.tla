------------------------- MODULE OrganizationEvents -------------------------
(***************************************************************************)
(* The signed Clerk events about one organization and its memberships that *)
(* organization-service synchronizes, and their order.                     *)
(*                                                                         *)
(* One organization is enough: every lock, row and query of the service    *)
(* belongs to one.  An event is what organizationsync.Decode returns: its  *)
(* aggregate is Org or a Clerk membership; creator is the payload's        *)
(* created_by, clerkRole the provider's role and invitation the            *)
(* bridgeworks_invitation_id of the public metadata.  Names and slugs are  *)
(* left out.  Ids and timestamps are numbers: only their order matters.    *)
(***************************************************************************)
EXTENDS Naturals

CONSTANTS
    Users,          \* Clerk user ids
    Memberships,    \* Clerk membership ids, one local row each
    UserOf,         \* the user each membership belongs to
    Invitations,    \* ids of local invitation intents
    Org,            \* the organization as an aggregate
    None,           \* SQL null
    Events          \* the events Clerk can publish

EventTypes == {"created", "updated", "deleted"}
ClerkRoles == {"org:admin", "org:member"}

Event == [id: Nat, aggregate: Memberships \union {Org}, type: EventTypes,
          at: Nat, creator: Users \union {None}, clerkRole: ClerkRoles,
          invitation: Invitations \union {None}]

ASSUME OrganizationAssumption ==
    /\ UserOf \in [Memberships -> Users]
    /\ Org \notin Memberships
    /\ None \notin Users \union Invitations

ASSUME EventsAssumption ==
    /\ Events \subseteq Event
    /\ \A e, f \in Events : e.id = f.id => e = f

-----------------------------------------------------------------------------
EventRank(type) == CASE type = "deleted" -> 3
                     [] type = "updated" -> 2
                     [] type = "created" -> 1

(* IsStale: e does not come after latest in timestamp, rank and id *)
IsStale(e, latest) ==
    \/ e.at < latest.at
    \/ /\ e.at = latest.at
       /\ \/ EventRank(e.type) < EventRank(latest.type)
          \/ EventRank(e.type) = EventRank(latest.type) /\ e.id <= latest.id

(* Stale against the latest of the aggregate's other events is stale       *)
(* against one of them.                                                    *)
Superseded(e, inbox) ==
    \E f \in inbox : f.aggregate = e.aggregate /\ f.id # e.id /\ IsStale(e, f)

InitialApplicationRole(clerkRole) ==
    IF clerkRole = "org:admin" THEN "admin" ELSE "viewer"
=============================================================================
