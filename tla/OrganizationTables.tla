------------------------- MODULE OrganizationTables -------------------------
(***************************************************************************)
(* What the transactions of organization-service do to the tables of one   *)
(* organization, as functions of the tables they read: the synchronization *)
(* of Clerk events (internal/organizationsync), the administration of      *)
(* memberships (internal/membershipadmin) and the reconciliation of        *)
(* removals (internal/organizationmaintenance).                            *)
(*                                                                         *)
(* Every one of them holds the organization's advisory lock from its first *)
(* read to its commit; how they interleave is in OrganizationMembership.   *)
(***************************************************************************)
EXTENDS OrganizationEvents, FiniteSets

AppRoles == {"owner", "admin", "viewer"}   \* recruiter, delivery_manager: as viewer
RowStatuses == {"none", "active", "deleted"}
IntentStatuses == {"none", "pending", "consumed", "deleted"}

(* requested and completed count the audit events of a membership's        *)
(* removal; the rest of the audit trail is left out.                       *)
Tables ==
    [inbox: SUBSET Events,
     org: [status: {"none", "pending", "active", "disabled", "deleted"},
           creator: Users \union {None}, bootstrapped: BOOLEAN,
           eligible: BOOLEAN],
     members: [Memberships -> [status: RowStatuses, role: AppRoles]],
     reserved: SUBSET Memberships,
     intents: [Invitations -> [status: IntentStatuses, role: AppRoles]],
     requested: [Memberships -> Nat],
     completed: [Memberships -> Nat]]

EmptyTables ==
    [inbox |-> {},
     org |-> [status |-> "none", creator |-> None, bootstrapped |-> FALSE,
              eligible |-> TRUE],
     members |-> [m \in Memberships |-> [status |-> "none", role |-> "viewer"]],
     reserved |-> {},
     intents |-> [i \in Invitations |-> [status |-> "none", role |-> "viewer"]],
     requested |-> [m \in Memberships |-> 0],
     completed |-> [m \in Memberships |-> 0]]

Active(d) == {m \in Memberships : d.members[m].status = "active"}
Deleted(d) == {m \in Memberships : d.members[m].status = "deleted"}
Effective(d) == Active(d) \ d.reserved
Owners(d) == {m \in Effective(d) : d.members[m].role = "owner"}
Of(user) == {m \in Memberships : UserOf[m] = user}

-----------------------------------------------------------------------------
(* Synchronization of Clerk events *)

AwaitsBootstrap(d) ==
    d.org.eligible /\ ~d.org.bootstrapped /\ d.org.creator # None

(* bootstrapInitialOwner: the creator's membership becomes the owner, once *)
(* and never after a membership of the creator was deleted.                *)
Bootstrap(d) ==
    LET candidates == Of(d.org.creator) \intersect Effective(d)
    IN CASE ~AwaitsBootstrap(d) -> d
         [] AwaitsBootstrap(d) /\ Of(d.org.creator) \intersect Deleted(d) # {} ->
                [d EXCEPT !.org.eligible = FALSE]
         [] AwaitsBootstrap(d) /\ Of(d.org.creator) \intersect Deleted(d) = {}
            /\ d.org.status = "active" /\ candidates # {} ->
                [d EXCEPT !.members = [m \in Memberships |->
                              IF m \in candidates THEN [@[m] EXCEPT !.role = "owner"]
                                                  ELSE @[m]],
                          !.org.bootstrapped = TRUE]
         [] OTHER -> d

(* applyOrganizationEvent: a deletion is final, and a disabled             *)
(* organization stays disabled.                                            *)
OrganizationEventAllowed(d, e) ==
    \/ e.type = "deleted"
    \/ d.org.status = "deleted"
    \/ None \in {e.creator, d.org.creator}
    \/ e.creator = d.org.creator

ApplyOrganizationEvent(d, e) ==
    CASE e.type = "deleted" -> [d EXCEPT !.org.status = "deleted"]
      [] e.type # "deleted" /\ d.org.status = "deleted" -> d
      [] OTHER ->
            Bootstrap([d EXCEPT
                !.org.status = IF @ = "disabled" THEN @ ELSE "active",
                !.org.creator = IF @ = None THEN e.creator ELSE @])

(* The row of a membership's deletion, and the removal it completes *)
WithDeleted(d, m) ==
    [d EXCEPT !.members[m].status = "deleted",
              !.reserved = @ \ {m},
              !.completed[m] = IF m \in d.reserved THEN @ + 1 ELSE @]

(* Mutation: the intent is looked up whether it was used or not *)
BugReusesIntent(d, e) == e.type = "created" /\ e.invitation # None

(* A pending intent of the invitation that a created event names *)
Invited(d, e) ==
    /\ e.type = "created"
    /\ e.invitation # None
    /\ d.intents[e.invitation].status = "pending"

(* Mutation: the intent's role is taken and the intent left pending *)
BugKeepsIntent(d, e) ==
    LET invited == Invited(d, e)
        role == IF invited THEN d.intents[e.invitation].role
                           ELSE InitialApplicationRole(e.clerkRole)
    IN [d EXCEPT !.members[e.aggregate] = [status |-> "active", role |-> role]]

(* insertMembership with ConsumeInvitationIntent; an invited creator       *)
(* renounces the bootstrap.                                                *)
WithJoined(d, e) ==
    LET invited == Invited(d, e)
        role == IF invited THEN d.intents[e.invitation].role
                           ELSE InitialApplicationRole(e.clerkRole)
        renounces == invited /\ AwaitsBootstrap(d) /\ d.org.creator = UserOf[e.aggregate]
    IN [d EXCEPT !.members[e.aggregate] = [status |-> "active", role |-> role],
                 !.intents = [i \in Invitations |->
                     IF invited /\ i = e.invitation
                     THEN [@[i] EXCEPT !.status = "consumed"] ELSE @[i]],
                 !.org.eligible = @ /\ ~renounces]

(* Mutation: the unique index counts deleted rows too *)
BugRefusesRejoin(d, e) ==
    \/ e.type = "deleted"
    \/ d.members[e.aggregate].status # "none"
    \/ (Active(d) \union Deleted(d)) \intersect Of(UserOf[e.aggregate]) = {}

(* Mutation: only the organization's own event tries the bootstrap *)
BugBootstrapsOnce(d, e) ==
    CASE e.type = "deleted" -> WithDeleted(d, e.aggregate)
      [] e.type # "deleted" /\ d.members[e.aggregate].status # "none" -> d
      [] OTHER -> WithJoined(d, e)

(* applyMembershipEvent.  The unique index refuses a second active row of  *)
(* a user: Clerk has to retry until the older membership's deletion came.  *)
MembershipEventAllowed(d, e) ==
    \/ e.type = "deleted"
    \/ d.members[e.aggregate].status # "none"
    \/ Active(d) \intersect Of(UserOf[e.aggregate]) = {}

ApplyMembershipEvent(d, e) ==
    LET known == [d EXCEPT !.org.status = IF @ = "none" THEN "pending" ELSE @]
    IN CASE e.type = "deleted" -> Bootstrap(WithDeleted(known, e.aggregate))
         [] e.type # "deleted" /\ d.members[e.aggregate].status # "none" ->
                Bootstrap(known)
         [] OTHER -> Bootstrap(WithJoined(known, e))

(* ProcessWithResult after the inbox insert: a stale event is recorded and *)
(* not applied.                                                            *)
EventAllowed(d, e) ==
    \/ Superseded(e, d.inbox)
    \/ e.aggregate = Org /\ OrganizationEventAllowed(d, e)
    \/ e.aggregate # Org /\ MembershipEventAllowed(d, e)

ApplyEvent(d, e) ==
    LET recorded == [d EXCEPT !.inbox = @ \union {e}]
    IN CASE Superseded(e, d.inbox) -> recorded
         [] ~Superseded(e, d.inbox) /\ e.aggregate = Org ->
                ApplyOrganizationEvent(recorded, e)
         [] OTHER -> ApplyMembershipEvent(recorded, e)

-----------------------------------------------------------------------------
(* Administration of memberships: the guards are those checked under the   *)
(* lock.                                                                   *)

(* Mutation: the owners are counted without the reservations *)
BugCountsReserved(d) ==
    Cardinality({m \in Active(d) : d.members[m].role = "owner"}) <= 1

LastOwner(d) == Cardinality(Owners(d)) <= 1

(* Mutation: the status of the target is not looked at *)
BugLocksDeleted(d, actor, target) == actor \in Effective(d)

(* beginLockedMemberships *)
Locked(d, actor, target) ==
    actor \in Effective(d) /\ (target = actor \/ target \in Active(d))

SetRoleAllowed(d, actor, target, role) ==
    /\ Locked(d, actor, target)
    /\ target \notin d.reserved
    /\ \/ d.members[actor].role = "owner"
       \/ d.members[actor].role = "admin" /\ d.members[target].role # "owner"
                                          /\ role # "owner"
    /\ d.members[target].role = "owner" /\ role # "owner" => ~LastOwner(d)

SetRole(d, target, role) == [d EXCEPT !.members[target].role = role]

TransferAllowed(d, actor, target) ==
    /\ actor # target
    /\ Locked(d, actor, target)
    /\ d.members[actor].role = "owner"
    /\ target \notin d.reserved

TransferOwnership(d, actor, target) ==
    [d EXCEPT !.members[target].role = "owner", !.members[actor].role = "admin"]

(* Remove of another member, Leave when the actor is the target *)
RemovalAllowed(d, actor, target) ==
    /\ Locked(d, actor, target)
    /\ \/ actor = target
       \/ d.members[actor].role = "owner"
       \/ d.members[actor].role = "admin" /\ d.members[target].role # "owner"
    /\ d.members[target].role = "owner" => ~LastOwner(d)

(* InsertMembershipRemovalIntent: removing the creator cancels a bootstrap *)
(* that did not happen yet.  A reservation that is there is kept.          *)
Reserve(d, target) ==
    LET cancels == ~d.org.bootstrapped /\ d.org.creator = UserOf[target]
    IN IF target \in d.reserved THEN d
       ELSE [d EXCEPT !.reserved = @ \union {target},
                      !.requested[target] = @ + 1,
                      !.org.eligible = @ /\ ~cancels]

(* deleteRemovalIntent, after Clerk refused the removal *)
Release(d, target) == [d EXCEPT !.reserved = @ \ {target}]

InviteAllowed(d, actor, role) ==
    /\ actor \in Effective(d)
    /\ \/ d.members[actor].role = "owner"
       \/ d.members[actor].role = "admin" /\ role # "owner"

InsertIntent(d, i, role) ==
    [d EXCEPT !.intents[i] = [status |-> "pending", role |-> role]]

(* deleteInvitationIntent, after Clerk refused the invitation *)
DeleteIntent(d, i) ==
    [d EXCEPT !.intents[i].status = IF @ = "pending" THEN "deleted" ELSE @]

-----------------------------------------------------------------------------
(* Mutation: the reservation is not looked up again *)
BugFinalizesBlindly(d, m) ==
    [WithDeleted(d, m) EXCEPT !.completed[m] = d.completed[m] + 1]

(* Mutation: only a row that is already deleted is finalized *)
BugFinalizesDeleted(d, m) ==
    IF m \in d.reserved /\ m \in Active(d) THEN d ELSE [d EXCEPT !.reserved = @ \ {m}]

(* finalizeAbsentMembership: the reservation is looked up again under the  *)
(* lock.                                                                   *)
Finalize(d, m) ==
    CASE m \notin d.reserved -> d
      [] m \in d.reserved /\ m \notin Active(d) -> [d EXCEPT !.reserved = @ \ {m}]
      [] OTHER -> WithDeleted(d, m)
=============================================================================
