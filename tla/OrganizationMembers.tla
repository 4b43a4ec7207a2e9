------------------------- MODULE OrganizationMembers -------------------------
(***************************************************************************)
(* What membership administration promises about the members of one        *)
(* organization: every change of a row of app.memberships, a removal's     *)
(* reservation or an invitation takes effect at once, on the members there *)
(* are at that moment and with the authority its actor has at that moment. *)
(* There are no locks, transactions, retries or messages here.             *)
(***************************************************************************)
EXTENDS Naturals

CONSTANTS
    Memberships,    \* Clerk membership ids
    UserOf,         \* the user each membership belongs to
    Invitations,    \* ids of invitation intents
    Roles           \* application roles: owner, admin and others

VARIABLES
    status,     \* of each membership: "none", "active" or "deleted"
    role,       \* of each membership
    reserved,   \* members about to be removed, without authorization
    offered,    \* the role a pending invitation offers, or "none"
    founded     \* whether the organization got its first owner

mvars == <<status, role, reserved, offered, founded>>

Active == {m \in Memberships : status[m] = "active"}
Effective == Active \ reserved
Owners == {m \in Effective : role[m] = "owner"}
Of(user) == {m \in Memberships : UserOf[m] = user}

MInit ==
    /\ status = [m \in Memberships |-> "none"]
    /\ role = [m \in Memberships |-> "viewer"]
    /\ reserved = {}
    /\ offered = [i \in Invitations |-> "none"]
    /\ founded = FALSE

-----------------------------------------------------------------------------
(* What Clerk's events do.  With any of them an organization may get its   *)
(* first owner, once: a member whose user never lost a membership.  roles  *)
(* are those of the members otherwise.                                     *)
MayFound(roles) ==
    \/ role' = roles /\ founded' = founded
    \/ /\ ~founded /\ founded'
       /\ \E c \in Memberships :
             /\ status'[c] = "active" /\ c \notin reserved'
             /\ \A m \in Of(UserOf[c]) : status'[m] # "deleted"
             /\ role' = [roles EXCEPT ![c] = "owner"]

Found == MayFound(role) /\ UNCHANGED <<status, reserved, offered>>

(* A membership's row is new, and the only active one of its user *)
Enters(m) ==
    /\ status[m] = "none"
    /\ Active \intersect Of(UserOf[m]) = {}
    /\ status' = [status EXCEPT ![m] = "active"]
    /\ UNCHANGED reserved

Join(m, r) ==
    /\ r \in {"admin", "viewer"}
    /\ Enters(m)
    /\ MayFound([role EXCEPT ![m] = r])
    /\ UNCHANGED offered

(* by an invitation, which is used up *)
JoinInvited(m, i) ==
    /\ offered[i] # "none"
    /\ Enters(m)
    /\ MayFound([role EXCEPT ![m] = offered[i]])
    /\ offered' = [offered EXCEPT ![i] = "none"]

(* for good, by Clerk's event or because Clerk no longer knows the member *)
Leave(m) ==
    /\ status' = [status EXCEPT ![m] = "deleted"]
    /\ reserved' = reserved \ {m}
    /\ MayFound(role)
    /\ UNCHANGED offered

-----------------------------------------------------------------------------
(* What members do, each with the authority it has at that moment *)
MayManage(a, m) ==
    /\ a \in Effective
    /\ role[a] = "owner" \/ (role[a] = "admin" /\ role[m] # "owner")

(* somebody else owns the organization *)
NotLastOwner(m) == Owners \ {m} # {}

ChangeRole(a, m, r) ==
    /\ MayManage(a, m) /\ m \in Effective
    /\ r = "owner" => role[a] = "owner"
    /\ role[m] = "owner" /\ r # "owner" => NotLastOwner(m)
    /\ role' = [role EXCEPT ![m] = r]
    /\ UNCHANGED <<status, reserved, offered, founded>>

Transfer(a, m) ==
    /\ a \in Owners /\ m \in Effective \ {a}
    /\ role' = [role EXCEPT ![m] = "owner", ![a] = "admin"]
    /\ UNCHANGED <<status, reserved, offered, founded>>

(* Remove another member, or leave *)
Reserve(a, m) ==
    /\ MayManage(a, m) \/ (a = m /\ a \in Effective)
    /\ m \in Active
    /\ role[m] = "owner" => NotLastOwner(m)
    /\ reserved' = reserved \union {m}
    /\ UNCHANGED <<status, role, offered, founded>>

Release(m) ==
    /\ reserved' = reserved \ {m}
    /\ UNCHANGED <<status, role, offered, founded>>

Invite(a, i, r) ==
    /\ a \in Effective
    /\ role[a] = "owner" \/ (role[a] = "admin" /\ r # "owner")
    /\ offered[i] = "none"
    /\ offered' = [offered EXCEPT ![i] = r]
    /\ UNCHANGED <<status, role, reserved, founded>>

Withdraw(i) ==
    /\ offered' = [offered EXCEPT ![i] = "none"]
    /\ UNCHANGED <<status, role, reserved, founded>>

MNext ==
    \/ Found
    \/ \E m \in Memberships :
          \/ \E r \in Roles : Join(m, r)
          \/ \E i \in Invitations : JoinInvited(m, i)
          \/ Leave(m) \/ Release(m)
    \/ \E a, m \in Memberships :
          \/ \E r \in Roles : ChangeRole(a, m, r)
          \/ Transfer(a, m) \/ Reserve(a, m)
    \/ \E a \in Memberships, i \in Invitations, r \in Roles : Invite(a, i, r)
    \/ \E i \in Invitations : Withdraw(i)

MSpec == MInit /\ [][MNext]_mvars
=============================================================================
