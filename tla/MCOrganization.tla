--------------------------- MODULE MCOrganization ---------------------------
(* Instances of OrganizationMembership for TLC. *)
EXTENDS OrganizationMembership

CONSTANTS ann, bob, ma, mb, mc, i1

(* ann creates the organization and is its admin at Clerk; bob joins, and  *)
(* joins again as mc, perhaps by the invitation i1.                        *)
MCUserOf == [m \in Memberships |-> IF m = ma THEN ann ELSE bob]

E(id, aggregate, type, at, role, invitation) ==
    [id |-> id, aggregate |-> aggregate, type |-> type, at |-> at,
     creator |-> IF aggregate = Org THEN ann ELSE None,
     clerkRole |-> role, invitation |-> invitation]

(* bob is invited, joins by the invitation, leaves and joins again; his    *)
(* second membership still carries the invitation.  Every membership can   *)
(* end, in either order.                                                   *)
RejoinEvents ==
    {E(1, Org, "created", 1, "org:member", None),
     E(2, ma, "created", 1, "org:admin", None),
     E(3, mb, "created", 2, "org:member", i1),
     E(4, mb, "deleted", 3, "org:member", i1),
     E(5, mc, "created", 4, "org:member", i1),
     E(6, ma, "deleted", 5, "org:admin", None),
     E(7, Org, "deleted", 6, "org:member", None),
     E(8, mc, "deleted", 6, "org:member", i1)}
(* bob's second membership and the organization stay *)
MemberEvents == {e \in RejoinEvents : e.id \notin {7, 8}}

(* bob leaves and joins again without an invitation; ann and the           *)
(* organization stay                                                       *)
ReturnEvents == {[e EXCEPT !.invitation = None] : e \in
                    {e \in RejoinEvents : e.id \notin {6, 7}}}

(* ann creates the organization, and nobody is invited *)
RemovalEvents ==
    {E(1, Org, "created", 1, "org:member", None),
     E(2, ma, "created", 1, "org:admin", None),
     E(3, mb, "created", 2, "org:member", None)}

(* The invited member is updated soon after joining *)
UpdateEvents ==
    {E(1, Org, "created", 1, "org:member", None),
     E(2, ma, "created", 1, "org:admin", None),
     E(3, mb, "created", 2, "org:member", i1),
     E(4, mb, "updated", 3, "org:member", i1)}
=============================================================================
