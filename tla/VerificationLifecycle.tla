------------------------ MODULE VerificationLifecycle ------------------------
(***************************************************************************)
(* What organization-service promises of an organization's verification    *)
(* and product profile (README, "Manual company verification"): requests   *)
(* and decisions follow a fixed table, only while the organization is      *)
(* active; each leaves one entry in the audit trail; an edit of the        *)
(* profile changes the fields it names, keeps the others, and is audited   *)
(* when it changes anything.                                               *)
(***************************************************************************)
EXTENDS Sequences, Naturals

CONSTANTS
    Fields,     \* the fields of a product profile
    Values,     \* what a field holds
    Unset,      \* the value of a field that was never edited
    Patches     \* edits: functions from some of the fields to values

VARIABLES lifecycle, verification, profile, trail, edits

vars == <<lifecycle, verification, profile, trail, edits>>

(* The code never sets the fourth status, disabled. *)
Lifecycles == {"pending", "active", "deleted"}
Statuses == {"unverified", "pending", "verified", "rejected"}

(* CanTransitionVerification, between different statuses: a request, or a  *)
(* reviewer's decision.  A verified organization stays verified.           *)
Transitions ==
    {<<"unverified", "pending">>, <<"rejected", "pending">>,
     <<"pending", "verified">>, <<"pending", "rejected">>}

Init ==
    /\ lifecycle \in {"pending", "active"}
    /\ verification = "unverified"
    /\ profile = [f \in Fields |-> Unset]
    /\ trail = << >>
    /\ edits = 0

(* A request or a decision *)
Move(to) ==
    /\ lifecycle = "active"
    /\ <<verification, to>> \in Transitions
    /\ verification' = to
    /\ trail' = Append(trail, [from |-> verification, to |-> to])
    /\ UNCHANGED <<lifecycle, profile, edits>>

(* mergedValue, field by field *)
Merged(old, p) == [f \in Fields |-> IF f \in DOMAIN p THEN p[f] ELSE old[f]]

Edit(p) ==
    /\ lifecycle = "active"
    /\ profile' = Merged(profile, p)
    /\ edits' = IF profile' = profile THEN edits ELSE edits + 1
    /\ UNCHANGED <<lifecycle, verification, trail>>

(* The provider activates an organization, and deletes it for ever *)
Synchronize(to) ==
    /\ lifecycle # "deleted"
    /\ to \in {"active", "deleted"}
    /\ lifecycle' = to
    /\ UNCHANGED <<verification, profile, trail, edits>>

Next ==
    \/ \E to \in Statuses : Move(to)
    \/ \E p \in Patches : Edit(p)
    \/ \E to \in Lifecycles : Synchronize(to)

Spec == Init /\ [][Next]_vars
=============================================================================
