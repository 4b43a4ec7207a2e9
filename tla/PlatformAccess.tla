--------------------------- MODULE PlatformAccess ---------------------------
(***************************************************************************)
(* The platform roles of identity-service: the accounts they belong to,    *)
(* the assignments an operator grants and revokes                          *)
(* (internal/platformaccessoperator), and what the two statements of a     *)
(* resolution (internal/platformaccess) see of them.  No transaction       *)
(* holds the statements of either together.  There is one role,            *)
(* platform_admin, with the permission to review verifications.            *)
(***************************************************************************)
EXTENDS FiniteSets

CONSTANTS Accounts

VARIABLES
    account,      \* app.app_users: the status of each account
    assignment,   \* app.platform_access_assignments: platform_admin
    granting      \* accounts that a grant in progress found to be active

platform == <<account, assignment, granting>>

AccountStatuses == {"active", "closed"}    \* closed: disabled or deleted
AssignmentStatuses == {"none", "active", "revoked"}

PlatformTypeOK ==
    /\ account \in [Accounts -> AccountStatuses]
    /\ assignment \in [Accounts -> AssignmentStatuses]
    /\ granting \in SUBSET Accounts

PlatformInit ==
    /\ account = [a \in Accounts |-> "active"]
    /\ assignment \in [Accounts -> AssignmentStatuses]
    /\ granting = {}

(* The two statements of Resolve *)
AccountAdmitted(a) == account[a] = "active"

(* Mutation: the rows are listed without "revoked_at is null" *)
BugListsRevoked(a) == assignment[a] # "none"
RoleListed(a) == assignment[a] = "active"

(* Grant looks the account up and then inserts or renews the assignment.   *)
(* Several grants of one account may be in progress: one that finishes     *)
(* need not be the last, and one may stop in between.                      *)
BeginGrant(a) ==
    /\ account[a] = "active"
    /\ granting' = granting \union {a}
    /\ UNCHANGED <<account, assignment>>

FinishGrant(a) ==
    /\ a \in granting
    /\ granting' \in {granting, granting \ {a}}
    /\ assignment' = [assignment EXCEPT ![a] = "active"]
    /\ UNCHANGED account

(* Revoke looks the account up only to know its key, whatever its status.  *)
Revoke(a) ==
    /\ assignment[a] = "active"
    /\ assignment' = [assignment EXCEPT ![a] = "revoked"]
    /\ UNCHANGED <<account, granting>>

(* The synchronization of users deletes an account, or an operator         *)
(* disables it; nothing makes it active again (UserSync, NeverReenabled).  *)
CloseAccount(a) ==
    /\ account[a] = "active"
    /\ account' = [account EXCEPT ![a] = "closed"]
    /\ UNCHANGED <<assignment, granting>>

PlatformStep ==
    \E a \in Accounts :
        BeginGrant(a) \/ FinishGrant(a) \/ Revoke(a) \/ CloseAccount(a)
=============================================================================
