------------------------- MODULE AccountProjection -------------------------
(***************************************************************************)
(* What user synchronization promises, with no transactions in it: an      *)
(* event is accepted at most once and in one step, and it changes the      *)
(* account exactly when it is newer than every event of its user accepted  *)
(* before.  A BridgeWorks operator may disable an active account.          *)
(* UserSync implements this specification.                                 *)
(***************************************************************************)
EXTENDS ClerkEvents

VARIABLES
    seen,     \* events accepted so far
    account   \* what identity-service knows of each Clerk user

avars == <<seen, account>>

Statuses == {"none", "active", "disabled", "deleted"}
Account == [status: Statuses, email: Emails \union {NoEmail}]
NoAccount == [status |-> "none", email |-> NoEmail]

(* the account after event e is applied to it *)
Project(a, e) ==
    CASE e.type = "user.deleted" ->
           [status |-> "deleted", email |-> NoEmail]
      [] e.type # "user.deleted" /\ a.status = "none" ->
           [status |-> "active", email |-> e.email]
      [] e.type # "user.deleted" /\ a.status # "none" ->
           [a EXCEPT !.email = e.email]

AInit == seen = {} /\ account = [u \in Users |-> NoAccount]

Accept(e) ==
    /\ e \notin seen
    /\ seen' = seen \union {e}
    /\ account' = IF Superseding(e, seen) = {}
                  THEN [account EXCEPT ![e.user] = Project(@, e)]
                  ELSE account

DisableAccount(u) ==
    /\ account[u].status = "active"
    /\ account' = [account EXCEPT ![u].status = "disabled"]
    /\ UNCHANGED seen

ANext == \/ \E e \in Events : Accept(e)
         \/ \E u \in Users : DisableAccount(u)

ASpec == AInit /\ [][ANext]_avars
=============================================================================
