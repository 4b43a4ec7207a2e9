------------------------------ MODULE UserSync ------------------------------
(***************************************************************************)
(* Identity-service's synchronization of Clerk user webhooks               *)
(* (internal/usersync and its PostgreSQL store).                           *)
(*                                                                         *)
(* Clerk delivers every event at least once, in any order, until it reads  *)
(* a 204.  Each delivery is handled by a worker (an HTTP request in any    *)
(* replica) in one READ COMMITTED transaction, one action per statement:   *)
(*   insert the inbox row, take the user's advisory transaction lock, look *)
(*   for a superseding inbox row, read the account, write it, commit;      *)
(* and then invalidates the current-user cache before it answers.          *)
(* A transaction sees what others committed and its own writes; what it    *)
(* wrote becomes visible when it commits and vanishes when it aborts.      *)
(***************************************************************************)
EXTENDS ClerkEvents

CONSTANTS
    Workers,            \* deliveries that can be in progress at once
    IdUsers,            \* the public ids identityid.Generator can draw
    NoId,               \* no public id
    NoEvent,            \* the event of an idle worker
    MaxIdUserAttempts,  \* maxIDUserAttempts
    MaxFaults           \* bound: errors, crashes and id collisions in a run

ASSUME ParametersAssumption ==
    /\ NoId \notin IdUsers
    /\ NoEvent \notin Events
    /\ MaxIdUserAttempts \in Nat \ {0}
    /\ MaxFaults \in Nat

VARIABLES
    inbox,      \* committed rows of app.clerk_webhook_events
    row,        \* committed rows of app.app_users, by Clerk user
    pc,         \* the statement each worker runs next
    event,      \* the event each worker handles
    exists,     \* whether the worker's transaction read an account
    write,      \* the worker's uncommitted change to app.app_users
    newId,      \* the public id of an uncommitted insert
    attempts,   \* id_user collisions of this transaction
    acked,      \* events Clerk got a 204 for
    dirty,      \* accounts changed since the last successful invalidation
    unfenced,   \* accounts whose last invalidation attempt failed
    faults      \* faults so far

vars == <<inbox, row, pc, event, exists, write, newId, attempts,
          acked, dirty, unfenced, faults>>

-----------------------------------------------------------------------------
Statuses == {"none", "active", "disabled", "deleted"}
Row == [status: Statuses, email: Emails \union {NoEmail},
        id_user: IdUsers \union {NoId}]
NoRow == [status |-> "none", email |-> NoEmail, id_user |-> NoId]

Writes == {"none", "insert", "email", "delete"}

(* The inbox row of a worker past its insert is there but uncommitted.  A  *)
(* duplicate holds none, and takes no lock.                                *)
Pending == {"lock", "supersede", "read", "write", "commit"}
InTransaction == Pending \union {"insert", "duplicate"}
Steps == InTransaction \union {"idle", "invalidate"}

(* pg_advisory_xact_lock is held from its statement to the end of the      *)
(* transaction                                                             *)
Holds(w) == pc[w] \in {"supersede", "read", "write", "commit"}
BugNoAdvisoryLock(u) == TRUE  \* mutation: the lock statement is dropped
LockFree(u) == \A w \in Workers : Holds(w) => event[w].user # u

-----------------------------------------------------------------------------
Init ==
    /\ inbox = {}
    /\ row = [u \in Users |-> NoRow]
    /\ pc = [w \in Workers |-> "idle"]
    /\ event = [w \in Workers |-> NoEvent]
    /\ exists = [w \in Workers |-> FALSE]
    /\ write = [w \in Workers |-> "none"]
    /\ newId = [w \in Workers |-> NoId]
    /\ attempts = [w \in Workers |-> 0]
    /\ acked = {}
    /\ dirty = {}
    /\ unfenced = {}
    /\ faults = 0

(* the end of a transaction: its lock and its uncommitted rows go *)
Close(w, next) ==
    /\ pc' = [pc EXCEPT ![w] = next]
    /\ event' = [event EXCEPT ![w] = IF next = "idle" THEN NoEvent ELSE @]
    /\ exists' = [exists EXCEPT ![w] = FALSE]
    /\ write' = [write EXCEPT ![w] = "none"]
    /\ newId' = [newId EXCEPT ![w] = NoId]
    /\ attempts' = [attempts EXCEPT ![w] = 0]

Fault == faults < MaxFaults /\ faults' = faults + 1

-----------------------------------------------------------------------------
(* Clerk posts an event, for the first time or again; the transaction      *)
(* begins                                                                  *)
Deliver(w, e) ==
    /\ pc[w] = "idle"
    /\ pc' = [pc EXCEPT ![w] = "insert"]
    /\ event' = [event EXCEPT ![w] = e]
    /\ UNCHANGED <<inbox, row, exists, write, newId, attempts,
                   acked, dirty, unfenced, faults>>

(* INSERT ... ON CONFLICT DO NOTHING waits for an uncommitted row of the   *)
(* same event, and inserts nothing when there is a committed one           *)
InsertInboxEvent(w) ==
    /\ pc[w] = "insert"
    /\ \A v \in Workers \ {w} :
          pc[v] \in Pending => event[v] # event[w]
    /\ pc' = [pc EXCEPT ![w] = IF event[w] \in inbox THEN "duplicate"
                                                     ELSE "lock"]
    /\ UNCHANGED <<inbox, row, event, exists, write, newId, attempts,
                   acked, dirty, unfenced, faults>>

LockClerkUser(w) ==
    /\ pc[w] = "lock"
    /\ LockFree(event[w].user)
    /\ pc' = [pc EXCEPT ![w] = "supersede"]
    /\ UNCHANGED <<inbox, row, event, exists, write, newId, attempts,
                   acked, dirty, unfenced, faults>>

(* mutation: the superseding check is dropped *)
BugAppliesStale(w) ==
    /\ pc[w] = "supersede"
    /\ pc' = [pc EXCEPT ![w] = "read"]
    /\ UNCHANGED <<inbox, row, event, exists, write, newId, attempts,
                   acked, dirty, unfenced, faults>>

(* a stale event keeps its inbox row and changes nothing else *)
HasSupersedingEvent(w) ==
    /\ pc[w] = "supersede"
    /\ pc' = [pc EXCEPT ![w] = IF Superseding(event[w], inbox) = {}
                               THEN "read" ELSE "commit"]
    /\ UNCHANGED <<inbox, row, event, exists, write, newId, attempts,
                   acked, dirty, unfenced, faults>>

GetUserByClerkID(w) ==
    /\ pc[w] = "read"
    /\ exists' = [exists EXCEPT ![w] = row[event[w].user].status # "none"]
    /\ pc' = [pc EXCEPT ![w] = "write"]
    /\ UNCHANGED <<inbox, row, event, write, newId, attempts,
                   acked, dirty, unfenced, faults>>

(* UpdatePrimaryEmail or MarkDeleted *)
UpdateUser(w) ==
    /\ pc[w] = "write"
    /\ exists[w]
    /\ write' = [write EXCEPT ![w] =
                   IF event[w].type = "user.deleted" THEN "delete"
                                                     ELSE "email"]
    /\ pc' = [pc EXCEPT ![w] = "commit"]
    /\ UNCHANGED <<inbox, row, event, exists, newId, attempts,
                   acked, dirty, unfenced, faults>>

IdTaken(id) == \E u \in Users : row[u].id_user = id
IdReserved(id) == \E v \in Workers : newId[v] = id

(* insertUser draws a free id_user *)
InsertUser(w) ==
    /\ pc[w] = "write"
    /\ ~exists[w]
    /\ attempts[w] < MaxIdUserAttempts
    /\ row[event[w].user].status = "none"  \* app_users_clerk_user_id_uq
    /\ \E id \in IdUsers :
          /\ ~IdTaken(id) /\ ~IdReserved(id)
          /\ newId' = [newId EXCEPT ![w] = id]
    /\ write' = [write EXCEPT ![w] = "insert"]
    /\ pc' = [pc EXCEPT ![w] = "commit"]
    /\ UNCHANGED <<inbox, row, event, exists, attempts,
                   acked, dirty, unfenced, faults>>

(* insertUser draws an id_user another account has: the savepoint is       *)
(* rolled back and the next attempt draws again                            *)
IdUserCollision(w) ==
    /\ pc[w] = "write"
    /\ ~exists[w]
    /\ attempts[w] < MaxIdUserAttempts
    /\ \E id \in IdUsers : IdTaken(id)
    /\ attempts' = [attempts EXCEPT ![w] = @ + 1]
    /\ UNCHANGED <<inbox, row, pc, event, exists, write, newId,
                   acked, dirty, unfenced, faults>>

(* ErrIDUserCollisionExhausted rolls back; Clerk reads a 503 *)
IdUsersExhausted(w) ==
    /\ pc[w] = "write"
    /\ attempts[w] = MaxIdUserAttempts
    /\ Close(w, "idle")
    /\ UNCHANGED <<inbox, row, acked, dirty, unfenced, faults>>

-----------------------------------------------------------------------------
(* mutations: an update re-activates; a deletion replaces the account *)
BugReactivates(w, r) ==
    IF write[w] = "none" THEN r
    ELSE [status  |-> IF event[w].type = "user.deleted" THEN "deleted"
                                                        ELSE "active",
          email   |-> event[w].email,
          id_user |-> IF write[w] = "insert" THEN newId[w] ELSE r.id_user]
BugDeletionReplaces(w, r) ==
    CASE write[w] \in {"none", "email"} -> r
      [] write[w] \in {"insert", "delete"} ->
           [status  |-> IF event[w].type = "user.deleted" THEN "deleted"
                                                          ELSE "active",
            email   |-> event[w].email, id_user |-> newId[w]]

(* the account after the worker's write *)
Written(w, r) ==
    CASE write[w] = "none" -> r
      [] write[w] = "insert" ->
           [status  |-> IF event[w].type = "user.deleted" THEN "deleted"
                                                          ELSE "active",
            email   |-> event[w].email,
            id_user |-> newId[w]]
      [] write[w] = "email" -> [r EXCEPT !.email = event[w].email]
      [] write[w] = "delete" ->
           [r EXCEPT !.status = "deleted", !.email = NoEmail]

(* the transaction of a processed or stale event commits *)
Commit(w) ==
    /\ pc[w] = "commit"
    /\ inbox' = inbox \union {event[w]}
    /\ row' = [row EXCEPT ![event[w].user] = Written(w, @)]
    /\ dirty' = IF write[w] = "none" THEN dirty
                                     ELSE dirty \union {event[w].user}
    /\ Close(w, "invalidate")
    /\ UNCHANGED <<acked, unfenced, faults>>

(* mutations: a duplicate is acknowledged without an invalidation, or is    *)
(* committed and never acknowledged                                        *)
BugDuplicateSkipsCache(w) ==
    /\ pc[w] = "duplicate"
    /\ acked' = acked \union {event[w]}
    /\ Close(w, "idle")
    /\ UNCHANGED <<inbox, row, dirty, unfenced, faults>>
BugDuplicateUnanswered(w) ==
    /\ pc[w] = "duplicate"
    /\ Close(w, "idle")
    /\ UNCHANGED <<inbox, row, acked, dirty, unfenced, faults>>

(* the transaction of a duplicate commits *)
CommitDuplicate(w) ==
    /\ pc[w] = "duplicate"
    /\ Close(w, "invalidate")
    /\ UNCHANGED <<inbox, row, acked, dirty, unfenced, faults>>

(* InvalidatingProcessor: processed, duplicate and stale deliveries all    *)
(* invalidate, and are answered 204                                        *)
Invalidate(w) ==
    /\ pc[w] = "invalidate"
    /\ dirty' = dirty \ {event[w].user}
    /\ unfenced' = unfenced \ {event[w].user}
    /\ acked' = acked \union {event[w]}
    /\ Close(w, "idle")
    /\ UNCHANGED <<inbox, row, faults>>

(* a failed invalidation is logged and the answer is still 204 *)
InvalidateFails(w) ==
    /\ pc[w] = "invalidate"
    /\ unfenced' = unfenced \union {event[w].user}
    /\ acked' = acked \union {event[w]}
    /\ Close(w, "idle")
    /\ Fault
    /\ UNCHANGED <<inbox, row, dirty>>

-----------------------------------------------------------------------------
(* mutation: the handler answers 204 although processing failed *)
BugAcknowledgesFailure(w) ==
    /\ pc[w] \in InTransaction
    /\ acked' = acked \union {event[w]}
    /\ Close(w, "idle")
    /\ Fault
    /\ UNCHANGED <<inbox, row, dirty, unfenced>>

(* an error, a timeout or a crash before the commit: nothing of the        *)
(* transaction stays and Clerk does not read a 204                         *)
Abort(w) ==
    /\ pc[w] \in InTransaction
    /\ Close(w, "idle")
    /\ Fault
    /\ UNCHANGED <<inbox, row, acked, dirty, unfenced>>

(* a crash after the commit, or a commit whose result was lost: the        *)
(* transaction stays, nothing is invalidated, and Clerk reads no 204       *)
CrashAfterCommit(w) ==
    /\ pc[w] = "invalidate"
    /\ Close(w, "idle")
    /\ Fault
    /\ UNCHANGED <<inbox, row, acked, dirty, unfenced>>

(* External: an operator's UPDATE disables an active account, waiting for  *)
(* the row lock of an uncommitted update                                   *)
Disable(u) ==
    /\ row[u].status = "active"
    /\ \A w \in Workers : write[w] # "none" => event[w].user # u
    /\ row' = [row EXCEPT ![u].status = "disabled"]
    /\ UNCHANGED <<inbox, pc, event, exists, write, newId, attempts,
                   acked, dirty, unfenced, faults>>

-----------------------------------------------------------------------------
(* what a worker does without a fault *)
Progress(w) ==
    \/ InsertInboxEvent(w) \/ LockClerkUser(w) \/ HasSupersedingEvent(w)
    \/ GetUserByClerkID(w) \/ UpdateUser(w) \/ InsertUser(w)
    \/ IdUsersExhausted(w) \/ Commit(w) \/ CommitDuplicate(w)
    \/ Invalidate(w)

Next ==
    \/ \E w \in Workers :
          \/ \E e \in Events : Deliver(w, e)
          \/ Progress(w)
          \/ IdUserCollision(w) \/ InvalidateFails(w)
          \/ Abort(w) \/ CrashAfterCommit(w)
    \/ \E u \in Users : Disable(u)

Spec == Init /\ [][Next]_vars

(* Clerk retries what it has no 204 for; PostgreSQL serves lock and row    *)
(* waiters in turn, so no worker waits for ever while others go on; random *)
(* ids do not collide for ever                                             *)
Fairness ==
    /\ \A e \in Events :
          SF_vars(e \notin acked /\ \E w \in Workers : Deliver(w, e))
    /\ \A w \in Workers : SF_vars(Progress(w))
    /\ SF_vars(\E w \in Workers : InsertUser(w))

FairSpec == Spec /\ Fairness

-----------------------------------------------------------------------------
TypeOK ==
    /\ inbox \subseteq Events
    /\ row \in [Users -> Row]
    /\ pc \in [Workers -> Steps]
    /\ event \in [Workers -> Events \union {NoEvent}]
    /\ \A w \in Workers : pc[w] = "idle" <=> event[w] = NoEvent
    /\ exists \in [Workers -> BOOLEAN]
    /\ write \in [Workers -> Writes]
    /\ newId \in [Workers -> IdUsers \union {NoId}]
    /\ attempts \in [Workers -> 0..MaxIdUserAttempts]
    /\ acked \subseteq Events
    /\ dirty \subseteq Users
    /\ unfenced \subseteq Users
    /\ faults \in 0..MaxFaults

Of(u) == {e \in inbox : e.user = u}
Newest(u) == CHOOSE e \in Of(u) : Superseding(e, inbox) = {}

(* The account shows the newest event whose inbox row is committed, however *)
(* the deliveries of one user interleave: ProcessWithResult looks for       *)
(* superseding rows only after its own row is inserted and under the lock.  *)
ShowsNewestEvent ==
    \A u \in Users :
        /\ (row[u].status = "none") <=> (Of(u) = {})
        /\ Of(u) # {} =>
              /\ row[u].email = Newest(u).email
              /\ Newest(u).type = "user.deleted" => row[u].status = "deleted"

(* The README: deletion wins and "the result does not depend on arrival     *)
(* order": the account is the one the recorded events give when applied in  *)
(* their order, in which a deletion is final.                               *)
ArrivalOrderIrrelevant ==
    \A u \in Users :
        Of(u) # {} =>
            /\ row[u].email = Newest(u).email
            /\ (row[u].status = "deleted")
                  <=> (\E e \in Of(u) : e.type = "user.deleted")

(* Clerk never reads a 204 for an event that a rollback could still lose.   *)
AcknowledgedIsRecorded == acked \subseteq inbox

(* An account changed behind the cache is still owed an invalidation: an    *)
(* event of it has no 204 yet, so that Clerk will deliver it again and the  *)
(* duplicate invalidates; or Redis failed the last attempt (and the data    *)
(* TTL takes over).  A crash between commit and invalidation loses nothing. *)
StaleCacheIsOwed ==
    \A u \in dirty : u \in unfenced \/ Of(u) \ acked # {}

(* No Clerk event re-enables an account: disabled leaves only to deleted,   *)
(* and deleted is final.                                                    *)
NeverReenabled ==
    [][\A u \in Users :
          /\ row[u].status = "deleted" => row'[u].status = "deleted"
          /\ row[u].status = "disabled" =>
                row'[u].status \in {"disabled", "deleted"}]_row

(* An account keeps the public id it was created with, and no two accounts  *)
(* ever share one, across collisions, retries and tombstones.               *)
PublicIdPermanent ==
    [][\A u \in Users :
          /\ row[u].status # "none" => row'[u].id_user = row[u].id_user
          /\ row'[u].status # "none" => row'[u].id_user \in IdUsers
          /\ \A v \in Users \ {u} :
                row'[u].id_user = row'[v].id_user => row'[u].id_user = NoId]_row

(* The transactions implement the one-step specification: inbox rows are    *)
(* the accepted events and the committed row is the account.                *)
Projection == INSTANCE AccountProjection
    WITH seen <- inbox,
         account <- [u \in Users |-> [status |-> row[u].status,
                                      email  |-> row[u].email]]

ImplementsProjection == Projection!ASpec

(* Every event is in the end recorded and acknowledged: duplicates, lock    *)
(* waits and transient failures never wedge an inbox.                       *)
EveryEventAcknowledged == \A e \in Events : <>(e \in acked)
=============================================================================
