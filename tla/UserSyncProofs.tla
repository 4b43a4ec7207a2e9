--------------------------- MODULE UserSyncProofs ---------------------------
(***************************************************************************)
(* Proofs about UserSync, for every set of users, events and workers.      *)
(*                                                                         *)
(* The safety properties rest on one inductive invariant, Inductive.  Its  *)
(* heart is Decisions: while a transaction holds the advisory lock, what   *)
(* it read (no superseding row, whether the account exists) stays true,    *)
(* because only the lock's holder can commit an inbox row or an account of *)
(* that user.  PublicIds adds that public ids are distinct, those of         *)
(* uncommitted inserts included.                                           *)
(***************************************************************************)
EXTENDS UserSync, TLAPS

(* uncommitted inbox rows are new, and no two workers insert the same one *)
PendingIsNew ==
    \A w \in Workers :
        pc[w] \in Pending =>
            /\ event[w] \notin inbox
            /\ \A v \in Workers \ {w} :
                  pc[v] \in Pending => event[v] # event[w]

(* a duplicate, and what is about to be invalidated, is recorded *)
FinishedIsRecorded ==
    \A w \in Workers :
        pc[w] \in {"duplicate", "invalidate"} => event[w] \in inbox

LockExclusive ==
    \A v, w \in Workers :
        v # w /\ Holds(v) /\ Holds(w) => event[v].user # event[w].user

(* what a transaction found under the lock still holds when it commits *)
Decisions ==
    \A w \in Workers :
        /\ pc[w] # "commit" => write[w] = "none"
        /\ pc[w] \in {"read", "write"} => Superseding(event[w], inbox) = {}
        /\ pc[w] = "write" =>
              (exists[w] <=> row[event[w].user].status # "none")
        /\ pc[w] = "commit" =>
              ((write[w] = "none") <=> (Superseding(event[w], inbox) # {}))
        /\ write[w] = "insert" => row[event[w].user].status = "none"
        /\ write[w] = "email" =>
              /\ row[event[w].user].status # "none"
              /\ event[w].type # "user.deleted"
        /\ write[w] = "delete" =>
              /\ row[event[w].user].status # "none"
              /\ event[w].type = "user.deleted"

Inductive ==
    /\ TypeOK
    /\ PendingIsNew
    /\ FinishedIsRecorded
    /\ LockExclusive
    /\ Decisions
    /\ AcknowledgedIsRecorded
    /\ StaleCacheIsOwed

-----------------------------------------------------------------------------
(* Whatever a transaction writes, the account it leaves is well formed.  *)
LEMMA WrittenIsRow ==
    ASSUME TypeOK, NEW w \in Workers, event[w] \in Event, NEW r \in Row
    PROVE  Written(w, r) \in Row
<1> USE DEF TypeOK, Written, Row, Statuses
<1>1. write[w] \in Writes
  OBVIOUS
<1>2. CASE write[w] = "none"
  BY <1>2
<1>3. CASE write[w] = "insert"
  <2>1. event[w].email \in Emails \union {NoEmail}
    BY DEF Event
  <2> QED
    BY <1>3, <2>1
<1>4. CASE write[w] = "email"
  BY <1>4 DEF Event
<1>5. CASE write[w] = "delete"
  BY <1>5
<1> QED
  BY <1>1, <1>2, <1>3, <1>4, <1>5 DEF Writes

(* The initial state is well typed.  *)
LEMMA TypeInit == Init => TypeOK
BY ParametersAssumption, NoEmailAssumption
DEF Init, TypeOK, Row, NoRow, Statuses, Steps, InTransaction, Pending, Writes

(* Every statement of a transaction preserves the types.  *)
LEMMA TypeStep == TypeOK /\ [Next]_vars => TypeOK'
<1> SUFFICES ASSUME TypeOK, [Next]_vars PROVE TypeOK'
  OBVIOUS
<1> USE ParametersAssumption, EventsAssumption
    DEF TypeOK, Steps, InTransaction, Pending, Writes
<1>1. ASSUME NEW w \in Workers, NEW e \in Events, Deliver(w, e)
      PROVE  TypeOK'
  BY <1>1 DEF Deliver
<1>2. ASSUME NEW w \in Workers, InsertInboxEvent(w) PROVE TypeOK'
  BY <1>2 DEF InsertInboxEvent
<1>3. ASSUME NEW w \in Workers, LockClerkUser(w) PROVE TypeOK'
  BY <1>3 DEF LockClerkUser
<1>4. ASSUME NEW w \in Workers, HasSupersedingEvent(w) PROVE TypeOK'
  BY <1>4 DEF HasSupersedingEvent
<1>5. ASSUME NEW w \in Workers, GetUserByClerkID(w) PROVE TypeOK'
  BY <1>5 DEF GetUserByClerkID
<1>6. ASSUME NEW w \in Workers, UpdateUser(w) PROVE TypeOK'
  BY <1>6 DEF UpdateUser
<1>7. ASSUME NEW w \in Workers, InsertUser(w) PROVE TypeOK'
  BY <1>7 DEF InsertUser
<1>8. ASSUME NEW w \in Workers, IdUserCollision(w) PROVE TypeOK'
  BY <1>8 DEF IdUserCollision, Fault
<1>9. ASSUME NEW w \in Workers, IdUsersExhausted(w) PROVE TypeOK'
  BY <1>9 DEF IdUsersExhausted, Close
<1>10. ASSUME NEW w \in Workers, Commit(w) PROVE TypeOK'
  <2>1. event[w] \in Events /\ event[w] \in Event
    BY <1>10 DEF Commit
  <2>2. Written(w, row[event[w].user]) \in Row
    BY <2>1, WrittenIsRow DEF Event
  <2>3. row' \in [Users -> Row]
    BY <2>1, <2>2, <1>10 DEF Commit
  <2>4. dirty' \subseteq Users
    BY <2>1, <1>10 DEF Commit, Event
  <2> QED
    BY <2>1, <2>3, <2>4, <1>10 DEF Commit, Close
<1>11. ASSUME NEW w \in Workers, CommitDuplicate(w) PROVE TypeOK'
  BY <1>11 DEF CommitDuplicate, Close
<1>12. ASSUME NEW w \in Workers, Invalidate(w) PROVE TypeOK'
  BY <1>12 DEF Invalidate, Close
<1>13. ASSUME NEW w \in Workers, InvalidateFails(w) PROVE TypeOK'
  BY <1>13 DEF InvalidateFails, Close, Fault, Event
<1>14. ASSUME NEW w \in Workers, Abort(w) PROVE TypeOK'
  BY <1>14 DEF Abort, Close, Fault
<1>15. ASSUME NEW w \in Workers, CrashAfterCommit(w) PROVE TypeOK'
  BY <1>15 DEF CrashAfterCommit, Close, Fault
<1>16. ASSUME NEW u \in Users, Disable(u) PROVE TypeOK'
  BY <1>16 DEF Disable, Row, Statuses
<1>17. CASE UNCHANGED vars
  BY <1>17 DEF vars
<1> QED
  BY <1>1, <1>2, <1>3, <1>4, <1>5, <1>6, <1>7, <1>8, <1>9, <1>10, <1>11,
     <1>12, <1>13, <1>14, <1>15, <1>16, <1>17 DEF Next, Progress

(* Every step of the specification preserves the types of the state.  *)
THEOREM TypeCorrect == Spec => []TypeOK
BY TypeInit, TypeStep, PTL DEF Spec

-----------------------------------------------------------------------------
(* The inductive invariant holds in every reachable state.  *)
THEOREM InductiveInvariant == Spec => []Inductive
<1>1. Init => Inductive
  BY TypeInit DEF Init, Inductive, PendingIsNew, FinishedIsRecorded,
     LockExclusive, Decisions, AcknowledgedIsRecorded, StaleCacheIsOwed,
     Pending, Holds, NoRow
<1>2. Inductive /\ [Next]_vars => Inductive'
  <2> SUFFICES ASSUME Inductive, TypeOK, TypeOK', [Next]_vars
               PROVE  Inductive'
    BY TypeStep DEF Inductive
  <2> USE DEF Inductive, PendingIsNew, FinishedIsRecorded, LockExclusive,
              Decisions, AcknowledgedIsRecorded, StaleCacheIsOwed, Holds,
              Pending, Of
  <2>1. ASSUME NEW w \in Workers, NEW e \in Events, Deliver(w, e)
        PROVE  Inductive'
    BY <2>1 DEF Deliver, TypeOK
  <2>2. ASSUME NEW w \in Workers, InsertInboxEvent(w) PROVE Inductive'
    BY <2>2 DEF InsertInboxEvent, TypeOK
  <2>3. ASSUME NEW w \in Workers, LockClerkUser(w) PROVE Inductive'
    BY <2>3 DEF LockClerkUser, LockFree, TypeOK
  <2>4. ASSUME NEW w \in Workers, HasSupersedingEvent(w) PROVE Inductive'
    BY <2>4 DEF HasSupersedingEvent, TypeOK
  <2>5. ASSUME NEW w \in Workers, GetUserByClerkID(w) PROVE Inductive'
    <3>1. /\ pc' = [pc EXCEPT ![w] = "write"]
          /\ pc[w] = "read"
          /\ UNCHANGED <<inbox, row, event, write, acked, dirty, unfenced>>
      BY <2>5 DEF GetUserByClerkID
    <3>2. exists'[w] <=> row[event[w].user].status # "none"
      BY <2>5 DEF GetUserByClerkID, TypeOK
    <3>3. \A v \in Workers \ {w} : exists'[v] = exists[v]
      BY <2>5 DEF GetUserByClerkID, TypeOK
    <3>4. Decisions'
      <4> SUFFICES ASSUME NEW v \in Workers
                   PROVE  Decisions!(v)'
        OBVIOUS
      <4>1. CASE v = w
        BY <4>1, <3>1, <3>2 DEF TypeOK
      <4>2. CASE v # w
        BY <4>2, <3>1, <3>3 DEF TypeOK
      <4> QED
        BY <4>1, <4>2
    <3> QED
      BY <3>1, <3>4 DEF TypeOK
  <2>6. ASSUME NEW w \in Workers, UpdateUser(w) PROVE Inductive'
    BY <2>6 DEF UpdateUser, TypeOK
  <2>7. ASSUME NEW w \in Workers, InsertUser(w) PROVE Inductive'
    BY <2>7 DEF InsertUser, TypeOK
  <2>8. ASSUME NEW w \in Workers, IdUserCollision(w) PROVE Inductive'
    BY <2>8 DEF IdUserCollision, TypeOK
  <2>9. ASSUME NEW w \in Workers, IdUsersExhausted(w) PROVE Inductive'
    BY <2>9 DEF IdUsersExhausted, Close, TypeOK
  <2>10. ASSUME NEW w \in Workers, Commit(w) PROVE Inductive'
    <3> DEFINE e == event[w]
    <3>1. /\ pc[w] = "commit" /\ e \in Events \ inbox
          /\ pc' = [pc EXCEPT ![w] = "invalidate"]
          /\ event' = event
          /\ inbox' = inbox \union {e}
          /\ write' = [write EXCEPT ![w] = "none"]
          /\ exists' = [exists EXCEPT ![w] = FALSE]
          /\ row' = [row EXCEPT ![e.user] = Written(w, @)]
          /\ UNCHANGED <<acked, unfenced>>
      BY <2>10 DEF Commit, Close, TypeOK
    <3>2. PendingIsNew'
      BY <3>1 DEF TypeOK
    <3>3. FinishedIsRecorded'
      BY <3>1 DEF TypeOK
    <3>4. LockExclusive'
      BY <3>1 DEF TypeOK
    <3>5. Decisions'
      <4> SUFFICES ASSUME NEW v \in Workers
                   PROVE  Decisions!(v)'
        OBVIOUS
      <4>1. CASE v = w
        BY <4>1, <3>1 DEF TypeOK
      <4>2. CASE v # w /\ ~Holds(v)
        <5>1. pc'[v] = pc[v] /\ write'[v] = "none"
          BY <4>2, <3>1 DEF TypeOK
        <5> QED
          BY <4>2, <5>1
      <4>3. CASE v # w /\ Holds(v)
        <5>1. event[v] \in Events /\ event[v].user # e.user
          BY <4>3, <3>1 DEF TypeOK
        <5>2. Superseding(event[v], inbox') = Superseding(event[v], inbox)
          BY <5>1, <3>1 DEF Superseding
        <5>3. row'[event[v].user] = row[event[v].user]
          BY <5>1, <3>1, EventsAssumption DEF TypeOK, Event
        <5>4. /\ pc'[v] = pc[v] /\ write'[v] = write[v]
              /\ event'[v] = event[v] /\ exists'[v] = exists[v]
          BY <4>3, <3>1 DEF TypeOK
        <5>5. Decisions!(v)
          OBVIOUS
        <5> QED
          BY <5>2, <5>3, <5>4, <5>5
      <4> QED
        BY <4>1, <4>2, <4>3
    <3>6. AcknowledgedIsRecorded'
      BY <3>1
    <3>7. StaleCacheIsOwed'
      <4>1. e \in (inbox' \ acked') /\ \A u \in Users : Of(u) \subseteq Of(u)'
        BY <3>1
      <4>2. dirty' \subseteq dirty \union {e.user}
        BY <2>10 DEF Commit
      <4> QED
        BY <4>1, <4>2, <3>1 DEF TypeOK
    <3> QED
      BY <3>2, <3>3, <3>4, <3>5, <3>6, <3>7
  <2>11. ASSUME NEW w \in Workers, CommitDuplicate(w) PROVE Inductive'
    BY <2>11 DEF CommitDuplicate, Close, TypeOK
  <2>12. ASSUME NEW w \in Workers, Invalidate(w) PROVE Inductive'
    BY <2>12 DEF Invalidate, Close, TypeOK
  <2>13. ASSUME NEW w \in Workers, InvalidateFails(w) PROVE Inductive'
    BY <2>13 DEF InvalidateFails, Close, TypeOK
  <2>14. ASSUME NEW w \in Workers, Abort(w) PROVE Inductive'
    BY <2>14 DEF Abort, Close, TypeOK, InTransaction
  <2>15. ASSUME NEW w \in Workers, CrashAfterCommit(w) PROVE Inductive'
    BY <2>15 DEF CrashAfterCommit, Close, TypeOK
  <2>16. ASSUME NEW u \in Users, Disable(u) PROVE Inductive'
    BY <2>16 DEF Disable, TypeOK
  <2>17. CASE UNCHANGED vars
    BY <2>17 DEF vars
  <2> QED
    BY <2>1, <2>2, <2>3, <2>4, <2>5, <2>6, <2>7, <2>8, <2>9, <2>10, <2>11,
       <2>12, <2>13, <2>14, <2>15, <2>16, <2>17 DEF Next, Progress
<1> QED
  BY <1>1, <1>2, PTL DEF Spec

-----------------------------------------------------------------------------
(* What Clerk relies on: an event it has a 204 for is durably recorded.  *)
THEOREM AcknowledgementsAreDurable == Spec => []AcknowledgedIsRecorded
BY InductiveInvariant, PTL DEF Inductive

(* What the cache relies on: an account changed behind it is always owed    *)
(* another invalidation, unless Redis failed the last one.                  *)
THEOREM StaleCacheAlwaysOwed == Spec => []StaleCacheIsOwed
BY InductiveInvariant, PTL DEF Inductive

-----------------------------------------------------------------------------
(* Every step of the transactions is a step of AccountProjection, or none.  *)
THEOREM RefinesProjection == Spec => ImplementsProjection
<1> DEFINE Acc(r) == [status |-> r.status, email |-> r.email]
           account == [u \in Users |-> Acc(row[u])]
<1>1. Init => Projection!AInit
  BY DEF Init, Projection!AInit, NoRow, Projection!NoAccount
<1>2. Inductive /\ TypeOK' /\ [Next]_vars => [Projection!ANext]_Projection!avars
  <2> SUFFICES ASSUME Inductive, [Next]_vars
               PROVE  [Projection!ANext]_Projection!avars
    OBVIOUS
  <2>0. \A e : Projection!Superseding(e, inbox) = Superseding(e, inbox)
    BY DEF Projection!Superseding, Superseding, Projection!Supersedes,
       Supersedes, Projection!EventRank, EventRank
  <2>1. CASE UNCHANGED <<inbox, row>>
    BY <2>1 DEF Projection!avars
  <2>2. ASSUME NEW w \in Workers, NEW e \in Events, event[w] = e, Commit(w)
        PROVE  Projection!Accept(e)
    <3> DEFINE u == e.user
    <3>1. /\ e \in Events \ inbox /\ u \in Users
          /\ inbox' = inbox \union {e}
          /\ row' = [row EXCEPT ![u] = Written(w, @)]
      BY <2>2, EventsAssumption
      DEF Commit, Inductive, TypeOK, PendingIsNew, Pending, Event
    <3>2. row \in [Users -> Row] /\ row[u] \in Row
      BY <3>1 DEF Inductive, TypeOK
    <3>3. CASE Superseding(e, inbox) # {}
      <4>1. Written(w, row[u]) = row[u]
        BY <2>2, <3>3 DEF Inductive, Decisions, Commit, Written
      <4>2. row' = row
        BY <4>1, <3>1, <3>2
      <4> QED
        BY <3>1, <3>3, <4>2, <2>0 DEF Projection!Accept
    <3>4. CASE Superseding(e, inbox) = {}
      <4>1. Acc(Written(w, row[u])) = Projection!Project(Acc(row[u]), e)
        <5>1. e.type = "user.deleted" => e.email = NoEmail
          BY <3>1, EventsAssumption
        <5>2. write[w] \in {"insert", "email", "delete"}
          BY <2>2, <3>4
          DEF Inductive, Decisions, Commit, TypeOK, Writes
        <5>3. CASE write[w] = "insert"
          BY <5>1, <5>3, <3>2, <2>2
          DEF Inductive, Decisions, Written, Projection!Project, Row
        <5>4. CASE write[w] = "email"
          BY <5>4, <3>2, <2>2
          DEF Inductive, Decisions, Written, Projection!Project, Row
        <5>5. CASE write[w] = "delete"
          BY <5>5, <3>2, <2>2
          DEF Inductive, Decisions, Written, Projection!Project, Row
        <5> QED
          BY <5>2, <5>3, <5>4, <5>5
      <4>2. account' = [account EXCEPT ![u] = Projection!Project(@, e)]
        BY <3>1, <3>2, <4>1
      <4> QED
        BY <3>1, <3>4, <4>2, <2>0 DEF Projection!Accept
    <3> QED
      BY <3>3, <3>4
  <2>3. ASSUME NEW u \in Users, Disable(u)
        PROVE  Projection!DisableAccount(u)
    <3>1. row \in [Users -> Row]
      BY DEF Inductive, TypeOK
    <3>2. /\ row[u].status = "active" /\ inbox' = inbox
          /\ row' = [row EXCEPT ![u].status = "disabled"]
      BY <2>3 DEF Disable
    <3>3. account' = [account EXCEPT ![u].status = "disabled"]
      <4> SUFFICES ASSUME NEW v \in Users
                   PROVE  Acc(row'[v]) =
                          [account EXCEPT ![u].status = "disabled"][v]
        OBVIOUS
      <4>1. CASE v = u
        BY <4>1, <3>1, <3>2 DEF Row
      <4>2. CASE v # u
        BY <4>2, <3>1, <3>2
      <4> QED
        BY <4>1, <4>2
    <3>4. account[u].status = "active"
      BY <3>1, <3>2
    <3> HIDE DEF account
    <3> QED
      BY <3>2, <3>3, <3>4 DEF Projection!DisableAccount, account
  <2>4. ASSUME NEW w \in Workers, ~Commit(w),
               \/ \E e \in Events : Deliver(w, e)
               \/ Progress(w)
               \/ IdUserCollision(w) \/ InvalidateFails(w)
               \/ Abort(w) \/ CrashAfterCommit(w)
        PROVE  UNCHANGED <<inbox, row>>
    BY <2>4
    DEF Progress, Deliver, InsertInboxEvent, LockClerkUser,
        HasSupersedingEvent, GetUserByClerkID, UpdateUser, InsertUser,
        IdUserCollision, IdUsersExhausted, CommitDuplicate, Invalidate,
        InvalidateFails, Abort, CrashAfterCommit
  <2>5. ASSUME NEW w \in Workers, Commit(w)
        PROVE  event[w] \in Events
    BY <2>5 DEF Commit, Inductive, TypeOK
  <2>6. UNCHANGED vars => UNCHANGED <<inbox, row>>
    BY DEF vars
  <2>7. CASE \E w \in Workers : Commit(w)
    <3>1. PICK w \in Workers : Commit(w)
      BY <2>7
    <3>2. PICK e \in Events : event[w] = e
      BY <3>1, <2>5
    <3>3. Projection!Accept(e)
      BY <3>1, <3>2, <2>2
    <3> QED
      BY <3>3 DEF Projection!ANext
  <2>8. CASE \E u \in Users : Disable(u)
    BY <2>8, <2>3 DEF Projection!ANext
  <2> QED
    <3>1. CASE UNCHANGED vars
      BY <3>1, <2>6, <2>1
    <3>2. CASE Next
      <4>1. CASE \E w \in Workers : ~Commit(w) /\
                   \/ \E e \in Events : Deliver(w, e)
                   \/ Progress(w)
                   \/ IdUserCollision(w) \/ InvalidateFails(w)
                   \/ Abort(w) \/ CrashAfterCommit(w)
        BY <4>1, <2>1, <2>4
      <4> QED
        BY <3>2, <4>1, <2>7, <2>8 DEF Next
    <3> QED
      BY <3>1, <3>2
<1> QED
  BY <1>1, <1>2, InductiveInvariant, TypeCorrect, PTL
  DEF Spec, ImplementsProjection, Projection!ASpec

-----------------------------------------------------------------------------
(* The order of events is strict and total on events with distinct ids.  *)
LEMMA SupersedesIsStrictOrder ==
    /\ \A e \in Event : ~Supersedes(e, e)
    /\ \A e, f, g \in Event :
          Supersedes(g, f) /\ Supersedes(f, e) => Supersedes(g, e)
    /\ \A e, f \in Event :
          e.id # f.id => Supersedes(e, f) \/ Supersedes(f, e)
<1>1. \A t \in EventTypes : EventRank(t) \in Nat
  BY DEF EventTypes, EventRank
<1>2. \A e \in Event : e.at \in Nat /\ e.id \in Nat /\ EventRank(e.type) \in Nat
  BY <1>1 DEF Event
<1> QED
  BY <1>2 DEF Supersedes

(* At most one recorded event of a user has no superseding one.  *)
LEMMA NewestIsUnique ==
    ASSUME inbox \subseteq Events, NEW u \in Users,
           NEW m \in Of(u), Superseding(m, inbox) = {},
           NEW n \in Of(u), Superseding(n, inbox) = {}
    PROVE  m = n
<1>1. m \in Event /\ n \in Event /\ (m.id = n.id => m = n)
  BY EventsAssumption DEF Of
<1>2. ~Supersedes(m, n) \/ m.id = n.id
  BY DEF Superseding, Of
<1>3. ~Supersedes(n, m) \/ m.id = n.id
  BY DEF Superseding, Of
<1> QED
  BY <1>1, <1>2, <1>3, SupersedesIsStrictOrder

(* Some recorded event of each account is the newest, and is shown.  *)
Shown ==
    \A u \in Users :
        /\ (row[u].status = "none") <=> (Of(u) = {})
        /\ Of(u) # {} =>
              \E n \in Of(u) :
                 /\ Superseding(n, inbox) = {}
                 /\ row[u].email = n.email
                 /\ n.type = "user.deleted" => row[u].status = "deleted"
        /\ row[u].status = "deleted" =>
              \E e \in Of(u) : e.type = "user.deleted"

(* Committing keeps the newest event shown: the committed event is newer    *)
(* than all others and is applied, or is older than one of them and is not. *)
LEMMA CommitKeepsShown ==
    ASSUME Inductive, Shown, NEW w \in Workers, Commit(w),
           NEW e \in Events, event[w] = e
    PROVE  Shown'
<1>1. /\ e \in Event /\ e \notin inbox /\ e.user \in Users
      /\ inbox' = inbox \union {e} /\ inbox \subseteq Events
      /\ row' = [row EXCEPT ![e.user] = Written(w, @)]
      /\ row \in [Users -> Row]
  BY EventsAssumption
  DEF Commit, Inductive, TypeOK, PendingIsNew, Pending, Event
<1> SUFFICES ASSUME NEW u \in Users PROVE Shown!(u)'
  BY DEF Shown
<1>2. Shown!(u)
  BY DEF Shown
<1>3. CASE u # e.user
  <2>1. Of(u)' = Of(u) /\ row'[u] = row[u]
    BY <1>1, <1>3 DEF Of
  <2>2. ASSUME NEW n \in Of(u)
        PROVE  Superseding(n, inbox)' = Superseding(n, inbox)
    BY <1>1, <1>3 DEF Of, Superseding
  <2> QED
    BY <1>2, <2>1, <2>2
<1>4. CASE u = e.user /\ Superseding(e, inbox) = {}
  <2>1. e \in Of(u)'
    BY <1>1, <1>4 DEF Of
  <2>2. Superseding(e, inbox)' = {}
    BY <1>1, <1>4 DEF Superseding
  <2>3. write[w] \in {"insert", "email", "delete"} /\ pc[w] = "commit"
    BY <1>4 DEF Commit, Inductive, Decisions, TypeOK, Writes
  <2>4. e.type = "user.deleted" => e.email = NoEmail
    BY <1>1, EventsAssumption
  <2>5. row'[u] = Written(w, row[u]) /\ row[u] \in Row
    BY <1>1, <1>4
  <2>6. /\ row'[u].email = e.email
        /\ row'[u].status # "none"
        /\ e.type = "user.deleted" => row'[u].status = "deleted"
        /\ e.type # "user.deleted" /\ row'[u].status = "deleted"
              => row[u].status = "deleted"
    <3>1. CASE write[w] = "insert"
      BY <3>1, <2>4, <2>5, <1>4 DEF Written
    <3>2. CASE write[w] = "email"
      BY <3>2, <2>5, <1>4 DEF Written, Inductive, Decisions, Row
    <3>3. CASE write[w] = "delete"
      BY <3>3, <2>4, <2>5, <1>4 DEF Written, Inductive, Decisions, Row
    <3> QED
      BY <2>3, <3>1, <3>2, <3>3
  <2>7. Of(u) \subseteq Of(u)'
    BY <1>1 DEF Of
  <2> QED
    BY <1>2, <2>1, <2>2, <2>6, <2>7
<1>5. CASE u = e.user /\ Superseding(e, inbox) # {}
  <2>1. row'[u] = row[u]
    BY <1>1, <1>5 DEF Commit, Inductive, Decisions, Written
  <2>2. PICK f \in Superseding(e, inbox) : TRUE
    BY <1>5
  <2>3. f \in Of(u) /\ f \in Event /\ Supersedes(f, e)
    BY <2>2, <1>1, <1>5, EventsAssumption DEF Superseding, Of
  <2>4. PICK n \in Of(u) :
           /\ Superseding(n, inbox) = {}
           /\ row[u].email = n.email
           /\ n.type = "user.deleted" => row[u].status = "deleted"
    BY <1>2, <2>3
  <2>5. n \in Event /\ n \in inbox /\ (f.id = n.id => f = n)
    BY <2>3, <2>4, <1>1, EventsAssumption DEF Of
  <2>6. ~Supersedes(f, n)
    BY <2>3, <2>4, <2>5, SupersedesIsStrictOrder DEF Superseding, Of
  <2>7. ~Supersedes(e, n)
    BY <1>1, <2>3, <2>5, <2>6, SupersedesIsStrictOrder
  <2>8. Superseding(n, inbox)' = {}
    BY <1>1, <2>4, <2>7 DEF Superseding
  <2>9. Of(u) \subseteq Of(u)' /\ Of(u)' # {}
    BY <1>1, <2>3 DEF Of
  <2> QED
    BY <1>2, <2>1, <2>3, <2>4, <2>8, <2>9
<1> QED
  BY <1>3, <1>4, <1>5

(* Only a commit records events, and every other step keeps what is shown.  *)
LEMMA OthersKeepShown ==
    ASSUME Inductive, Shown, [Next]_vars,
           \A w \in Workers : ~Commit(w)
    PROVE  Shown'
<1>1. CASE UNCHANGED <<inbox, row>>
  BY <1>1 DEF Shown, Of, Superseding
<1>2. ASSUME NEW u \in Users, Disable(u)
      PROVE  Shown'
  <2>1. /\ inbox' = inbox /\ row[u].status = "active"
        /\ row \in [Users -> Row]
        /\ row' = [row EXCEPT ![u].status = "disabled"]
    BY <1>2 DEF Disable, Inductive, TypeOK
  <2>2. /\ row'[u].status = "disabled" /\ row'[u].email = row[u].email
        /\ \A v \in Users \ {u} : row'[v] = row[v]
    BY <2>1 DEF Row
  <2> QED
    BY <2>1, <2>2 DEF Shown, Of, Superseding
<1>3. CASE Next /\ ~\E u \in Users : Disable(u)
  <2>1. UNCHANGED <<inbox, row>>
    BY <1>3
    DEF Next, Progress, Deliver, InsertInboxEvent, LockClerkUser,
        HasSupersedingEvent, GetUserByClerkID, UpdateUser, InsertUser,
        IdUserCollision, IdUsersExhausted, CommitDuplicate, Invalidate,
        InvalidateFails, Abort, CrashAfterCommit
  <2> QED
    BY <1>1, <2>1
<1>4. UNCHANGED vars => UNCHANGED <<inbox, row>>
  BY DEF vars
<1> QED
  BY <1>1, <1>2, <1>3, <1>4

(* A row exists exactly when an event is recorded, and shows an event that  *)
(* nothing recorded supersedes.                                             *)
THEOREM ShownInvariant == Spec => []Shown
<1>1. Init => Shown
  <2> SUFFICES ASSUME Init, NEW u \in Users PROVE Shown!(u)
    BY DEF Shown
  <2>1. Of(u) = {} /\ row[u].status = "none"
    BY DEF Init, Of, NoRow
  <2> QED
    BY <2>1
<1>2. Inductive /\ Shown /\ [Next]_vars => Shown'
  <2> SUFFICES ASSUME Inductive, Shown, [Next]_vars PROVE Shown'
    OBVIOUS
  <2>1. CASE \E w \in Workers : Commit(w)
    <3>1. PICK w \in Workers : Commit(w)
      BY <2>1
    <3>2. PICK e \in Events : event[w] = e
      BY <3>1 DEF Commit, Inductive, TypeOK
    <3> QED
      BY <3>1, <3>2, CommitKeepsShown
  <2>2. CASE \A w \in Workers : ~Commit(w)
    BY <2>2, OthersKeepShown
  <2> QED
    BY <2>1, <2>2
<1> QED
  BY <1>1, <1>2, InductiveInvariant, PTL DEF Spec

(* The account always shows the newest recorded event of its user.  *)
THEOREM NewestAlwaysShown == Spec => []ShowsNewestEvent
<1>1. Inductive /\ Shown => ShowsNewestEvent
  <2> SUFFICES ASSUME Inductive, Shown, NEW u \in Users
               PROVE  ShowsNewestEvent!(u)
    BY DEF ShowsNewestEvent
  <2>1. inbox \subseteq Events
    BY DEF Inductive, TypeOK
  <2>2. CASE Of(u) # {}
    <3>1. PICK n \in Of(u) :
             /\ Superseding(n, inbox) = {}
             /\ row[u].email = n.email
             /\ n.type = "user.deleted" => row[u].status = "deleted"
      BY <2>2 DEF Shown
    <3>2. Newest(u) = n
      BY <2>1, <3>1, NewestIsUnique DEF Newest
    <3> QED
      BY <2>2, <3>1, <3>2 DEF Shown
  <2> QED
    BY <2>2 DEF Shown
<1> QED
  BY <1>1, InductiveInvariant, ShownInvariant, PTL

(* a deletion is newer than every other event of its user *)
DeletionsComeLast ==
    \A d, e \in Events :
        d.type = "user.deleted" /\ e.user = d.user /\ e # d
            => Supersedes(d, e)

(* When deletions come last, the result does not depend on the order of     *)
(* arrival.                                                                 *)
THEOREM OrderIrrelevantWhenDeletionsComeLast ==
    ASSUME DeletionsComeLast
    PROVE  Spec => []ArrivalOrderIrrelevant
<1>1. Inductive /\ Shown /\ ShowsNewestEvent => ArrivalOrderIrrelevant
  <2> SUFFICES ASSUME Inductive, Shown, ShowsNewestEvent,
                      NEW u \in Users, Of(u) # {}
               PROVE  ArrivalOrderIrrelevant!(u)!2
    BY DEF ArrivalOrderIrrelevant
  <2>1. row[u].email = Newest(u).email
    BY DEF ShowsNewestEvent
  <2>2. row[u].status = "deleted" => \E e \in Of(u) : e.type = "user.deleted"
    BY DEF Shown
  <2>3. ASSUME NEW d \in Of(u), d.type = "user.deleted"
        PROVE  row[u].status = "deleted"
    <3>1. PICK n \in Of(u) :
             /\ Superseding(n, inbox) = {}
             /\ n.type = "user.deleted" => row[u].status = "deleted"
      BY DEF Shown
    <3>2. /\ d \in Events /\ n \in Events /\ d.user = n.user
          /\ d \in inbox /\ (d.id = n.id => d = n)
      BY EventsAssumption DEF Of, Inductive, TypeOK
    <3>3. d # n => Supersedes(d, n)
      BY <2>3, <3>2 DEF DeletionsComeLast
    <3>4. d = n
      BY <3>1, <3>2, <3>3 DEF Superseding
    <3> QED
      BY <2>3, <3>1, <3>4
  <2> QED
    BY <2>1, <2>2, <2>3
<1> QED
  BY <1>1, InductiveInvariant, ShownInvariant, NewestAlwaysShown, PTL

Kept ==
    \A u \in Users :
        /\ row[u].status = "deleted" => row'[u].status = "deleted"
        /\ row[u].status = "disabled" =>
              row'[u].status \in {"disabled", "deleted"}

(* No Clerk event re-enables a disabled or deleted account.  *)
THEOREM AccountsNeverReenabled == Spec => NeverReenabled
<1>1. Inductive /\ [Next]_vars => [Kept]_row
  <2> SUFFICES ASSUME Inductive, [Next]_vars, row' # row
               PROVE  Kept
    OBVIOUS
  <2>1. row \in [Users -> Row]
    BY DEF Inductive, TypeOK
  <2>2. ASSUME NEW w \in Workers, Commit(w)
        PROVE  Kept
    <3>1. /\ pc[w] = "commit"
          /\ row' = [row EXCEPT ![event[w].user] = Written(w, @)]
      BY <2>2 DEF Commit
    <3> SUFFICES ASSUME NEW u \in Users, event[w].user = u
                 PROVE  Kept!(u)
      BY <2>1, <3>1 DEF Kept
    <3>2. row'[u] = Written(w, row[u]) /\ row[u] \in Row
      BY <2>1, <3>1
    <3>3. write[w] \in Writes
      BY DEF Inductive, TypeOK
    <3>4. CASE write[w] = "none"
      BY <3>4, <3>2 DEF Written
    <3>5. CASE write[w] = "insert"
      BY <3>5 DEF Inductive, Decisions
    <3>6. CASE write[w] = "email"
      BY <3>6, <3>2 DEF Written, Row
    <3>7. CASE write[w] = "delete"
      BY <3>7, <3>2 DEF Written, Row
    <3> QED
      BY <3>3, <3>4, <3>5, <3>6, <3>7 DEF Writes
  <2>3. ASSUME NEW v \in Users, Disable(v)
        PROVE  Kept
    BY <2>1, <2>3 DEF Disable, Row, Kept
  <2>4. \/ \E w \in Workers : Commit(w)
        \/ \E u \in Users : Disable(u)
    BY DEF Next, vars, Progress, Deliver, InsertInboxEvent, LockClerkUser,
           HasSupersedingEvent, GetUserByClerkID, UpdateUser, InsertUser,
           IdUserCollision, IdUsersExhausted, CommitDuplicate, Invalidate,
           InvalidateFails, Abort, CrashAfterCommit
  <2> QED
    BY <2>2, <2>3, <2>4
<1>2. [][Kept]_row => NeverReenabled
  BY DEF Kept, NeverReenabled
<1> QED
  BY <1>1, <1>2, InductiveInvariant, PTL DEF Spec
-----------------------------------------------------------------------------
(* Every account has a public id, no two accounts have the same one, and an *)
(* uncommitted insert holds one that no account and no other uncommitted    *)
(* insert has (the unique index on id_user).                                *)
PublicIds ==
    /\ \A u \in Users : (row[u].status = "none") <=> (row[u].id_user = NoId)
    /\ \A u, v \in Users :
          u # v /\ row[u].id_user # NoId => row[u].id_user # row[v].id_user
    /\ \A w \in Workers : (write[w] = "insert") <=> (newId[w] # NoId)
    /\ \A w \in Workers :
          newId[w] # NoId =>
              /\ ~IdTaken(newId[w])
              /\ \A v \in Workers \ {w} : newId[v] # newId[w]

(* A commit publishes the id its insert holds, or leaves the account's.  *)
LEMMA CommitKeepsPublicIds ==
    ASSUME Inductive, PublicIds, NEW w \in Workers, Commit(w)
    PROVE  /\ PublicIds'
           /\ \A u \in Users :
                 row[u].status # "none" => row'[u].id_user = row[u].id_user
<1> DEFINE u == event[w].user
<1>1. /\ pc[w] = "commit" /\ u \in Users
      /\ row \in [Users -> Row]
      /\ row' = [row EXCEPT ![u] = Written(w, @)]
      /\ write \in [Workers -> Writes]
      /\ write' = [write EXCEPT ![w] = "none"]
      /\ newId \in [Workers -> IdUsers \union {NoId}]
      /\ newId' = [newId EXCEPT ![w] = NoId]
  BY EventsAssumption DEF Commit, Close, Inductive, TypeOK, Event
<1>2. row[u] \in Row /\ row'[u] = Written(w, row[u])
  BY <1>1
<1>3. \A v \in Users \ {u} : row'[v] = row[v]
  BY <1>1
<1>4. CASE write[w] = "insert"
  <2>1. /\ row'[u].status # "none" /\ row'[u].id_user = newId[w]
        /\ row[u].status = "none" /\ newId[w] # NoId
        /\ \A v \in Users : row[v].id_user # newId[w]
    BY <1>2, <1>4 DEF Written, PublicIds, Inductive, Decisions, IdTaken
  <2>2. \A v \in Workers \ {w} : newId'[v] # NoId =>
           /\ newId'[v] # newId[w]
           /\ \A x \in Users : row[x].id_user # newId'[v]
    BY <1>1 DEF PublicIds, IdTaken
  <2> QED
    BY <1>1, <1>3, <2>1, <2>2 DEF PublicIds, IdTaken
<1>5. CASE write[w] # "insert"
  <2>1. /\ row'[u].id_user = row[u].id_user
        /\ row'[u].status = "none" <=> row[u].status = "none"
    <3>1. CASE write[w] = "none"
      BY <1>2, <3>1 DEF Written
    <3>2. CASE write[w] = "email"
      BY <1>2, <3>2 DEF Written, Row
    <3>3. CASE write[w] = "delete"
      BY <1>2, <3>3 DEF Written, Row, Inductive, Decisions
    <3> QED
      BY <1>1, <1>5, <3>1, <3>2, <3>3 DEF Writes
  <2>2. newId' = newId
    BY <1>1, <1>5 DEF PublicIds
  <2> QED
    BY <1>1, <1>3, <2>1, <2>2, <1>5 DEF PublicIds, IdTaken
<1> QED
  BY <1>4, <1>5

(* No other step changes a public id.  *)
LEMMA OthersKeepPublicIds ==
    ASSUME Inductive, PublicIds, [Next]_vars, \A w \in Workers : ~Commit(w)
    PROVE  /\ PublicIds'
           /\ \A u \in Users : row'[u].id_user = row[u].id_user
<1> USE DEF Inductive, TypeOK, PublicIds, IdTaken
<1>1. ASSUME NEW w \in Workers, row' = row, Close(w, "idle") \/ Close(w, "invalidate")
      PROVE  /\ PublicIds'
             /\ \A u \in Users : row'[u].id_user = row[u].id_user
  BY <1>1 DEF Close
<1>2. ASSUME NEW w \in Workers, InsertUser(w)
      PROVE  /\ PublicIds'
             /\ \A u \in Users : row'[u].id_user = row[u].id_user
  <2>1. PICK id \in IdUsers :
           /\ ~IdTaken(id) /\ ~IdReserved(id)
           /\ newId' = [newId EXCEPT ![w] = id]
    BY <1>2 DEF InsertUser
  <2>2. /\ row' = row /\ write' = [write EXCEPT ![w] = "insert"] /\ id # NoId
    BY <1>2, ParametersAssumption DEF InsertUser
  <2> QED
    BY <2>1, <2>2 DEF IdReserved
<1>3. ASSUME NEW w \in Workers, UpdateUser(w)
      PROVE  /\ PublicIds'
             /\ \A u \in Users : row'[u].id_user = row[u].id_user
  <2>1. write[w] = "none" /\ newId' = newId /\ row' = row
    BY <1>3 DEF UpdateUser, Decisions
  <2>2. /\ write'[w] \in {"email", "delete"}
        /\ \A v \in Workers \ {w} : write'[v] = write[v]
    BY <1>3 DEF UpdateUser
  <2> QED
    BY <2>1, <2>2
<1>4. ASSUME NEW v \in Users, Disable(v)
      PROVE  /\ PublicIds'
             /\ \A u \in Users : row'[u].id_user = row[u].id_user
  <2>1. /\ row[v].status = "active" /\ row \in [Users -> Row]
        /\ row' = [row EXCEPT ![v].status = "disabled"]
        /\ UNCHANGED <<write, newId>>
    BY <1>4 DEF Disable
  <2>2. \A u \in Users : /\ row'[u].id_user = row[u].id_user
                         /\ row'[u].status = "none" <=> row[u].status = "none"
    BY <2>1 DEF Row
  <2> QED
    BY <2>1, <2>2
<1>5. CASE UNCHANGED <<row, write, newId>>
  BY <1>5
<1>6. \/ \E w \in Workers : /\ row' = row
                            /\ Close(w, "idle") \/ Close(w, "invalidate")
      \/ \E w \in Workers : InsertUser(w) \/ UpdateUser(w)
      \/ \E v \in Users : Disable(v)
      \/ UNCHANGED <<row, write, newId>>
  BY DEF Next, vars, Progress, Deliver, InsertInboxEvent, LockClerkUser,
         HasSupersedingEvent, GetUserByClerkID, IdUserCollision,
         IdUsersExhausted, CommitDuplicate, Invalidate, InvalidateFails,
         Abort, CrashAfterCommit
<1> QED
  BY <1>1, <1>2, <1>3, <1>4, <1>5, <1>6

(* The public ids of all accounts and uncommitted inserts are distinct.  *)
THEOREM PublicIdsInvariant == Spec => []PublicIds
<1>1. Init => PublicIds
  BY ParametersAssumption DEF Init, PublicIds, NoRow
<1>2. Inductive /\ PublicIds /\ [Next]_vars => PublicIds'
  BY CommitKeepsPublicIds, OthersKeepPublicIds
<1> QED
  BY <1>1, <1>2, InductiveInvariant, PTL DEF Spec

PublicIdKept ==
    \A u \in Users :
        /\ row[u].status # "none" => row'[u].id_user = row[u].id_user
        /\ row'[u].status # "none" => row'[u].id_user \in IdUsers
        /\ \A v \in Users \ {u} :
              row'[u].id_user = row'[v].id_user => row'[u].id_user = NoId

(* An account keeps the public id it was created with for ever, and no two  *)
(* accounts share one, whatever ids the generator draws and however many    *)
(* transactions race: insertUser's savepoints and the unique index suffice. *)
THEOREM PublicIdsArePermanent == Spec => PublicIdPermanent
<1>1. Inductive /\ TypeOK' /\ PublicIds /\ PublicIds' /\ [Next]_vars
         => [PublicIdKept]_row
  <2> SUFFICES ASSUME Inductive, TypeOK', PublicIds, PublicIds', [Next]_vars,
                      NEW u \in Users
               PROVE  PublicIdKept!(u)
    BY DEF PublicIdKept
  <2>1. row[u].status # "none" => row'[u].id_user = row[u].id_user
    BY CommitKeepsPublicIds, OthersKeepPublicIds
  <2>2. row'[u] \in Row
    BY DEF TypeOK
  <2> QED
    BY <2>1, <2>2 DEF PublicIds, Row
<1>2. [][PublicIdKept]_row => PublicIdPermanent
  BY DEF PublicIdKept, PublicIdPermanent
<1> QED
  BY <1>1, <1>2, InductiveInvariant, TypeCorrect, PublicIdsInvariant, PTL
  DEF Spec
=============================================================================
