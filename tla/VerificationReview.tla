-------------------------- MODULE VerificationReview --------------------------
(***************************************************************************)
(* The profile, the verification and the business e-mail proof of one      *)
(* organization: requests of its members (internal/organizationonboarding, *)
(* internal/businessverification), decisions of platform reviewers         *)
(* (internal/platformreview), and what changes under them: the members who *)
(* may act, the organization's deletion, the reviewers' accounts and roles. *)
(*                                                                         *)
(* A session is one HTTP request.  It is authorized by statements outside  *)
(* any transaction (currentorganization.Resolve, AuthorizeReviewer), then  *)
(* decides and writes in one.  Requests, edits and decisions lock the      *)
(* organization's row, proofs the organization's advisory lock.            *)
(***************************************************************************)
EXTENDS PlatformAccess, Sequences, Naturals

CONSTANTS
    Sessions,         \* HTTP requests that can be in progress at once
    Members,          \* memberships of the organization
    Fields, Values, Patches,
    Unset,            \* the value of a field that was never edited
    Nobody,           \* the holder of a free lock; the author of no proof
    NoRequest,        \* what an idle session handles
    NoRow,            \* what a session outside a transaction has read
    MaxRequests,      \* bound: requests begun in a run
    MaxChanges        \* bound: changes around them in a run

VARIABLES
    org,          \* the committed row of the organization
    trail,        \* audit: verification requested, verification reviewed
    edits,        \* audit: how many times profile.updated
    proofs,       \* audit: the authors of business_email.verified
    administrators,   \* memberships that have the permissions of these requests
    rowLock,      \* the holder of the organization's row lock
    advisory,     \* the holder of the organization's advisory lock
    pc,           \* what each session does next, or how its request ended
    request,      \* what each session handles
    seen,         \* the row each transaction read under the row lock
    witnessed,    \* history: what held at some moment of each request
    requests,     \* requests begun so far
    changes       \* changes so far

locks == <<rowLock, advisory>>
tables == <<org, trail, edits, proofs>>
session == <<pc, request, seen>>
vars == <<account, assignment, granting, org, trail, edits, proofs, administrators,
          rowLock, advisory, pc, request, seen, witnessed, requests, changes>>

L == INSTANCE VerificationLifecycle
        WITH lifecycle <- org.lifecycle, verification <- org.verification,
             profile <- org.profile

-----------------------------------------------------------------------------
(* The administrators are the active owners and admins that are not        *)
(* reserved for removal: no other membership has a permission needed here. *)
Decisions == {"verified", "rejected"}

Requests ==
    [op: {"request", "prove"}, by: Members]
    \union [op: {"edit"}, by: Members, patch: Patches]
    \union [op: {"decide"}, by: Accounts, decision: Decisions]

Rows == [lifecycle: L!Lifecycles, verification: L!Statuses,
         profile: [Fields -> Values], proof: Members \union {Nobody}]

Ended == {"idle", "succeeded"}
InProgress == {"begun", "inside", "authorized", "locked"}

ASSUME ReviewAssumption ==
    /\ Unset \in Values
    /\ \A p \in Patches : DOMAIN p \subseteq Fields /\ p \in [DOMAIN p -> Values]
    /\ Nobody \notin Sessions \union Members
    /\ NoRequest \notin Requests
    /\ NoRow \notin Rows
    /\ MaxRequests \in Nat /\ MaxChanges \in Nat

(* The facts a request's authorization looks at, and those that hold *)
Needed(r) == IF r.op = "decide" THEN {"account", "role"}
                                ELSE {"organization", "standing"}
Facts(r) ==
    IF r.op = "decide"
    THEN {f \in {"account", "role"} :
            IF f = "account" THEN account[r.by] = "active"
                             ELSE assignment[r.by] = "active"}
    ELSE {f \in {"organization", "standing"} :
            IF f = "organization" THEN org.lifecycle = "active"
                                  ELSE r.by \in administrators}

TypeOK ==
    /\ PlatformTypeOK
    /\ org \in Rows
    /\ trail \in Seq([from: L!Statuses, to: L!Statuses])
    /\ edits \in Nat
    /\ proofs \in Seq(Members)
    /\ administrators \in SUBSET Members
    /\ rowLock \in Sessions \union {Nobody}
    /\ advisory \in Sessions \union {Nobody}
    /\ pc \in [Sessions -> Ended \union InProgress]
    /\ request \in [Sessions -> Requests \union {NoRequest}]
    /\ seen \in [Sessions -> Rows \union {NoRow}]
    /\ \A s \in Sessions :
          /\ request[s] = NoRequest <=> pc[s] = "idle"
          /\ seen[s] # NoRow <=> pc[s] = "locked" /\ request[s].op # "prove"
    /\ witnessed \in [Sessions ->
            SUBSET {"account", "role", "organization", "standing"}]
    /\ requests \in 0 .. MaxRequests
    /\ changes \in 0 .. MaxChanges

Init ==
    /\ PlatformInit
    /\ org \in {[lifecycle |-> l, verification |-> "unverified",
                 profile |-> [f \in Fields |-> Unset], proof |-> Nobody] :
                    l \in {"pending", "active"}}
    /\ trail = << >>
    /\ edits = 0
    /\ proofs = << >>
    /\ administrators \in SUBSET Members
    /\ rowLock = Nobody
    /\ advisory = Nobody
    /\ pc = [s \in Sessions |-> "idle"]
    /\ request = [s \in Sessions |-> NoRequest]
    /\ seen = [s \in Sessions |-> NoRow]
    /\ witnessed = [s \in Sessions |-> {}]
    /\ requests = 0
    /\ changes = 0

-----------------------------------------------------------------------------
(* Authorization, before any transaction *)

(* A reviewer's request begins with the answer of GET /me, which may come  *)
(* from the cache and so says nothing that the next statement does not.    *)
Begin(s, r) ==
    /\ pc[s] \in Ended
    /\ requests < MaxRequests
    /\ requests' = requests + 1
    /\ pc' = [pc EXCEPT ![s] = "begun"]
    /\ request' = [request EXCEPT ![s] = r]
    /\ UNCHANGED <<locks, seen>>

(* The first fact is read, then the second: the organization's status and  *)
(* the actor's membership, or the reviewer's account and its roles.        *)
FirstRead(r) == IF r.op = "decide" THEN AccountAdmitted(r.by)
                                   ELSE org.lifecycle = "active"
SecondRead(r) == IF r.op = "decide" THEN RoleListed(r.by)
                                    ELSE r.by \in administrators

Read(s) ==
    /\ \/ pc[s] = "begun" /\ FirstRead(request[s])
          /\ pc' = [pc EXCEPT ![s] = "inside"]
       \/ pc[s] = "inside" /\ SecondRead(request[s])
          /\ pc' = [pc EXCEPT ![s] = "authorized"]
    /\ UNCHANGED <<locks, request, seen, requests>>

-----------------------------------------------------------------------------
(* Transactions *)

(* Mutation: the row is read without FOR UPDATE *)
BugPlainRead == TRUE
RowFree == rowLock = Nobody

(* Mutation: nobody waits for the advisory lock *)
BugNoAdvisoryLock == TRUE
AdvisoryFree == advisory = Nobody

(* LockOrganizationByID *)
LockRow(s) ==
    /\ pc[s] = "authorized" /\ request[s].op # "prove"
    /\ RowFree
    /\ rowLock' = s
    /\ seen' = [seen EXCEPT ![s] = org]
    /\ pc' = [pc EXCEPT ![s] = "locked"]
    /\ UNCHANGED <<advisory, request, requests>>

(* AcquireOrganizationLock and LockMembership: the standing is looked at   *)
(* again, the organization's status is not.                                *)
LockAdvisory(s) ==
    /\ pc[s] = "authorized" /\ request[s].op = "prove"
    /\ AdvisoryFree
    /\ request[s].by \in administrators
    /\ advisory' = s
    /\ pc' = [pc EXCEPT ![s] = "locked"]
    /\ UNCHANGED <<rowLock, request, seen, requests>>

(* Mutation: the transaction is not rolled back and keeps its lock *)
BugForgetsRollback(s, how) ==
    /\ pc' = [pc EXCEPT ![s] = how]
    /\ UNCHANGED <<locks, request, seen, requests>>

(* The request is answered and the transaction's locks are free.  Of a     *)
(* request that failed nothing is kept.                                    *)
End(s, how) ==
    /\ pc' = [pc EXCEPT ![s] = how]
    /\ request' = IF how = "succeeded" THEN request
                                       ELSE [request EXCEPT ![s] = NoRequest]
    /\ seen' = [seen EXCEPT ![s] = NoRow]
    /\ rowLock' = IF rowLock = s THEN Nobody ELSE rowLock
    /\ advisory' = IF advisory = s THEN Nobody ELSE advisory
    /\ UNCHANGED requests

(* A commit may be answered by an error that hides its success. *)
Answered(s) == \E how \in {"succeeded", "idle"} : End(s, how)

Target(r) == IF r.op = "decide" THEN r.decision ELSE "pending"

(* requireActive and the transitions of RequestVerification and Decide *)
Allowed(row, r) ==
    /\ row.lifecycle = "active"
    /\ r.op # "edit" => \/ row.verification = Target(r)
                        \/ <<row.verification, Target(r)>> \in L!Transitions

(* Mutation: a repeated request or decision is recorded again *)
BugRecordsRepeats(s) ==
    LET to == Target(request[s])
    IN /\ org' = [org EXCEPT !.verification = to]
       /\ trail' = Append(trail, [from |-> seen[s].verification, to |-> to])

(* UpdateVerificationStatus and its audit event; what is so already is     *)
(* answered without either.                                                *)
WriteStatus(s) ==
    LET from == seen[s].verification  to == Target(request[s])
    IN IF from = to THEN UNCHANGED <<org, trail>>
       ELSE /\ org' = [org EXCEPT !.verification = to]
            /\ trail' = Append(trail, [from |-> from, to |-> to])

CommitStatus(s) ==
    /\ pc[s] = "locked" /\ request[s].op \in {"request", "decide"}
    /\ Allowed(seen[s], request[s])
    /\ WriteStatus(s)
    /\ Answered(s)
    /\ UNCHANGED <<edits, proofs>>

(* UpdateProductProfile writes all fields, those not in the patch as read. *)
(* An edit that changes none of them is answered without an audit event.   *)
CommitEdit(s) ==
    /\ pc[s] = "locked" /\ request[s].op = "edit"
    /\ Allowed(seen[s], request[s])
    /\ LET merged == L!Merged(seen[s].profile, request[s].patch)
       IN /\ org' = [org EXCEPT !.profile = merged]
          /\ edits' = IF merged = seen[s].profile THEN edits ELSE edits + 1
    /\ Answered(s)
    /\ UNCHANGED <<trail, proofs>>

(* UpdateBusinessEmailVerification waits for the row, and matches it only  *)
(* while the organization is active; the audit event is written whether it *)
(* did or not.                                                             *)
CommitProof(s) ==
    /\ pc[s] = "locked" /\ request[s].op = "prove"
    /\ RowFree
    /\ org' = IF org.lifecycle = "active"
              THEN [org EXCEPT !.proof = request[s].by] ELSE org
    /\ proofs' = Append(proofs, request[s].by)
    /\ Answered(s)
    /\ UNCHANGED <<trail, edits>>

(* What the service refuses *)
Refused(s) ==
    LET r == request[s]
    IN \/ pc[s] = "begun" /\ ~FirstRead(r)
       \/ pc[s] = "inside" /\ ~SecondRead(r)
       \/ pc[s] = "authorized" /\ r.op = "prove" /\ AdvisoryFree
          /\ r.by \notin administrators
       \/ pc[s] = "locked" /\ r.op # "prove" /\ ~Allowed(seen[s], r)

(* Mutation: a decision that conflicts with an earlier one is answered as  *)
(* a repeated one                                                          *)
BugHidesConflicts(s) ==
    /\ Refused(s)
    /\ End(s, IF pc[s] = "locked" THEN "succeeded" ELSE "idle")
    /\ UNCHANGED tables

Refuse(s) == Refused(s) /\ End(s, "idle") /\ UNCHANGED tables

(* Mutation: the audit event is written outside the transaction *)
BugAuditSurvives(s) ==
    /\ pc[s] \in InProgress
    /\ proofs' = IF pc[s] = "locked" /\ request[s].op = "prove"
                 THEN Append(proofs, request[s].by) ELSE proofs
    /\ End(s, "idle")
    /\ UNCHANGED <<org, trail, edits>>

(* A timeout, an error of a call or of a statement, or a crash *)
Abort(s) == pc[s] \in InProgress /\ End(s, "idle") /\ UNCHANGED tables

-----------------------------------------------------------------------------
(* Around the sessions *)

(* The events of the organization, under the advisory lock: a deletion is  *)
(* final, and leaves the memberships as they are.                          *)
Synchronize(to) ==
    /\ AdvisoryFree /\ RowFree
    /\ org.lifecycle # "deleted" /\ org.lifecycle # to
    /\ org' = [org EXCEPT !.lifecycle = to]
    /\ UNCHANGED <<trail, edits, proofs, administrators, platform>>

(* Role changes, removals, their release: under the advisory lock *)
ChangeStanding(m) ==
    /\ AdvisoryFree
    /\ administrators' = IF m \in administrators THEN administrators \ {m}
                                                 ELSE administrators \union {m}
    /\ UNCHANGED <<tables, platform>>

Change ==
    /\ changes < MaxChanges
    /\ changes' = changes + 1
    /\ \/ \E to \in {"active", "deleted"} : Synchronize(to)
       \/ \E m \in Members : ChangeStanding(m)
       \/ PlatformStep /\ UNCHANGED <<tables, administrators>>
    /\ UNCHANGED <<locks, session, requests>>

(* The queue, the audit trail and the operator's status command read and   *)
(* change nothing.                                                         *)
ReadOnly ==
    /\ \A s \in Sessions : pc[s] \in Ended
    /\ UNCHANGED <<platform, tables, administrators, locks, session, requests, changes>>

Proceed(s) ==
    /\ \/ Read(s) /\ UNCHANGED tables
       \/ LockRow(s) /\ UNCHANGED tables
       \/ LockAdvisory(s) /\ UNCHANGED tables
       \/ CommitStatus(s)
       \/ CommitEdit(s)
       \/ CommitProof(s)
       \/ Refuse(s)
    /\ UNCHANGED <<platform, administrators, changes>>

SessionStep(s) ==
    \/ \E r \in Requests : Begin(s, r) /\ UNCHANGED <<platform, tables, administrators, changes>>
    \/ Proceed(s)
    \/ Abort(s) /\ UNCHANGED <<platform, administrators, changes>>

(* The history variable: what held at some moment of the request *)
Witness ==
    witnessed' = [s \in Sessions |->
        IF pc'[s] \in Ended THEN {}
        ELSE Facts(request[s])' \union (IF pc[s] \in Ended THEN {} ELSE witnessed[s])]

Next ==
    /\ (\E s \in Sessions : SessionStep(s)) \/ Change \/ ReadOnly
    /\ Witness

Spec == Init /\ [][Next]_vars

(* PostgreSQL queues the waiters of a lock, and every holder ends. *)
FairSpec == Spec /\ \A s \in Sessions : SF_vars(Proceed(s) /\ Witness)

-----------------------------------------------------------------------------
(* Every status, request and decision, edit and synchronization is one     *)
(* step of the lifecycle: concurrent ones do not undo or overtake each     *)
(* other.                                                                  *)
ImplementsLifecycle == L!Spec

(* The audit trail accounts for the status: its entries follow the table,  *)
(* each begins where the one before ended, and the last is the status.     *)
TrailAccounts ==
    /\ \A i \in 1 .. Len(trail) :
          /\ <<trail[i].from, trail[i].to>> \in L!Transitions
          /\ trail[i].from = IF i = 1 THEN "unverified" ELSE trail[i - 1].to
    /\ org.verification = IF trail = << >> THEN "unverified" ELSE trail[Len(trail)].to

(* A reviewer who is told that a decision was made can find it: some       *)
(* review decided so, and a verification is never undone.                  *)
AnswersStand ==
    \A s \in Sessions :
        pc[s] = "succeeded" /\ request[s].op = "decide" =>
            /\ \E i \in 1 .. Len(trail) :
                  trail[i] = [from |-> "pending", to |-> request[s].decision]
            /\ request[s].decision = "verified" => org.verification = "verified"

(* Whoever gets as far as a transaction had, during the request, everything *)
(* that authorizes it: what was revoked before is of no use.                *)
AuthorizedDuringRequest ==
    \A s \in Sessions :
        pc[s] \in {"authorized", "locked"} => Needed(request[s]) \subseteq witnessed[s]

(* A proof is recorded for a member who is an administrator at that moment, *)
(* whatever changed since the request was authorized.                       *)
ProofByAdministrator ==
    [][\A m \in Members : proofs' = Append(proofs, m) => m \in administrators]_vars

(* Of an organization that is not deleted, the proof shown is the last one  *)
(* the audit trail has.                                                     *)
LastProof == IF proofs = << >> THEN Nobody ELSE proofs[Len(proofs)]
ProofAccounted == org.lifecycle # "deleted" => org.proof = LastProof

(* The README of organization-service says that the business e-mail proof   *)
(* and its audit event are written together: "product mutation and audit    *)
(* insert share the same PostgreSQL transaction".                           *)
EveryProofStored == org.proof = LastProof

(* Every request ends, although sessions wait for each other's locks.       *)
RequestsEnd ==
    \A s \in Sessions : pc[s] \in InProgress ~> pc[s] \in Ended
=============================================================================
