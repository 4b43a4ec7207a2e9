----------------------- MODULE OrganizationMembership -----------------------
(***************************************************************************)
(* The memberships of one organization, in organization-service and at     *)
(* Clerk.                                                                  *)
(*                                                                         *)
(* Three kinds of process change the organization's tables, each in a      *)
(* transaction under the organization's advisory lock: webhook workers     *)
(* that synchronize Clerk's events, sessions that run the administration   *)
(* commands of members, and the maintenance job that reconciles removals.  *)
(* A transaction takes the lock and reads (TakeLock), and writes the rows  *)
(* it decided on when it commits (Commit): between the two, whatever does  *)
(* not wait for the lock can change the tables.                            *)
(*                                                                         *)
(* A removal and an invitation are reserved locally, committed, and only   *)
(* then asked of Clerk, outside any transaction: Clerk may do it, refuse   *)
(* it, or not answer in time and do it now, later or never.                *)
(***************************************************************************)
EXTENDS OrganizationTables

CONSTANTS
    Workers,        \* webhook deliveries that can be in progress at once
    Sessions,       \* administration commands that can be in progress at once
    Maintenance,    \* the maintenance job
    Nobody,         \* the holder of a free lock
    NoRequest,      \* what an idle process handles
    NoTables,       \* what a process outside a transaction has read
    MaxCommands,    \* bound: administration commands in a run
    MaxFaults       \* bound: failed transactions and unanswered calls in a run

Processes == Workers \union Sessions \union {Maintenance}

VARIABLES
    db,         \* the committed tables of the organization
    lock,       \* the holder of the organization's advisory lock
    pc,         \* what each process does next
    request,    \* what each process handles
    seen,       \* the tables each transaction read under the lock
    batch,      \* removals the maintenance job has yet to examine
    clerk,      \* the memberships at Clerk
    invited,    \* invitations Clerk sent
    late,       \* users whose removal Clerk may still carry out
    commands,   \* commands so far
    faults      \* faults so far

vars == <<db, lock, pc, request, seen, batch, clerk, invited, late,
          commands, faults>>

-----------------------------------------------------------------------------
(* A member leaves with the target that is the actor.  Roles and targets   *)
(* come from the command's request, the actor from the session's token.    *)
EventRequests == [op: {"event"}, event: Events]
Commands ==
    [op: {"setRole"}, actor: Memberships, target: Memberships, role: AppRoles]
    \union [op: {"transfer", "remove"}, actor: Memberships, target: Memberships]
    \union [op: {"invite"}, actor: Memberships, intent: Invitations, role: AppRoles]
Releases == [op: {"release"}, target: Memberships]
Withdrawals == [op: {"withdraw"}, intent: Invitations]
Finalizations == [op: {"finalize"}, target: Memberships]
Requests == EventRequests \union Commands \union Releases \union Withdrawals
            \union Finalizations

Steps == {"idle", "waiting", "locked", "calling"}

ASSUME ProcessesAssumption ==
    /\ Workers \intersect Sessions = {}
    /\ Maintenance \notin Workers \union Sessions
    /\ Nobody \notin Processes
    /\ NoRequest \notin Requests
    /\ IsFiniteSet(Memberships)
    /\ MaxCommands \in Nat /\ MaxFaults \in Nat

(* What the transaction of a request demands of the tables it reads, and   *)
(* what it makes of them.                                                  *)
Allowed(d, q) ==
    CASE q.op = "event" -> EventAllowed(d, q.event)
      [] q.op = "setRole" -> SetRoleAllowed(d, q.actor, q.target, q.role)
      [] q.op = "transfer" -> TransferAllowed(d, q.actor, q.target)
      [] q.op = "remove" -> RemovalAllowed(d, q.actor, q.target)
      [] q.op = "invite" -> InviteAllowed(d, q.actor, q.role)
      [] OTHER -> TRUE

Outcome(d, q) ==
    CASE q.op = "event" -> ApplyEvent(d, q.event)
      [] q.op = "setRole" -> SetRole(d, q.target, q.role)
      [] q.op = "transfer" -> TransferOwnership(d, q.actor, q.target)
      [] q.op = "remove" -> Reserve(d, q.target)
      [] q.op = "invite" -> InsertIntent(d, q.intent, q.role)
      [] q.op = "release" -> Release(d, q.target)
      [] q.op = "withdraw" -> DeleteIntent(d, q.intent)
      [] q.op = "finalize" -> Finalize(d, q.target)

(* The rows in which result differs from what was read, written to d *)
Changed(d, read, result) ==
    [x \in DOMAIN d |-> IF result[x] = read[x] THEN d[x] ELSE result[x]]

Written(d, read, result) ==
    [inbox |-> d.inbox \union (result.inbox \ read.inbox),
     org |-> Changed(d.org, read.org, result.org),
     members |-> Changed(d.members, read.members, result.members),
     reserved |-> (d.reserved \ (read.reserved \ result.reserved))
                  \union (result.reserved \ read.reserved),
     intents |-> Changed(d.intents, read.intents, result.intents),
     requested |-> Changed(d.requested, read.requested, result.requested),
     completed |-> Changed(d.completed, read.completed, result.completed)]

-----------------------------------------------------------------------------
(* Clerk's side *)

Members(user) == {m \in Of(user) : clerk[m] = "member"}

(* Clerk publishes a membership's events when it has come to them *)
Sent(e) ==
    CASE e.aggregate = Org -> TRUE
      [] e.aggregate # Org /\ e.type = "deleted" -> clerk[e.aggregate] = "gone"
      [] OTHER -> clerk[e.aggregate] # "none"

WithoutMember(user) ==
    [m \in Memberships |-> IF m \in Members(user) THEN "gone" ELSE clerk[m]]

(* A user joins, perhaps by an invitation, under a membership id of its own *)
ClerkJoins(m) ==
    /\ clerk[m] = "none"
    /\ Members(UserOf[m]) = {}
    /\ \A e \in Events : e.aggregate = m /\ e.type = "created" =>
            e.invitation \in invited \union {None}
    /\ clerk' = [clerk EXCEPT ![m] = "member"]
    /\ UNCHANGED <<db, lock, pc, request, seen, batch, invited, late, commands, faults>>

(* A member is removed at Clerk itself *)
ClerkRemoves(m) ==
    /\ clerk[m] = "member"
    /\ faults < MaxFaults
    /\ faults' = faults + 1
    /\ clerk' = [clerk EXCEPT ![m] = "gone"]
    /\ UNCHANGED <<db, lock, pc, request, seen, batch, invited, late, commands>>

(* Clerk carries out a removal that nobody waits for any more: the request *)
(* names the user, whichever membership the user has by now.               *)
ClerkRemovesLate(user) ==
    /\ user \in late
    /\ late' = late \ {user}
    /\ clerk' = WithoutMember(user)
    /\ UNCHANGED <<db, lock, pc, request, seen, batch, invited, commands, faults>>

-----------------------------------------------------------------------------
(* Transactions *)

(* mutation: no advisory lock *)
BugNoAdvisoryLock == TRUE

LockFree == lock = Nobody

Close(p) ==
    /\ lock' = IF lock = p THEN Nobody ELSE lock
    /\ seen' = [seen EXCEPT ![p] = NoTables]

Becomes(p, step, q) ==
    /\ pc' = [pc EXCEPT ![p] = step]
    /\ request' = [request EXCEPT ![p] = q]

(* AcquireOrganizationLock and the reads under it *)
TakeLock(p) ==
    /\ pc[p] = "waiting"
    /\ LockFree
    /\ lock' = p
    /\ seen' = [seen EXCEPT ![p] = db]
    /\ pc' = [pc EXCEPT ![p] = "locked"]
    /\ UNCHANGED <<db, request, batch, clerk, invited, late, commands, faults>>

(* A removal and an invitation go on to ask Clerk *)
Commit(p) ==
    /\ pc[p] = "locked"
    /\ Allowed(seen[p], request[p])
    /\ db' = Written(db, seen[p], Outcome(seen[p], request[p]))
    /\ Close(p)
    /\ IF request[p].op \in {"remove", "invite"}
       THEN Becomes(p, "calling", request[p])
       ELSE Becomes(p, "idle", NoRequest)
    /\ UNCHANGED <<batch, clerk, invited, late, commands, faults>>

(* The command is answered with an error; Clerk gets a 503 and retries *)
Refuse(p) ==
    /\ pc[p] = "locked"
    /\ ~Allowed(seen[p], request[p])
    /\ Close(p)
    /\ Becomes(p, "idle", NoRequest)
    /\ UNCHANGED <<db, batch, clerk, invited, late, commands, faults>>

(* A statement or the commit fails, a timeout ends, or the replica stops.  *)
(* The maintenance job ends with its transaction.                          *)
Abort(p) ==
    /\ pc[p] \in {"waiting", "locked"}
    /\ faults < MaxFaults
    /\ faults' = faults + 1
    /\ Close(p)
    /\ Becomes(p, "idle", NoRequest)
    /\ batch' = IF p = Maintenance THEN {} ELSE batch
    /\ UNCHANGED <<db, clerk, invited, late, commands>>

-----------------------------------------------------------------------------
(* Webhook workers *)

(* The inbox insert.  An uncommitted row of the same event blocks it. *)
Deliver(w, e) ==
    /\ pc[w] = "idle"
    /\ Sent(e)
    /\ e \notin db.inbox
    /\ \A v \in Workers : request[v] # [op |-> "event", event |-> e]
    /\ Becomes(w, "waiting", [op |-> "event", event |-> e])
    /\ UNCHANGED <<db, lock, seen, batch, clerk, invited, late, commands, faults>>

(* A duplicate commits nothing and takes no lock *)
DeliverDuplicate(w, e) ==
    /\ pc[w] = "idle"
    /\ e \in db.inbox
    /\ UNCHANGED vars

-----------------------------------------------------------------------------
(* Administration commands *)

(* currentorganization.Resolve and RequirePermission, before any lock *)
Permitted(q) ==
    /\ db.org.status = "active"
    /\ q.actor \in Effective(db)
    /\ \/ db.members[q.actor].role \in {"owner", "admin"}
       \/ q.op = "remove" /\ q.target = q.actor

FreshIntent(q) ==
    q.op = "invite" =>
        /\ db.intents[q.intent].status = "none"
        /\ \A s \in Sessions : request[s] # NoRequest /\ request[s].op \in {"invite", "withdraw"}
                => request[s].intent # q.intent

Command(s, q) ==
    /\ pc[s] = "idle"
    /\ commands < MaxCommands
    /\ Permitted(q)
    /\ FreshIntent(q)
    /\ commands' = commands + 1
    /\ Becomes(s, "waiting", q)
    /\ UNCHANGED <<db, lock, seen, batch, clerk, invited, late, faults>>

(* provider.DeleteMembership.  Success and 404 are the same to the caller. *)
RemovalAnswered(s) ==
    /\ pc[s] = "calling" /\ request[s].op = "remove"
    /\ clerk' = WithoutMember(UserOf[request[s].target])
    /\ Becomes(s, "idle", NoRequest)
    /\ UNCHANGED <<db, lock, seen, batch, invited, late, commands, faults>>

RemovalRefused(s) ==
    /\ pc[s] = "calling" /\ request[s].op = "remove"
    /\ faults < MaxFaults
    /\ faults' = faults + 1
    /\ Becomes(s, "waiting", [op |-> "release", target |-> request[s].target])
    /\ UNCHANGED <<db, lock, seen, batch, clerk, invited, late, commands>>

RemovalUnanswered(s) ==
    /\ pc[s] = "calling" /\ request[s].op = "remove"
    /\ faults < MaxFaults
    /\ faults' = faults + 1
    /\ late' \in {late, late \union {UserOf[request[s].target]}}
    /\ Becomes(s, "idle", NoRequest)
    /\ UNCHANGED <<db, lock, seen, batch, clerk, invited, commands>>

(* provider.CreateInvitation *)
InvitationAnswered(s) ==
    /\ pc[s] = "calling" /\ request[s].op = "invite"
    /\ invited' = invited \union {request[s].intent}
    /\ Becomes(s, "idle", NoRequest)
    /\ UNCHANGED <<db, lock, seen, batch, clerk, late, commands, faults>>

InvitationRefused(s) ==
    /\ pc[s] = "calling" /\ request[s].op = "invite"
    /\ faults < MaxFaults
    /\ faults' = faults + 1
    /\ Becomes(s, "waiting", [op |-> "withdraw", intent |-> request[s].intent])
    /\ UNCHANGED <<db, lock, seen, batch, clerk, invited, late, commands>>

InvitationUnanswered(s) ==
    /\ pc[s] = "calling" /\ request[s].op = "invite"
    /\ faults < MaxFaults
    /\ faults' = faults + 1
    /\ invited' \in {invited, invited \union {request[s].intent}}
    /\ Becomes(s, "idle", NoRequest)
    /\ UNCHANGED <<db, lock, seen, batch, clerk, late, commands>>

-----------------------------------------------------------------------------
(* The maintenance job *)

(* ListRemovalIntentsForReconciliation: the reservations that are old      *)
(* enough, no more than a batch of them.                                   *)
ListRemovals(old) ==
    /\ pc[Maintenance] = "idle"
    /\ batch = {}
    /\ old # {} /\ old \subseteq db.reserved
    /\ batch' = old
    /\ UNCHANGED <<db, lock, pc, request, seen, clerk, invited, late, commands, faults>>

(* Mutation: any answer but an error is taken for absence *)
BugIgnoresPresence(m) ==
    /\ pc[Maintenance] = "idle"
    /\ m \in batch
    /\ batch' = batch \ {m}
    /\ Becomes(Maintenance, "waiting", [op |-> "finalize", target |-> m])
    /\ UNCHANGED <<db, lock, seen, clerk, invited, late, commands, faults>>

(* MembershipExists asks for the user, before and outside the transaction *)
FindPresent(m) ==
    /\ pc[Maintenance] = "idle"
    /\ m \in batch
    /\ Members(UserOf[m]) # {}
    /\ batch' = batch \ {m}
    /\ UNCHANGED <<db, lock, pc, request, seen, clerk, invited, late, commands, faults>>

FindAbsent(m) ==
    /\ pc[Maintenance] = "idle"
    /\ m \in batch
    /\ Members(UserOf[m]) = {}
    /\ batch' = batch \ {m}
    /\ Becomes(Maintenance, "waiting", [op |-> "finalize", target |-> m])
    /\ UNCHANGED <<db, lock, seen, clerk, invited, late, commands, faults>>

(* The first failure of the provider ends the job *)
PresenceUnknown ==
    /\ pc[Maintenance] = "idle"
    /\ batch # {}
    /\ faults < MaxFaults
    /\ faults' = faults + 1
    /\ batch' = {}
    /\ UNCHANGED <<db, lock, pc, request, seen, clerk, invited, late, commands>>

(* PruneConsumedInvitationIntents, one statement without the lock *)
PruneIntents(i) ==
    /\ db.intents[i].status = "consumed"
    /\ db' = [db EXCEPT !.intents[i].status = "deleted"]
    /\ UNCHANGED <<lock, pc, request, seen, batch, clerk, invited, late, commands, faults>>
-----------------------------------------------------------------------------
Init ==
    /\ db = EmptyTables
    /\ lock = Nobody
    /\ pc = [p \in Processes |-> "idle"]
    /\ request = [p \in Processes |-> NoRequest]
    /\ seen = [p \in Processes |-> NoTables]
    /\ batch = {}
    /\ clerk = [m \in Memberships |-> "none"]
    /\ invited = {}
    /\ late = {}
    /\ commands = 0
    /\ faults = 0

ClerkStep ==
    \/ \E m \in Memberships : ClerkJoins(m) \/ ClerkRemoves(m)
    \/ \E user \in Users : ClerkRemovesLate(user)

TransactionStep ==
    \E p \in Processes : TakeLock(p) \/ Commit(p) \/ Refuse(p) \/ Abort(p)

WorkerStep ==
    \E w \in Workers, e \in Events : Deliver(w, e) \/ DeliverDuplicate(w, e)

SessionStep ==
    \E s \in Sessions :
        \/ \E q \in Commands : Command(s, q)
        \/ RemovalAnswered(s) \/ RemovalRefused(s) \/ RemovalUnanswered(s)
        \/ InvitationAnswered(s) \/ InvitationRefused(s) \/ InvitationUnanswered(s)

MaintenanceStep ==
    \/ PresenceUnknown
    \/ \E old \in SUBSET Memberships : ListRemovals(old)
    \/ \E m \in Memberships : FindPresent(m) \/ FindAbsent(m)
    \/ \E i \in Invitations : PruneIntents(i)

Next == ClerkStep \/ TransactionStep \/ WorkerStep \/ SessionStep \/ MaintenanceStep

Spec == Init /\ [][Next]_vars

-----------------------------------------------------------------------------
(* Every variable has its type; a process handles a request until it is    *)
(* idle; and the lock is held by the one process whose transaction is open *)
(* (pg_advisory_xact_lock, and the Rollback deferred by every transaction). *)
TypeOK ==
    /\ db \in Tables
    /\ lock \in Processes \union {Nobody}
    /\ pc \in [Processes -> Steps]
    /\ request \in [Processes -> Requests \union {NoRequest}]
    /\ seen \in [Processes -> Tables \union {NoTables}]
    /\ batch \subseteq Memberships
    /\ clerk \in [Memberships -> {"none", "member", "gone"}]
    /\ invited \subseteq Invitations
    /\ late \subseteq Users
    /\ commands \in 0..MaxCommands
    /\ faults \in 0..MaxFaults
    /\ \A p \in Processes :
          /\ pc[p] # "idle" => request[p] \in Requests
          /\ pc[p] = "locked" => lock = p /\ seen[p] \in Tables
    /\ lock # Nobody => pc[lock] = "locked"

(* What the properties below say of a set of tables *)
Agree(d) ==
    /\ \A m, n \in Active(d) : UserOf[m] = UserOf[n] => m = n
    /\ d.reserved \subseteq Active(d)
    /\ d.org.bootstrapped => d.org.eligible /\ d.org.creator # None

Follows(d) ==
    /\ \A m \in Active(d) : clerk[m] # "none"
    /\ \A m \in Deleted(d) : clerk[m] = "gone"

Accounted(d, m) ==
    /\ d.completed[m] <= 1
    /\ d.completed[m] = 1 => m \in Deleted(d)
    /\ d.completed[m] + (IF m \in d.reserved THEN 1 ELSE 0) <= d.requested[m]

(* The tables agree with each other, whoever wrote them last: a user has   *)
(* one active membership, only active memberships are reserved for removal *)
(* and the bootstrap happened only to an eligible, known creator           *)
(* (memberships_active_organization_user_uq,                               *)
(* organizations_owner_bootstrap_consistency_ck).                          *)
TablesAgree == Agree(db)

(* What a transaction decided on under the lock still holds when it        *)
(* commits: the actor still has its role and is not being removed, the     *)
(* owners it counted are still owners, no row it found missing appeared.   *)
DecisionsStillHold ==
    \A p \in Processes :
        pc[p] = "locked" /\ Allowed(seen[p], request[p]) => Allowed(db, request[p])

(* The local projection never runs ahead of Clerk: an active row is of a   *)
(* membership Clerk had, and a deleted one of a membership Clerk no longer *)
(* has, whether the webhook or the maintenance job deleted it.             *)
ProjectionFollowsClerk == Follows(db)

(* The audit trail accounts for every removal: a completion is recorded at *)
(* most once, of a membership that is deleted, and every completion and    *)
(* every standing reservation has a request of its own.                    *)
RemovalsAccounted == \A m \in Memberships : Accounted(db, m)

(* The tables tell what the recorded events mean, whatever order they came *)
(* in and whatever else was committed between them: a membership has a row *)
(* once one of its events is recorded, it is deleted once a deletion that  *)
(* nothing supersedes is, and only by a deletion or by the maintenance     *)
(* job; the same of the organization.  And no bootstrap is forgotten: a    *)
(* creator who still awaits it in an active organization is without an     *)
(* effective membership (ProcessWithResult, bootstrapInitialOwner).        *)
RecordedOf(d, aggregate) == {e \in d.inbox : e.aggregate = aggregate}
Deletions(d, aggregate) == {e \in RecordedOf(d, aggregate) : e.type = "deleted"}
Ended(d, aggregate) ==
    \E e \in Deletions(d, aggregate) : ~Superseded(e, d.inbox)

Reflects(d) ==
    /\ \A m \in Memberships :
          /\ d.members[m].status = "none" <=> RecordedOf(d, m) = {}
          /\ Ended(d, m) => m \in Deleted(d)
          /\ m \in Deleted(d) => d.completed[m] = 1 \/ Deletions(d, m) # {}
    /\ Ended(d, Org) => d.org.status = "deleted"
    /\ d.org.status = "deleted" => Deletions(d, Org) # {}
    /\ AwaitsBootstrap(d) /\ d.org.status = "active" =>
          \A m \in Of(d.org.creator) \intersect Active(d) : d.requested[m] > 0

EventsReflected == Reflects(db)

(* No command and no reconciliation takes the last effective owner from an *)
(* organization: only Clerk's own removal of an owner, one that nobody     *)
(* reserved here, can leave it without.                                    *)
LastOwnerKept ==
    [][Owners(db) # {} /\ Owners(db') = {} =>
          Owners(db) \intersect Deleted(db') # {}]_vars

OwnerRows(d) == {m \in Active(d) : d.members[m].role = "owner"}
OwnerIntents(d) ==
    {i \in Invitations : d.intents[i] = [status |-> "pending", role |-> "owner"]}

ByAnOwner ==
    \E s \in Sessions : /\ pc[s] = "locked" /\ pc'[s] # "locked"
                        /\ request[s].op \in {"setRole", "transfer", "invite"}
                        /\ request[s].actor \in Owners(db)

ByBootstrap(m) ==
    /\ db'.org.bootstrapped /\ ~db.org.bootstrapped
    /\ UserOf[m] = db'.org.creator
    /\ Of(UserOf[m]) \intersect Deleted(db') = {}

(* Ownership comes from an owner who is effective at the commit, from an   *)
(* owner's invitation that is used once, or from the one bootstrap of a    *)
(* creator none of whose memberships was deleted; and an owner's           *)
(* invitation comes from an owner.                                         *)
OwnersMakeOwners ==
    [][/\ \A m \in OwnerRows(db') \ OwnerRows(db) :
             \/ ByAnOwner
             \/ \E i \in OwnerIntents(db) : db'.intents[i].status = "consumed"
             \/ ByBootstrap(m)
       /\ OwnerIntents(db') \subseteq OwnerIntents(db) \/ ByAnOwner]_vars

(* An invited member who joins by the invitation consumes its intent: the  *)
(* intent is committed before Clerk hears of the invitation, so the        *)
(* membership's created event finds it.                                    *)
InvitationConsumed ==
    \A e \in db.inbox :
        /\ e.type = "created" /\ e.invitation # None
        /\ e.aggregate \in Active(db)
        => db.intents[e.invitation].status # "pending"

(* While Clerk may still carry out a removal that it did not answer, the   *)
(* member stays without authorization (README, "Provider                   *)
(* timeout/429/5xx/ambiguous result never restores authorization").        *)
UnansweredRemovalStaysReserved ==
    [][\A m \in db.reserved : UserOf[m] \in late =>
          m \in db'.reserved \union Deleted(db')]_vars

(* The transactions, the lock and the messages together do to the members  *)
(* what OrganizationMembers does in one step of its own.                   *)
Statuses(d) == [m \in Memberships |-> d.members[m].status]
RolesOf(d) == [m \in Memberships |-> d.members[m].role]
Offers(d) ==
    [i \in Invitations |->
        IF d.intents[i].status = "pending" THEN d.intents[i].role ELSE "none"]

Roster == INSTANCE OrganizationMembers
    WITH Roles <- AppRoles, status <- Statuses(db), role <- RolesOf(db),
         reserved <- db.reserved, offered <- Offers(db),
         founded <- db.org.bootstrapped

ImplementsMembers == Roster!MSpec

-----------------------------------------------------------------------------
(* Transactions end, and a waiting one gets the lock: PostgreSQL queues    *)
(* the waiters of an advisory lock.                                        *)
TransactionFairness ==
    \A p \in Processes : /\ SF_vars(TakeLock(p))
                         /\ WF_vars(Commit(p)) /\ WF_vars(Refuse(p))

(* Clerk redelivers an event until it is answered with a 204 *)
ClerkRetries ==
    \A e \in Events : SF_vars(\E w \in Workers : Deliver(w, e))

(* The operator runs reconcile-removals again and again, and a reservation *)
(* that stays is old enough in the end.                                    *)
ReconciliationRuns ==
    \A m \in Memberships :
        /\ SF_vars(\E old \in SUBSET Memberships : m \in old /\ ListRemovals(old))
        /\ WF_vars(FindPresent(m)) /\ WF_vars(FindAbsent(m))

(* The service's own transactions end; what Clerk and the operator do is a *)
(* condition of each property.                                             *)
ServiceSpec == Spec /\ TransactionFairness

(* If Clerk goes on delivering, every event is recorded in the end,        *)
(* although a rejoin is refused as long as the older membership's deletion *)
(* has not come.                                                           *)
EveryEventRecorded ==
    ClerkRetries => \A e \in Events : Sent(e) ~> e \in db.inbox

(* If reconciliation goes on, a removal that Clerk carried out is          *)
(* finalized even if no webhook ever tells of it, unless the user joins    *)
(* again first.                                                            *)
RemovalsFinalized ==
    ReconciliationRuns =>
        \A m \in Memberships :
            m \in db.reserved /\ Members(UserOf[m]) = {}
                ~> m \notin db.reserved \/ Members(UserOf[m]) # {}
=============================================================================
