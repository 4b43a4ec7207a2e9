# A verification development of BridgeWorks

TLA+ specifications of the parts of BridgeWorks whose correctness depends on concurrency, retries, reordering
and crashes; the TLC runs that check them on small instances; and the proofs, checked by TLAPS, that hold for
every value of the constants. Paths are relative to the repository's `service/` unless they begin otherwise;
`PROJECT.json` names for each definition the lines it stands for, for each run its properties, and for each
hazard of the code the properties that cover it.

1. [Inventory](#inventory)
2. [Modules](#modules)
3. [Runs](#runs)
4. [Proofs](#proofs)
5. [Where the code and its documents disagree](#where-the-code-and-its-documents-disagree)
6. [What is not modelled](#what-is-not-modelled)
7. [What could come next](#what-could-come-next)

## Inventory

BridgeWorks is two Go services behind an APISIX gateway. Clerk, an external identity provider, owns users,
organizations and memberships, and tells each service about them in signed webhooks, delivered at least once
and in any order. Each service has a PostgreSQL schema of its own; identity-service also has a Redis cache.
organization-service calls identity-service over HTTP for the account behind a session token, and Clerk's API
to change memberships.

```
             webhooks (at least once, any order)
   Clerk ---------------------------------------------> organization-service --- PostgreSQL
     |  ^                                                 |        |
     |  |  invitations, removals (may go unanswered)      |        | account, platform access
     |  +-------------------------------------------------+        v
     +--------------------------------------------------> identity-service --- PostgreSQL, Redis
```

| component | state | operations | what is hard | what must hold |
| --- | --- | --- | --- | --- |
| identity: user synchronization (`usersync`, `store`, `clerkwebhook`) | inbox of events, `app_users` | one transaction per delivery, then a cache invalidation | replicas interleave; ties; crash between commit and 204 | the account shows the newest event whatever the order of arrival; 204 is durable; disabled and deleted are not undone |
| identity: current-user cache (`currentuser`, `rediscache`) | a Redis entry and a generation marker, the loads in flight | cache-aside read, shared load, fenced SET, invalidation | a read before an invalidation stored after it; late SETs; expiry; a marker reused | nothing older than the last invalidation is stored; bounded staleness; waiters are answered |
| identity: platform access (`platformaccess`, `platformaccessoperator`) | role assignments | resolve, grant, revoke | several statements without a transaction | each part of what is answered held during the request; nothing revoked before it is answered |
| identity: public ids (`identityid`) | none | draw a random id | collisions | unique for ever (the store's constraint and retries) |
| organization: synchronization (`organizationsync`) | inbox, organization, memberships, invitation intents, removal reservations | one transaction per delivery | reordering, rejoin before leave, lost invitation, owner bootstrap | one active membership per user; ownership only from owners, invitations and one bootstrap |
| organization: administration (`membershipadmin`, `clerkorganizationadmin`) | the same tables | invite, set role, transfer, remove, leave | checks before the lock; a provider call between two transactions | decisions still hold at commit; the last owner stays; no authorization while a removal is pending |
| organization: maintenance (`organizationmaintenance`) | a batch of old reservations | reconcile removals, prune consumed intents | a stale presence answer; racing the webhook | removals end, once, and only of absent users |
| organization: actor resolution (`currentorganization`, `authorization`, `identityclient`) | none | session token to actor, role and permissions | answers from two services and several statements | every part of an authorization held during the request |
| organization: onboarding and verification (`organizationonboarding`, `platformreview`, `businessverification`) | profile, verification status, verified e-mail domain | update profile, request, decide, verify, page through the queue | permission read before the lock; concurrent reviewers; an update that matches no row; rows that appear behind a cursor | transitions follow the table; each decision is of a pending request; no edit is lost; audit and state agree; no request is starved |
| organization: audit (`organizationaudit`) | append-only events | insert, list | written with the change or not at all; time stamps older than the commit | the trail accounts for the state; a listing misses nothing that stayed |
| both: verification of tokens and webhooks (`authn`, `clerkwebhook`) | none | accept or refuse | cryptography | out of scope |
| both: configuration (`config`) | none | accept or refuse the environment | times that are checked apart and follow each other | what is accepted fits together: webhooks end before the gateway gives up |
| both: process life cycle (`cmd/*`, `postgres`) | the servers and clients that are open, the handlers that run | start, serve, shut down | one budget for two servers; handlers that hold connections while the pool closes | nothing is closed before its users; the process stops |
| gateway (`gateway/apisix`) | the token cache of `google-cloud-run-auth.lua` | fetch, refresh, back off | a request yields between reading and writing the cache | no expired token is sent; the gateway recovers from every failure |
| metrics, health, migrations, load tests, CI | none that another component reads | | | |

Interactions that matter to the models: the webhook workers and the administration commands of one
organization serialize on a PostgreSQL advisory transaction lock, as do the webhook workers of one user; a user
synchronization commits and then invalidates the cache, in that order and not atomically; an administration
command commits, calls Clerk, and compensates in a second transaction; the maintenance job asks Clerk and then
opens a transaction. Profile edits, verification requests and decisions lock the organization's row instead,
and a business e-mail proof takes the advisory lock first and the row lock when it updates. A platform
reviewer is authorized by identity-service, statement by statement, before the transaction.

## Modules

### Identity-service

* **`ClerkEvents`**: a verified user event (what `parseEvent` returns) and the order the inbox query gives to
  events: timestamp, rank of the type, id.
* **`AccountProjection`**: the abstract specification of user synchronization. One step accepts an event
  (records it, applies it unless a recorded event supersedes it); a step disables an account. Nothing else.
* **`UserSync`**: the transactions as the code runs them, one action per SQL statement, under READ COMMITTED:
  inbox insert, advisory lock, ordering check, read, write with id collisions and savepoints, commit,
  invalidation, 204. A worker is one HTTP delivery in any replica. `Abort` is any error or a crash before the
  commit; `CrashAfterCommit` a crash after it, or a commit whose answer was lost. `Disable` is an operator's SQL
  update: the service has no operation for it, but the code handles the status.
* **`CurrentUserCache`**: the reads of `GET /me` of one user. A projection is a version number; a load reads the
  generation, then PostgreSQL, then runs the set-if-generation script. Time is discrete and only its order
  against the timeouts matters.

### Organization-service

* **`OrganizationMembers`**: the abstract specification of the members. A membership joins (by an invitation or not) or
  leaves, a member changes a role, transfers ownership, reserves a removal, invites, a reservation is released, an
  invitation withdrawn, the organization gets its first owner: each one step, on the members of that moment and with
  the authority its actor has at that moment. No locks, transactions, retries or messages.
* **`OrganizationEvents`**: events of one organization and its memberships, and `IsStale`.
* **`OrganizationTables`**: what each transaction demands of the tables it read and what it makes of them, as
  functions from tables to tables: `ApplyEvent` with `Bootstrap`, `WithJoined` and `WithDeleted`; `SetRole`,
  `TransferOwnership`, `Reserve`, `Release`, `InsertIntent`, `DeleteIntent`; `Finalize`.
* **`OrganizationMembership`**: the processes. Every transaction is `TakeLock` (the advisory lock and the reads)
  and `Commit` (the rows that changed are written to whatever the tables are by then). The two are apart so
  that a missing lock shows: with `LockFree` always true the invariants below fail. The reads are one step because no
  writer of these rows goes without the lock but `PruneIntents`, which commutes with them. The checks of
  `currentorganization.Resolve` are made in `Command`, before the lock and on older tables; its three
  statements are read as one. `Clerk` joins and removes members, carries out a removal or not, answers or not,
  and may carry out an unanswered one at any later time (`late`). `Roster` is the mapping to `OrganizationMembers`: rows
  and reservations as they are, and of the intents the role that a pending one offers.

* **`VerificationLifecycle`**: the abstract specification of an organization's verification and product profile:
  `Move` (a request or a decision, with its audit entry), `Edit` (the named fields and no others), `Synchronize`.
* **`PlatformAccess`** (identity-service): role assignments and accounts, the two statements of a resolution, the two
  of a grant, the revocation.
* **`VerificationReview`**: extends `PlatformAccess` with the organization. A session is one HTTP request: `Read` twice
  (the organization and the membership, or the reviewer's account and roles), then a lock (`LockRow` with the row it
  returns, or `LockAdvisory` with the standing that is looked at again), then a commit (`CommitStatus`, `CommitEdit`,
  `CommitProof`), a refusal or `Abort`. The uncommitted writes and the commit are one step, because readers see neither
  before the commit and writers wait for the row. `Change` is what happens around the sessions: deletion by webhook,
  changed roles and reservations, grants, revocations, closed accounts. `administrators` are the memberships with the
  standing these requests need; how they come and go is `OrganizationMembership`'s subject.

* **`KeysetPaging`**: the rows beyond a cursor, a page and its cursor, as the queries of the verification queue and of the
  audit trail compute them.
* **`VerificationQueue`**: reviewers who page through the queue, and owners through the trail, while transactions of
  several replicas commit. `MakeEvent` takes the time of an audit event from the replica's clock (`Skew` off at most)
  and `Commit` shows it later, so that rows appear behind a cursor. `StartWalk`, `ReadPage` and `ReadLastPage` are
  the requests of one reader; `due` remembers which rows were there when it began and stayed.

### Gateway, configuration and process

* **`GatewayTokenCache`**: the identity tokens in one worker of the gateway. `UseCached`, `BackOff`, `StartFetch`,
  `Fetched`, `FetchFailsUsable` and `FetchFails` are the branches of `cached_identity_token`; between `StartFetch` and its
  end the request has yielded with the entry it read (`captured`), which is still the cache's (`own`) or not. Times
  are those that are left.
* **`ServiceConfiguration`**: which environments the services and the maintenance job accept, setting by setting, and the
  times they configure. No state.
* **`ServiceLifecycle`**: `run` of the two commands for an accepted or refused environment: `Load`, `Open` in its order,
  `Serve`, `Signal`, `ServerStops`, and `shutdownRuntime` as `BeginShutdown`, `StopMetrics`, `StopApplication`, `CloseCache`
  and `Exit`; beside it the webhook handlers, which wait for a connection, hold it until they have committed or rolled back,
  and invalidate the cache, each stage with the time limit the code gives it. What a handler commits is the other
  modules' subject.
* **`GatewayTraffic`**: the requests the two have in common.
* **`Deployment`**: composes the two. A request gets its token, is sent to the process if it can be reached, and leaves
  with the answer; one clock ticks for both.

What corresponds to what:

| variable | the code's state |
| --- | --- |
| `UserSync.inbox`, `row` | committed rows of `app.clerk_webhook_events`, `app.app_users` |
| `UserSync.pc`, `event`, `exists`, `write`, `newId`, `attempts` | the local variables and the uncommitted writes of one `ProcessWithResult` |
| `UserSync.acked`, `dirty`, `unfenced` | history: 204s sent; accounts changed since the last invalidation; those whose last invalidation failed |
| `CurrentUserCache.entry`, `marker` | the two Redis keys of a user, with their time to live |
| `CurrentUserCache.load`, `wire`, `caller` | the singleflight call of each replica; SETs given up on; requests |
| `OrganizationMembership.db` | committed rows of the organization's tables |
| `lock`, `pc`, `request`, `seen` | the advisory lock; the step, input and reads of each transaction |
| `batch` | the rows `ListRemovalIntentsForReconciliation` returned and the job has not examined |
| `clerk`, `invited`, `late` | Clerk: its memberships, the invitations it sent, the removals it still carries out |
| `VerificationReview.org`, `administrators` | the committed organization row; the active owners and admins that are not reserved for removal |
| `trail`, `edits`, `proofs` | `audit_events`: requests and decisions with their from and to values; profile updates, counted; business e-mail proofs with their authors |
| `rowLock`, `advisory`, `VerificationReview.seen` | the organization's `FOR UPDATE` lock and advisory lock; the row `LockOrganizationByID` returned |
| `PlatformAccess.account`, `assignment`, `granting` | `app.app_users.status`, `app.platform_access_assignments`, the grants between their two statements |
| `witnessed` | history: which facts of the authorization held at some moment of the request |
| `VerificationQueue.tx`, `trail`, `status`, `updated` | the event of an uncommitted transaction; `audit_events`; the organization's columns |
| `walk`, `due`, `since` | the cursor a reader has and the pages it read; history: rows that stayed, commit times of requests |
| `GatewayTokenCache.entry`, `request`, `metadata` | `token_cache[audience]`; the local variables of each request; whether the metadata server answers |
| `ServiceLifecycle.instance`, `phase`, `open` | the environment; how far `run` is; the pool, cache client and listeners |
| `budget`, `signalled`, `scraping` | what `shutdownContext` has left; `signalContext`; a request at the metrics server |
| `handler` | each webhook handler: its stage, age, time limit, and whether its connection was closed |
| `commands`, `faults`, `requests`, `changes` | counters for the bounds, in no guard the code has |

Operators whose names begin with `Bug` are mutations: plausible mistakes that `PROJECT.json` pairs with the
property that fails when the mistake is made. No behaviour of a specification uses them.

## Runs

| run | instance | shows |
| --- | --- | --- |
| `user_sync` | two users, four events with a tie, two workers, two ids, two insert attempts, a fault, fair delivery | the account shows the newest event; arrival order is irrelevant when deletions come last; a 204 is durable; a changed account behind the cache is owed an invalidation; accounts are not re-enabled; public ids are permanent; the transactions implement `AccountProjection`; every event is acknowledged |
| `user_sync_late_update` | a deletion older than an update | the documented independence of arrival order fails (below) |
| `cache` | one replica, two requests, two writes, an invalidation, an eviction, a late SET | the fence; bounded staleness; waiters are answered; the cache converges |
| `cache_marker_expiry` | one replica | a marker that expires during a load lets the fence pass an old projection (below) |
| `organization` | two users, one of whom leaves and returns (three memberships), six events, one webhook worker, two sessions with three commands, one fault | the tables tell what the recorded events mean, whatever their order (`EventsReflected`); the transactions implement `OrganizationMembers`; decisions hold at commit; an intent is used once; the projection follows Clerk; removals are accounted for; the last owner stays; ownership has a source |
| `organization_live` | the returning member, its events, one command, the maintenance job, a fault | a removal that Clerk carried out is finalized even if no webhook arrives; if Clerk goes on delivering, a refused rejoin is recorded in the end, and every other event |
| `organization_late_removal` | two members, two commands, two faults | a refused retry releases an unanswered removal (below) |
| `organization_update_first` | an invited member who is updated at once | the invitation is not consumed (below) |
| `verification` | two sessions with three requests, one member, one reviewer, edits of two fields, two changes around them | the status follows the table and the trail accounts for it; no edit is lost; a decision that was answered stands; what was revoked before a request is of no use to it; proofs are given by administrators and kept with their audit event; every request ends; `VerificationLifecycle` is implemented |
| `verification_late_proof` | one session, one request, one change | a proof of an organization that was just deleted is audited and answered but not stored (below) |
| `review_queue` | two organizations, one pending since before the trail existed; two replicas; three audit events; one reader with pages of one or two rows | what stayed is listed, once and in order; older requests come first; no request is starved |
| `deployment` | two requests, one database connection; two environments that start and three that must not; tokens that live three seconds, metadata that fails and returns | tokens are alive when sent; nothing is closed under a handler before its time; the gateway outwaits every handler; the gateway recovers; the process stops; webhooks end |

**Bounds.** `MaxFaults`, `MaxCommands`, `MaxWrites`, `MaxInvalidations`, `MaxLateSets` and `MaxEvictions` only
count what the environment does; no code path reads them. They are large enough for the interesting cases: one
fault is a crash after the commit, an abort or a failed invalidation, and the theorems of `UserSyncProofs` hold for any
number; three commands are a promotion
to a second owner and two owners who leave at once; the two faults of `organization_late_removal` are an unanswered
removal and a refused retry, and what the run `organization` shows with one fault is proved for any number. One replica with two requests reaches the shared load; the fence is
proved for any number of replicas.
Two workers suffice for a lock that admits one. In `verification` three
requests are a request and two decisions that race, or a request, a rejection and a new request; two changes are
the two statements of a grant, or a demotion and a deletion; what holds of more is proved.
In `review_queue` three events and one tick are two requests with equal times, a decision and a repeated request, and a
commit behind the cursor; the clocks agree (`Skew` is 0) and the theorems allow any skew. `MaxTime`, `MaxLimit`
and `EventIds` bound the clock, the pages and the events. In `deployment` a `Step` is a second: the processing time of one second and
the rollback of two keep the numbers small and give every stage a tick in which to be overtaken; that accepted
environments stay within the gateway's ten seconds is proved of all of them, and the run's refused
environment of twelve seconds shows that the check decides it. `MaxLife` bounds the life of tokens, `Skew`, `Margin` and
`Fresh` keep the plugin's order (a fetched token has more than the margin left). Every mutant in `PROJECT.json`
is found within the bounds of its run, which is the evidence that the bounds reach the cases they are for. In
`CurrentUserCache` a tick is the timeout of a load; the constants keep the code's order
(`MarkerTTL` > `LoadTimeout` + `WireDelay`), not its ratios, and the proofs are for all values in that order.

**Deadlock** is checked in every run. `DeliverDuplicate` changes nothing and stands for a delivery that finds its
row: it keeps the end of a run, when every event is recorded, from being one.

**Type invariants** are proved of every module with a proof module; `verification` checks one besides.

**Fairness.**

* Clerk retries until it reads a 204: strong fairness of `Deliver` for each event (`ClerkRetries`, and in
  `UserSync` for events without a 204).
* A transaction goes on: weak fairness of `Commit` and `Refuse`; strong fairness of `TakeLock` and of a worker's
  `Progress`, because PostgreSQL queues the waiters of a lock and every holder ends (by commit, error or timeout).
* A request goes on (`Proceed`): strong fairness, for the same reason; a waiter of the row or advisory lock gets it
  again and again, and PostgreSQL's queue does not pass it over for ever. `Begin`, `Abort` and changes are not fair.
* The liveness of `organization_live` and `review_queue` is stated as an implication: `ClerkRetries`, `ReconciliationRuns` and
  `ReviewersWalk` are premises of the properties that need them. A reader reads on (weak fairness of `ReadOn`) and begins
  again (strong fairness of `StartWalk`).
* In `Deployment` time passes (strong fairness of `Tick`: it waits for what is due), `run` goes on
  (weak fairness of `Startup` and `Shutdown`), a request's fetch ends and its answer is returned, and a handler whose
  time is over is ended (`Expire`: `context.WithTimeout`). A statement, a scrape, a signal and the metadata server
  promise nothing; that the metadata server stays up is the premise of `GatewayRecovers`.
* Time passes and a load ends at its deadline: weak fairness of `Tick` and `LoadStep`
  (`context.WithTimeout` in the shared load).
* The operator runs the reconciliation again and again, and a reservation that stays is listed in the end:
  strong fairness of listing it, weak fairness of the two answers. This is an assumption about operation, not
  something the code schedules; the batch limit is the hazard that can break it.

Nothing is assumed of Clerk's removals, of commands, of invalidations or of faults.

## Proofs

Eight modules hold theorems: `UserSyncProofs`, `CurrentUserCacheProofs`, `OrganizationProofs`,
`VerificationProofs`, `VerificationQueueProofs`, `GatewayTokenProofs`, `ServiceLifecycleProofs` and `DeploymentProofs`. They assume
only the named assumptions of the modules they extend (`EventsAssumption`, `ParametersAssumption`,
`TimingAssumption`, `OrganizationAssumption`, `ProcessesAssumption`, `ReviewAssumption`, `ListingAssumption`, `TokenAssumption`, `LifecycleAssumption`, ...), which TLC evaluates in every run.

**`UserSyncProofs`.** Type correctness is inductive alone. The other properties need `Inductive`: an event in a
transaction is not yet recorded (`PendingIsNew`), one past its commit is (`FinishedIsRecorded`), no two
transactions of a user are past the lock (`LockExclusive`), and what a transaction decided under the lock is
what a fresh query would decide (`Decisions`). From it: durable acknowledgements, the invalidation that is
owed, the newest event shown, no re-enabling, and the refinement of `AccountProjection`: `Commit` is its
`Accept`, `Disable` its own, every other statement a stutter. `PublicIds` adds that the ids of accounts and of
uncommitted inserts are distinct and that a transaction holds one exactly if it inserts: then an id, once published,
is its account's for ever (`PublicIdsArePermanent`). Independence of arrival order is proved under the
assumption that no event of a user is newer than its deletion; the run without it refutes it.

**`CurrentUserCacheProofs`.** `FenceHolds` is about loads whose marker outlives them. `Inductive` says of each
of them, of each SET on the wire and of the entry that either the marker moved on since, or it still has
the generation that was read, with enough time left, and then the version is not older than the last
invalidation. A tick takes from the time the marker has left exactly what it takes from the load. The theorem
holds for every choice of timeouts with `MarkerTTL > FillTime`.
Without the proviso about markers `FenceHolds` would be the runbook's claim, which the run `cache_marker_expiry`
refutes. `NeverBehindWhenMarkersLast` says what the claim needs: if no marker expires or is evicted while a load that read
one or an abandoned SET is around (`MarkerLostAlone`), nothing older than the last invalidation is ever cached. Then
no generation in flight is one that is yet to come (`Overtaken`), so none can be met again. `WaitersAlwaysHaveLoad` is the
safety half of `WaitersAnswered`: who waits for a shared load waits for one that runs.

**`OrganizationProofs`.** `IInv` is type correctness with

* `Snapshots`: what the holder of the advisory lock read is what the tables still are, except that a
  consumed intent may have been pruned;
* `WellFounded`: a request in progress has a reason at Clerk (an event was sent, an absence was seen and is
  for ever of that membership);
* `TablesSound`: `Agree`, `Follows` and `Accounted` of the tables.

The argument has two halves. The first is sequential: the shape lemmas (`BootstrapShape` to `OutcomeShape`) say of every
transaction which rows it may touch and how, and `AgreeKept`, `FollowsKept`, `AccountedKept` and `OwnersKept`
that such a change preserves each conjunct. The second is concurrent: `WrittenIsOutcome` says that writing
the changed rows to the present tables gives the outcome computed on the tables read, because of `Snapshots`.
From `IInv`: the tables agree, the projection follows Clerk, removals are accounted for, decisions still hold at
commit, and no command and no reconciliation takes the last effective owner.

The intents are not covered by `Snapshots`, so the two properties about them need more. `AuthorityInv` adds that an intent
which is pending, or was when the transaction read it, is still what was read (`PendingSeen`: pruning only takes
consumed ones), and that only sessions run commands. `OutcomeEnnobles` says of every transaction that is not an
owner's command that a new owner's row comes from the bootstrap or a pending owner's intent that it consumes; with
`PendingSeen` this carries over to the committed tables, which is `OwnersMakeOwners`. `InvitationInv` adds that the intent
of an invitation exists before Clerk is asked, that no two sessions share one (`Asked`), that Clerk creates members only by
invitations it sent (`Vouched`), and that every recorded membership has a row (`Recorded`). `InvitationConsumed` then holds
in the behaviours in which the recorded events of a membership begin with its one creation (`CreationsFirst`). That
condition is not idle: `organization_update_first` is a behaviour without it that violates the property.

Three further results rest on `CommitTables`, which says of every commit that there are tables `s`, equal to the committed ones but for
pruned intents, on which the request is allowed and whose outcome the new tables are.

* `RefinesMembers`: every step implements `OrganizationMembers`. A commit is one abstract step: of an event a join, a leave or
  the founding (with the bootstrap that the same transaction tries), of a command its own step, whose actor has on the
  committed tables the authority it had on those read. Locks, refusals, Clerk's steps and pruning stutter.
* `EventsAlwaysReflected`: a recorded event stays recorded and what supersedes another stays so; an event's transaction
  leaves the row as its event demands unless it is superseded; commands and reconciliations touch no row in a way that events
  forbid. So the tables tell, after any arrival order, which memberships there are and which have ended, and the
  bootstrap is not missed.
* `ReservationsLast`: a reservation ends with the deletion of its member or by the release after a refusal, and by nothing else. With
  the assumption that no refused removal is compensated while Clerk has yet to carry out another one of the same user
  (`NoRefusalWhileLate`) this is what the README promises of an unanswered removal; the run `organization_late_removal` is the
  behaviour without the assumption.

**`VerificationProofs`.** `IInv` is type correctness with

* `Locking`: the row that a transaction read under the row lock is still the committed one, and the author of a proof
  that holds the advisory lock is still an administrator;
* `Witnessed`: a session past a statement of its authorization has that fact in its history, and an organization that
  was found active is never pending again;
* `TrailAccounts`, `AnswersStand` and `ProofAccounted` themselves.

`Locking` is what makes the decisions of a transaction those of the committed row, and so carries the refinement of
`VerificationLifecycle`: `CommitStatus` is a `Move` or a stutter, `CommitEdit` an `Edit`, a synchronization itself,
everything else a stutter. `AnswersStand` needs the trail: a reviewer who finds the decision already made finds its
entry, because the last entry has the status as its target and the table leads there only from pending.
`ProofAccounted` needs that an organization once found active can only have been deleted since: without it, the update that
matches only active rows could miss one that is to become active. `RefinesLifecycle` and all but liveness
are so proved for any number of sessions, members, reviewers, requests and changes.
`ProofsStoredUnlessDeletedFirst` is the counterpart of the run `verification_late_proof`: in the behaviours in which no proof
commits after the organization's deletion, every audited proof is the stored one, after the deletion too. `LocksNeverCircular` is
the safety half of `RequestsEnd`: locks belong to sessions in their transactions (`LocksOwned`), proofs take the advisory lock before the
row and the others the row alone, so while a request is in progress some request waits for nobody.

**`VerificationQueueProofs`.** `IInv` adds to type correctness that what a walk has listed is not beyond its cursor
(`ListedBehindCursor`), that what it still owes is listed or ahead of it (`DueIsListedOrAhead`), and that no time stamp
is ahead of the clock by more than the skew (`StampsWithinSkew`). Below it are lemmas about pages: a page is a lower part of
the rows beyond the cursor, and its last row is the cursor of the next. From it `WalkComplete`, `PagesInOrder` and
`LongerWaitingFirst`, for any numbers of rows, readers and replicas, page sizes and clocks.

**`GatewayTokenProofs`.** A request that yielded knows what the token it read has left, as long as its table is the
cache's (`OwnTableIsCurrent`), and a back-off ends at least the margin before the token it protects
(`BackOffLeavesMargin`). With `MaxFetch <= Margin` a token found usable before the yield is alive after it.

**`ServiceLifecycleProofs`.** `LifecycleInv` says what is open in each phase and that a handler is below its limit, was
cut only when the budget was over, and has a limit within the gateway's ten seconds. The last part needs
`ServiceConfiguration`: for every environment that is accepted, the processing time is at most eight seconds, a rollback
adds two and an invalidation at most one. Two theorems carry accepted environments to the assumptions of other modules:
`CacheTimingHolds` (the marker of the current-user cache outlives every load, which `CurrentUserCacheProofs` assumes)
and `ReconciliationWaitsForCommands` (a removal is reconciled only after its command has given up on Clerk).

**`DeploymentProofs`.** Every step of the composition is a step or a stutter of the gateway and of the process
(`RefinesGateway`, `RefinesLifecycle`), so the theorems about them hold of it.

Model-checked only: liveness (`EveryEventAcknowledged`, `WaitersAnswered`, `CacheConverges`,
`EveryEventRecorded`, `RemovalsFinalized`, `RequestsEnd`, `RequestsAreListed`, `GatewayRecovers`, `ProcessStops`,
`AcceptedWorkEnds`), which is beyond the prover.

## Where the code and its documents disagree

* **A late deletion is not applied** (`user_sync_late_update`). A `user.deleted` that arrives after an event with a
  later timestamp is recorded as stale, and the account stays active; in the other order it is deleted. The identity
  README says the result does not depend on the order of arrival.
* **A marker that expires can be reused** (`cache_marker_expiry`). A load reads generation 1, the marker expires, an
  invalidation creates generation 1 again, and the load's SET passes. The runbook says an older read cannot
  repopulate the cache. The window needs a load to begin within two seconds of the expiry, and the data TTL bounds
  its effect, as `StalenessBounded` shows.
* **A refused retry releases an unanswered removal** (`organization_late_removal`). The compensation of a
  definitive provider error clears the reservation of the membership, also one an earlier command placed and that
  Clerk is still carrying out. The README says an unanswered removal never restores authorization.
* **An update that comes first loses the invitation** (`organization_update_first`). Only a created event resolves an
  intent; if the updated event of the membership is recorded first, the row gets the role derived from Clerk's
  and the created event is stale.

* **A proof of a deleted organization** (`verification_late_proof`). The organization is deleted between the resolution
  of the actor and the advisory lock. The update matches only active organizations, nobody looks at how many rows it
  changed, and the audit event is inserted, committed and answered. The README says that mutation and audit insert of
  a business e-mail proof share a transaction; here there is an audit insert without a mutation. `ProofAccounted` shows
  that this happens only to deleted organizations.

Not disagreements with a document, but worth knowing when the code is changed:

* The metrics server is shut down first and shares its budget with the application server: a scrape that hangs leaves the
  application's handlers no time, and they are cut. `ShutdownKeepsWork` and `ProcessStops` hold all the same.
* `CLERK_WEBHOOK_PROCESS_TIMEOUT < HTTP_WRITE_TIMEOUT` leaves out the rollback and the invalidation that come after: with
  close values a processed webhook is not answered in time (`lost`) and Clerk delivers it again, which
  `UserSync` shows to be harmless.
* Eight seconds of processing and two of rollback are exactly the gateway's ten: there is no margin for the network.
* A failed refresh replaces an entry another request has just refreshed (`FetchFails` with `own` false): the token is
  lost and requests are refused until the back-off ends. `GatewayRecovers` shows that this does not go on.
* `MaxFetch <= Margin` assumes that a metadata request ends within fifteen seconds. `timeout_ms` is applied to each of
  connecting, sending and reading, so three times its maximum of five seconds is exactly the limit.
* A signal is caught only after the configuration is loaded; before that it ends the process at once.
* A grant of a platform role to an account that is closed between its two statements leaves an active assignment. It is of
  no use: a resolution looks at the account first (`AuthorizedDuringRequest`).

## What is not modelled

* Signature and token verification: stateless checks by libraries. Every model begins behind them.
* Names, slugs, e-mail domains, the validation of profile fields, the stored Clerk role, the audit events of
  invitations, role changes, transfers and activations: no guard of the modelled operations reads them. The roles `recruiter` and `delivery_manager` have the standing of `viewer` in
  every guard of the modelled commands and are represented by it.
* Other reads that change nothing: the current organization, `GET /me` behind the cache (one read and a function of the status),
  the operator's status command. In `VerificationReview` the queue is the step `ReadOnly`; its pages are `VerificationQueue`'s.
* The permission catalogue: `Permitted` and `administrators` use what the migrations grant (owner and admin manage members,
  profile and verification; every member may leave).
* A disabled organization: synchronization keeps it disabled, and `OrganizationMembership` with it, but no code disables
  one, so no run reaches it; `VerificationReview` leaves the status out. Disabled and deleted accounts are both
  `closed` in `PlatformAccess`, which refuses them alike.
* More than one organization: every lock, row and query belongs to one.
* The age and batch limit of reconciliation (see fairness), and pruning in batches: the model prunes one intent at a time, which
  allows every batch.
* The syntax of settings (URLs, origins, addresses, lists): a value is malformed or not, and addresses are told apart by
  number. The two settings of the migration commands.
* Requests other than webhooks in `ServiceLifecycle`: they hold connections as webhooks do, under time limits that are constants
  of their handlers. The webhooks, whose limit is configured, stand for them.
* The gateway's routes and plugins other than the token plugin; its scripts.
* Metrics, logging, health, running the migrations, generated queries, load tests, CI: no modelled component reads what they
  keep, or (the generated queries) they are the SQL that is modelled.

## What could come next

* Composition of `VerificationReview` with `OrganizationMembership`: `administrators` as the effective owners and admins
  of its tables, so that `ChangeStanding` becomes the transactions themselves.
* `UserSync` and `CurrentUserCache` composed, so that the invalidations are those of the transactions: a deleted account
  is not served beyond the data TTL after its 204.
* The age order and batch limit of the reconciliation, which decide whether a reservation's turn comes.
