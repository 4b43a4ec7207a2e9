-------------------------- MODULE CurrentUserCache --------------------------
(***************************************************************************)
(* The Redis cache-aside of identity-service's GET /me                     *)
(* (internal/currentuser/cache.go, internal/rediscache/client.go) and its  *)
(* post-commit invalidation (internal/usersync/cache_invalidation.go), for *)
(* one Clerk user: keys are independent.                                   *)
(*                                                                         *)
(* A committed projection is known by its version.  A cold request joins   *)
(* the one load in flight for the key in its replica (singleflight).  A    *)
(* load reads the generation marker, then PostgreSQL, then asks Redis to   *)
(* store what it read if the generation has not changed.  The webhook      *)
(* handler commits a version and then increments the generation and        *)
(* deletes the entry in one Redis script.                                  *)
(*                                                                         *)
(* Time is counted in ticks.  A load is cancelled LoadTimeout ticks after  *)
(* it began; a SET its client gave up on may still reach Redis, but no     *)
(* later than WireDelay ticks after that.                                  *)
(***************************************************************************)
EXTENDS Naturals, FiniteSets

CONSTANTS
    Replicas,          \* identity-service processes
    Callers,           \* concurrent GET /me requests
    ReplicaOf,         \* the replica each request is sent to
    LoadTimeout,       \* coalescedLoadTimeout, in ticks
    WireDelay,         \* how long an abandoned SET can linger, in ticks
    DataTTL,           \* CURRENT_USER_CACHE_TTL, in ticks
    MarkerTTL,         \* cacheGenerationMarkerTTL, in ticks
    MaxWrites,         \* bound: committed versions
    MaxInvalidations,  \* bound: invalidations Redis executes
    MaxLateSets,       \* bound: abandoned SETs on their way at once
    MaxEvictions       \* bound: markers Redis loses before their expiry

FillTime == LoadTimeout + WireDelay

(* "deliberately longer than the two-second maximum shared in-flight load" *)
ASSUME TimingAssumption ==
    /\ LoadTimeout \in Nat \ {0}
    /\ WireDelay \in Nat
    /\ DataTTL \in Nat \ {0}
    /\ MarkerTTL \in Nat
    /\ MarkerTTL > FillTime

ASSUME RoutingAssumption == ReplicaOf \in [Callers -> Replicas]

ASSUME BoundsAssumption ==
    /\ MaxWrites \in Nat
    /\ MaxInvalidations \in Nat
    /\ MaxLateSets \in Nat
    /\ MaxEvictions \in Nat

VARIABLES
    version,    \* the committed projection in PostgreSQL; 0: no row
    fenced,     \* the version that was committed at the last invalidation
    entry,      \* the data key in Redis
    marker,     \* the generation key in Redis; gen 0: absent
    load,       \* the shared load of each replica
    wire,       \* SETs whose client timed out and that Redis may still run
    caller,     \* where each request is
    invals,     \* invalidations so far
    evictions   \* evictions so far

vars == <<version, fenced, entry, marker, load, wire, caller,
          invals, evictions>>

-----------------------------------------------------------------------------
(* age: ticks since the load that read the version began.                  *)
(* sound: the marker it read could not expire while the load lives, and    *)
(* was not evicted since.  The code does not know this.                    *)
Snapshot == [gen: Nat, version: Nat, age: Nat, sound: BOOLEAN]
NoSnapshot == [gen |-> 0, version |-> 0, age |-> 0, sound |-> FALSE]

Entry == [there: BOOLEAN, valid: BOOLEAN, version: Nat, age: Nat,
          left: Nat, sound: BOOLEAN]
NoEntry == [there |-> FALSE, valid |-> FALSE, version |-> 0, age |-> 0,
            left |-> 0, sound |-> FALSE]

Marker == [gen: Nat, left: Nat]
NoMarker == [gen |-> 0, left |-> 0]

LoadSteps == {"idle", "generation", "read", "set"}
CallerSteps == {"idle", "drop", "miss", "wait"}

Init ==
    /\ version = 0
    /\ fenced = 0
    /\ entry = NoEntry
    /\ marker = NoMarker
    /\ load = [r \in Replicas |->
                  [pc |-> "idle", fill |-> FALSE, snap |-> NoSnapshot]]
    /\ wire = {}
    /\ caller = [c \in Callers |-> "idle"]
    /\ invals = 0
    /\ evictions = 0

-----------------------------------------------------------------------------
(* User synchronization *)

(* a user-sync transaction commits a new projection *)
CommitWrite ==
    /\ version < MaxWrites
    /\ version' = version + 1
    /\ UNCHANGED <<fenced, entry, marker, load, wire, caller, invals,
                   evictions>>

(* mutation: the script deletes the entry and leaves the generation *)
BugDeleteOnly ==
    /\ invals < MaxInvalidations
    /\ invals' = invals + 1
    /\ entry' = NoEntry
    /\ fenced' = version
    /\ UNCHANGED marker

(* the invalidation script: INCR, PEXPIRE and DEL are one Redis step *)
RunInvalidation ==
    /\ invals < MaxInvalidations
    /\ invals' = invals + 1
    /\ marker' = [gen |-> marker.gen + 1, left |-> MarkerTTL]
    /\ entry' = NoEntry
    /\ fenced' = version

(* The processor invalidates after its commit, and so does every later      *)
(* duplicate or stale delivery.  Nothing makes this step happen: Redis may  *)
(* reject the command, or the process die before it.                        *)
Invalidate ==
    /\ version > 0
    /\ RunInvalidation
    /\ UNCHANGED <<version, load, wire, caller, evictions>>

-----------------------------------------------------------------------------
(* A request *)

(* GET: a valid entry answers, an invalid one is to be dropped, and a       *)
(* Redis error counts as a miss                                            *)
Get(c) ==
    /\ caller[c] = "idle"
    /\ \E pc \in {"miss",
                  CASE ~entry.there -> "miss"
                    [] entry.there /\ entry.valid -> "idle"
                    [] entry.there /\ ~entry.valid -> "drop"} :
          caller' = [caller EXCEPT ![c] = pc]
    /\ UNCHANGED <<version, fenced, entry, marker, load, wire,
                   invals, evictions>>

(* the best-effort DEL of an invalid value: it deletes what is there now *)
Drop(c) ==
    /\ caller[c] = "drop"
    /\ caller' = [caller EXCEPT ![c] = "miss"]
    /\ entry' \in {NoEntry, entry}
    /\ UNCHANGED <<version, fenced, marker, load, wire,
                   invals, evictions>>

(* DoChan starts a load of the key, or joins the one in flight *)
Join(c) ==
    /\ caller[c] = "miss"
    /\ caller' = [caller EXCEPT ![c] = "wait"]
    /\ load' = IF load[ReplicaOf[c]].pc # "idle" THEN load
               ELSE [load EXCEPT ![ReplicaOf[c]].pc = "generation"]
    /\ UNCHANGED <<version, fenced, entry, marker, wire,
                   invals, evictions>>

(* the request's context ends: it leaves, its load goes on *)
Cancel(c) ==
    /\ caller[c] # "idle"
    /\ caller' = [caller EXCEPT ![c] = "idle"]
    /\ UNCHANGED <<version, fenced, entry, marker, load, wire,
                   invals, evictions>>

-----------------------------------------------------------------------------
(* A shared load *)

(* mutation: a load that ends wakes nobody *)
BugStrandsWaiters(r) ==
    /\ load' = [load EXCEPT ![r] =
                  [pc |-> "idle", fill |-> FALSE, snap |-> NoSnapshot]]
    /\ UNCHANGED caller

(* the load ends and its result or error goes to all who wait for it *)
Finish(r) ==
    /\ load' = [load EXCEPT ![r] =
                  [pc |-> "idle", fill |-> FALSE, snap |-> NoSnapshot]]
    /\ caller' = [c \in Callers |->
                    IF caller[c] = "wait" /\ ReplicaOf[c] = r
                    THEN "idle" ELSE caller[c]]

Outlives(age) == marker.gen = 0 \/ marker.left + age > FillTime

(* GetGeneration; after an error the load goes on and stores nothing *)
ReadGeneration(r) ==
    /\ load[r].pc = "generation"
    /\ load' = [load EXCEPT ![r].pc = "read",
                            ![r].fill = TRUE,
                            ![r].snap.gen = marker.gen,
                            ![r].snap.sound = Outlives(load[r].snap.age)]
    /\ UNCHANGED <<version, fenced, entry, marker, wire, caller,
                   invals, evictions>>

ReadGenerationFails(r) ==
    /\ load[r].pc = "generation"
    /\ load' = [load EXCEPT ![r].pc = "read"]
    /\ UNCHANGED <<version, fenced, entry, marker, wire, caller,
                   invals, evictions>>

(* a missing row, or a load that may not store, answers at once *)
ReadUser(r) ==
    /\ load[r].pc = "read"
    /\ IF version > 0 /\ load[r].fill
       THEN /\ load' = [load EXCEPT ![r].pc = "set",
                                    ![r].snap.version = version]
            /\ UNCHANGED caller
       ELSE Finish(r)
    /\ UNCHANGED <<version, fenced, entry, marker, wire,
                   invals, evictions>>

(* a database error, or the load's deadline *)
ReadUserFails(r) ==
    /\ load[r].pc = "read"
    /\ Finish(r)
    /\ UNCHANGED <<version, fenced, entry, marker, wire,
                   invals, evictions>>

(* the set-if-generation script, for the snapshot s *)
Store(s) ==
    entry' = IF marker.gen = s.gen
             THEN [there |-> TRUE, valid |-> TRUE, version |-> s.version,
                   age |-> s.age, left |-> DataTTL, sound |-> s.sound]
             ELSE entry

SetIfGeneration(r) ==
    /\ load[r].pc = "set"
    /\ Store(load[r].snap)
    /\ Finish(r)
    /\ UNCHANGED <<version, fenced, marker, wire, invals, evictions>>

(* the client gives up: the command never left, or is still on its way *)
SetTimesOut(r) ==
    /\ load[r].pc = "set"
    /\ \/ wire' = wire
       \/ /\ Cardinality(wire) < MaxLateSets
          /\ wire' = wire \union {load[r].snap}
    /\ Finish(r)
    /\ UNCHANGED <<version, fenced, entry, marker, invals, evictions>>

(* an abandoned SET reaches Redis, or is lost *)
LateSet(s) ==
    /\ s \in wire
    /\ wire' = wire \ {s}
    /\ Store(s) \/ UNCHANGED entry
    /\ UNCHANGED <<version, fenced, marker, load, caller,
                   invals, evictions>>

-----------------------------------------------------------------------------
(* Redis and time *)

(* External: a value of another schema version, or a damaged one *)
Corrupt ==
    /\ entry.there /\ entry.valid
    /\ entry' = [entry EXCEPT !.valid = FALSE]
    /\ UNCHANGED <<version, fenced, marker, load, wire, caller,
                   invals, evictions>>

Unsound(s) == [s EXCEPT !.sound = FALSE]

(* External: Redis evicts the marker (the local one runs allkeys-lru, and  *)
(* persists nothing across a restart)                                      *)
EvictMarker ==
    /\ evictions < MaxEvictions
    /\ marker.gen > 0
    /\ evictions' = evictions + 1
    /\ marker' = NoMarker
    /\ load' = [r \in Replicas |->
                  [load[r] EXCEPT !.snap = Unsound(load[r].snap)]]
    /\ wire' = {Unsound(s) : s \in wire}
    /\ UNCHANGED <<version, fenced, entry, caller, invals>>

Older(s) == [s EXCEPT !.age = @ + 1]

BugNeverExpires(e) == e  \* mutation: the SET has no expiry
Expire(e) ==
    IF e.left > 1 THEN [e EXCEPT !.left = @ - 1, !.age = @ + 1] ELSE NoEntry

BugNoDeadline(r) == TRUE  \* mutation: the shared load has no timeout
BeforeDeadline(r) == load[r].pc = "idle" \/ load[r].snap.age < LoadTimeout

(* A tick waits for the loads at their deadline, and for the SETs that     *)
(* linger no longer; Redis expires its keys                                *)
Tick ==
    /\ \A r \in Replicas : BeforeDeadline(r)
    /\ \A s \in wire : s.age < FillTime
    /\ load' = [r \in Replicas |->
                  IF load[r].pc = "idle" THEN load[r]
                  ELSE [load[r] EXCEPT !.snap = Older(load[r].snap)]]
    /\ wire' = {Older(s) : s \in wire}
    /\ entry' = Expire(entry)
    /\ marker' = IF marker.left > 1 THEN [marker EXCEPT !.left = @ - 1]
                                    ELSE NoMarker
    /\ UNCHANGED <<version, fenced, caller, invals, evictions>>

-----------------------------------------------------------------------------
LoadStep(r) ==
    \/ ReadGeneration(r) \/ ReadGenerationFails(r)
    \/ ReadUser(r) \/ ReadUserFails(r)
    \/ SetIfGeneration(r) \/ SetTimesOut(r)

Next ==
    \/ CommitWrite \/ Invalidate
    \/ \E c \in Callers :
          Get(c) \/ Drop(c) \/ Join(c) \/ Cancel(c)
    \/ \E r \in Replicas : LoadStep(r)
    \/ \E s \in wire : LateSet(s)
    \/ Corrupt \/ EvictMarker \/ Tick

Spec == Init /\ [][Next]_vars

(* time passes, a load ends at its deadline at the latest, and a SET does  *)
(* not linger for ever                                                     *)
Fairness ==
    /\ WF_vars(Tick)
    /\ \A r \in Replicas : WF_vars(LoadStep(r))
    /\ WF_vars(\E s \in wire : s.age = FillTime /\ LateSet(s))

FairSpec == Spec /\ Fairness

-----------------------------------------------------------------------------
TypeOK ==
    /\ version \in 0..MaxWrites
    /\ fenced \in 0..version
    /\ entry \in Entry
    /\ marker \in Marker
    /\ load \in [Replicas -> [pc: LoadSteps, fill: BOOLEAN, snap: Snapshot]]
    /\ wire \subseteq Snapshot
    /\ caller \in [Callers -> CallerSteps]
    /\ invals \in 0..MaxInvalidations
    /\ evictions \in 0..MaxEvictions
    /\ IF entry.there THEN entry.left \in 1..DataTTL ELSE entry = NoEntry
    /\ IF marker.gen > 0 THEN marker.left \in 1..MarkerTTL
                         ELSE marker = NoMarker
    /\ \A r \in Replicas : load[r].pc = "idle" => load[r].snap = NoSnapshot

(* The fence: no replica stores a projection older than the last            *)
(* invalidation, whatever the order of commits, reads, late SETs and        *)
(* expiries, provided the load found no marker or one that would outlive    *)
(* it.  It needs INCR, PEXPIRE and DEL in one script, a generation read     *)
(* before PostgreSQL, and MarkerTTL > FillTime.                             *)
FenceHolds ==
    entry.there /\ entry.sound => entry.version >= fenced

(* The runbook's claim, without that proviso: "an older PostgreSQL read     *)
(* that completes after a successful invalidation cannot repopulate the     *)
(* cache with a pre-invalidation projection".                               *)
NeverBehindInvalidation ==
    entry.there => entry.version >= fenced

(* "The data TTL bounds any residual stale window": whatever fails, nothing *)
(* is served that PostgreSQL did not show within the last                   *)
(* DataTTL + FillTime ticks, and no waiter gets a result older than         *)
(* LoadTimeout.                                                             *)
StalenessBounded ==
    /\ entry.there => entry.age + entry.left <= DataTTL + FillTime
    /\ \A r \in Replicas : load[r].snap.age <= LoadTimeout

(* A request that waits for a shared load is answered: the load's deadline  *)
(* does not depend on the request that began it, so its cancellation        *)
(* strands nobody.                                                          *)
WaitersAnswered ==
    \A c \in Callers : caller[c] = "wait" ~> caller[c] # "wait"

(* Once projections stop changing, the cache forgets every older one, even  *)
(* when invalidations failed, markers were lost or SETs came late.          *)
CacheConverges == <>[](entry.there => entry.version = version)
=============================================================================
