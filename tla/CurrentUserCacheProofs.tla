----------------------- MODULE CurrentUserCacheProofs -----------------------
(***************************************************************************)
(* Proofs about CurrentUserCache, for every set of replicas and requests,  *)
(* every timeout and every time to live.                                   *)
(*                                                                         *)
(* The fence cannot be read off one state: that a SET is refused depends   *)
(* on the marker still being there.  Guarded says so, with a clock: a      *)
(* sound load never sees its marker expire, because what is left of the    *)
(* marker's life and what is gone of the load's exceed FillTime together,  *)
(* and both sides of that sum move with the same tick.                     *)
(***************************************************************************)
EXTENDS CurrentUserCache, TLAPS

(* the marker a sound snapshot was read under only grows, and outlives it *)
Guarded(s) ==
    s.sound =>
        /\ s.gen <= marker.gen
        /\ marker.gen > 0 => marker.left + s.age > FillTime

(* if the marker is still the one it was read under, nothing newer was     *)
(* fenced since                                                            *)
Fresh(s) == s.sound /\ s.gen = marker.gen => s.version >= fenced

LoadsGuarded ==
    \A r \in Replicas :
        /\ Guarded(load[r].snap)
        /\ load[r].pc = "set" => Fresh(load[r].snap)
        /\ load[r].pc = "generation" => ~load[r].snap.sound

LoadsAged == \A r \in Replicas : load[r].snap.age <= LoadTimeout

SetsGuarded == \A s \in wire : Guarded(s) /\ Fresh(s) /\ s.age <= FillTime

Inductive ==
    /\ TypeOK
    /\ LoadsGuarded
    /\ SetsGuarded
    /\ FenceHolds
    /\ StalenessBounded

-----------------------------------------------------------------------------
LoadRecord == [pc: LoadSteps, fill: BOOLEAN, snap: Snapshot]

(* The empty records have the types of the full ones.  *)
LEMMA EmptyRecords ==
    /\ NoSnapshot \in Snapshot
    /\ NoEntry \in Entry /\ ~NoEntry.there /\ ~NoEntry.sound
    /\ NoMarker \in Marker /\ NoMarker.gen = 0
    /\ [pc |-> "idle", fill |-> FALSE, snap |-> NoSnapshot] \in LoadRecord
BY DEF NoSnapshot, Snapshot, NoEntry, Entry, NoMarker, Marker, LoadRecord,
       LoadSteps

(* The initial state satisfies the invariant.  *)
LEMMA InitHolds == Init => Inductive
<1> SUFFICES ASSUME Init PROVE Inductive
  OBVIOUS
<1> USE EmptyRecords, TimingAssumption, BoundsAssumption DEF Init, FillTime
<1>1. TypeOK
  BY DEF TypeOK, CallerSteps, LoadRecord
<1>2. LoadsGuarded /\ SetsGuarded
  BY DEF LoadsGuarded, SetsGuarded, Guarded, NoSnapshot
<1>3. FenceHolds /\ StalenessBounded
  BY DEF FenceHolds, StalenessBounded, NoSnapshot
<1> QED
  BY <1>1, <1>2, <1>3 DEF Inductive

(* A load that finishes keeps the types of loads and requests.  *)
LEMMA FinishTypes ==
    ASSUME TypeOK, NEW r \in Replicas, Finish(r)
    PROVE  /\ load' \in [Replicas -> LoadRecord]
           /\ \A q \in Replicas : load'[q].pc = "idle" => load'[q].snap = NoSnapshot
           /\ caller' \in [Callers -> CallerSteps]
BY EmptyRecords DEF TypeOK, Finish, LoadRecord, CallerSteps

(* Storing a snapshot keeps the type of the entry.  *)
LEMMA StoreTypes ==
    ASSUME TypeOK, NEW s \in Snapshot, Store(s)
    PROVE  /\ entry' \in Entry
           /\ IF entry'.there THEN entry'.left \in 1..DataTTL
                              ELSE entry' = NoEntry
BY TimingAssumption DEF TypeOK, Store, Entry, Snapshot

(* Every action keeps the types.  *)
LEMMA TypeStep == TypeOK /\ [Next]_vars => TypeOK'
<1> SUFFICES ASSUME TypeOK, [Next]_vars PROVE TypeOK'
  OBVIOUS
<1> USE TimingAssumption, BoundsAssumption DEF TypeOK, LoadRecord
<1>1. CASE CommitWrite
  BY <1>1 DEF CommitWrite
<1>2. CASE Invalidate
  BY <1>2, EmptyRecords DEF Invalidate, RunInvalidation, FillTime, Marker
<1>3. ASSUME NEW c \in Callers, Get(c) PROVE TypeOK'
  <2>1. caller' \in [Callers -> CallerSteps]
    BY <1>3 DEF Get, CallerSteps, Entry
  <2> QED
    BY <1>3, <2>1 DEF Get
<1>4. ASSUME NEW c \in Callers, Drop(c) PROVE TypeOK'
  BY <1>4, EmptyRecords DEF Drop, CallerSteps
<1>5. ASSUME NEW c \in Callers, Join(c) PROVE TypeOK'
  <2>1. ReplicaOf[c] \in Replicas
    BY RoutingAssumption
  <2>2. /\ load' \in [Replicas -> LoadRecord]
        /\ \A q \in Replicas :
              load'[q].pc = "idle" => load'[q].snap = NoSnapshot
    BY <1>5, <2>1 DEF Join, LoadSteps
  <2>3. caller' \in [Callers -> CallerSteps]
    BY <1>5 DEF Join, CallerSteps
  <2> QED
    BY <1>5, <2>2, <2>3 DEF Join
<1>6. ASSUME NEW c \in Callers, Cancel(c) PROVE TypeOK'
  BY <1>6 DEF Cancel, CallerSteps
<1>7. ASSUME NEW r \in Replicas, ReadGeneration(r) PROVE TypeOK'
  <2>1. Outlives(load[r].snap.age) \in BOOLEAN
    BY DEF Outlives
  <2>2. [load[r] EXCEPT !.pc = "read", !.fill = TRUE,
                        !.snap.gen = marker.gen,
                        !.snap.sound = Outlives(load[r].snap.age)]
          \in LoadRecord
    <3>1. /\ load[r] \in LoadRecord /\ load[r].snap \in Snapshot
          /\ marker.gen \in Nat
      BY DEF Marker
    <3>2. [load[r].snap EXCEPT !.gen = marker.gen,
                               !.sound = Outlives(load[r].snap.age)]
            \in Snapshot
      BY <2>1, <3>1 DEF Snapshot
    <3> QED
      BY <3>1, <3>2 DEF LoadSteps
  <2>3. load' \in [Replicas -> LoadRecord]
    BY <1>7, <2>2 DEF ReadGeneration
  <2>4. \A q \in Replicas : load'[q].pc = "idle" => load'[q].snap = NoSnapshot
    BY <1>7 DEF ReadGeneration
  <2> QED
    BY <1>7, <2>3, <2>4 DEF ReadGeneration
<1>8. ASSUME NEW r \in Replicas, ReadGenerationFails(r) PROVE TypeOK'
  BY <1>8 DEF ReadGenerationFails, LoadSteps
<1>9. ASSUME NEW r \in Replicas, ReadUser(r) PROVE TypeOK'
  <2>1. CASE version > 0 /\ load[r].fill
    <3>1. [load[r] EXCEPT !.pc = "set", !.snap.version = version]
            \in LoadRecord
      <4>1. [load[r].snap EXCEPT !.version = version] \in Snapshot
        BY DEF Snapshot
      <4> QED
        BY <4>1 DEF LoadSteps
    <3>2. load' \in [Replicas -> LoadRecord]
      BY <1>9, <2>1, <3>1 DEF ReadUser
    <3>3. \A q \in Replicas :
             load'[q].pc = "idle" => load'[q].snap = NoSnapshot
      BY <1>9, <2>1 DEF ReadUser
    <3> QED
      BY <1>9, <2>1, <3>2, <3>3 DEF ReadUser
  <2>2. CASE ~(version > 0 /\ load[r].fill)
    BY <1>9, <2>2, FinishTypes DEF ReadUser
  <2> QED
    BY <2>1, <2>2
<1>10. ASSUME NEW r \in Replicas, ReadUserFails(r) PROVE TypeOK'
  BY <1>10, FinishTypes DEF ReadUserFails
<1>11. ASSUME NEW r \in Replicas, SetIfGeneration(r) PROVE TypeOK'
  <2>1. load[r].snap \in Snapshot
    OBVIOUS
  <2> QED
    BY <1>11, <2>1, FinishTypes, StoreTypes DEF SetIfGeneration
<1>12. ASSUME NEW r \in Replicas, SetTimesOut(r) PROVE TypeOK'
  <2>1. wire' \subseteq Snapshot
    BY <1>12 DEF SetTimesOut
  <2> QED
    BY <1>12, <2>1, FinishTypes DEF SetTimesOut
<1>13. ASSUME NEW s \in wire, LateSet(s) PROVE TypeOK'
  <2>1. CASE Store(s)
    BY <1>13, <2>1, StoreTypes DEF LateSet
  <2>2. CASE UNCHANGED entry
    BY <1>13, <2>2 DEF LateSet
  <2> QED
    BY <1>13, <2>1, <2>2 DEF LateSet
<1>14. CASE Corrupt
  BY <1>14 DEF Corrupt, Entry
<1>15. CASE EvictMarker
  <2>1. \A s \in Snapshot : Unsound(s) \in Snapshot
    BY DEF Unsound, Snapshot
  <2>2. \A r \in Replicas : Unsound(load[r].snap) \in Snapshot
    BY <2>1
  <2>3. load' \in [Replicas -> LoadRecord]
    BY <1>15, <2>2 DEF EvictMarker
  <2>4. \A q \in Replicas : load'[q].pc = "idle" => load'[q].snap = NoSnapshot
    <3>1. Unsound(NoSnapshot) = NoSnapshot
      <4>1. NoSnapshot \in Snapshot /\ NoSnapshot.sound = FALSE
        BY DEF NoSnapshot, Snapshot
      <4>2. \A s \in Snapshot : s.sound = FALSE => Unsound(s) = s
        BY DEF Unsound, Snapshot
      <4> QED
        BY <4>1, <4>2
    <3>2. ASSUME NEW q \in Replicas
          PROVE  /\ load'[q].pc = load[q].pc
                 /\ load'[q].snap = Unsound(load[q].snap)
      <4>1. load'[q] = [load[q] EXCEPT !.snap = Unsound(load[q].snap)]
        BY <1>15 DEF EvictMarker
      <4>2. load[q] \in LoadRecord
        OBVIOUS
      <4> QED
        BY <4>1, <4>2
    <3> QED
      BY <3>1, <3>2
  <2>5. wire' \subseteq Snapshot
    BY <1>15, <2>1 DEF EvictMarker
  <2>6. marker' = NoMarker /\ marker' \in Marker /\ ~(marker'.gen > 0)
    BY <1>15, EmptyRecords DEF EvictMarker
  <2>7. evictions' \in 0..MaxEvictions
    BY <1>15 DEF EvictMarker
  <2>8. UNCHANGED <<version, fenced, entry, caller, invals>>
    BY <1>15 DEF EvictMarker
  <2> QED
    BY <2>3, <2>4, <2>5, <2>6, <2>7, <2>8
<1>16. CASE Tick
  <2>1. \A s \in Snapshot : Older(s) \in Snapshot
    BY DEF Older, Snapshot
  <2>2. \A r \in Replicas : Older(load[r].snap) \in Snapshot
    BY <2>1
  <2>3. load' \in [Replicas -> LoadRecord]
    BY <1>16, <2>2 DEF Tick
  <2>4. \A q \in Replicas : load'[q].pc = "idle" => load'[q].snap = NoSnapshot
    BY <1>16 DEF Tick
  <2>5. wire' \subseteq Snapshot
    BY <1>16, <2>1 DEF Tick
  <2>6. /\ entry' \in Entry
        /\ IF entry'.there THEN entry'.left \in 1..DataTTL
                           ELSE entry' = NoEntry
    <3>1. CASE entry.left > 1
      <4>1. entry.there
        BY <3>1 DEF NoEntry
      <4> QED
        <5>1. entry' = [entry EXCEPT !.left = @ - 1, !.age = @ + 1]
          BY <1>16, <3>1 DEF Tick, Expire
        <5>2. entry.left \in 1..DataTTL /\ entry.age \in Nat
          BY <4>1 DEF Entry
        <5> QED
          <6>1. entry \in Entry
            OBVIOUS
          <6>2. entry' \in Entry
            <7>1. entry.left - 1 \in Nat /\ entry.age + 1 \in Nat
              BY <5>2
            <7> QED
              BY <5>1, <6>1, <7>1 DEF Entry
          <6>3. entry'.there /\ entry'.left \in 1..DataTTL
            BY <3>1, <4>1, <5>1, <5>2, <6>1 DEF Entry
          <6> QED
            BY <6>2, <6>3
    <3>2. CASE ~(entry.left > 1)
      BY <1>16, <3>2, EmptyRecords DEF Tick, Expire
    <3> QED
      BY <3>1, <3>2
  <2>7. /\ marker' \in Marker
        /\ IF marker'.gen > 0 THEN marker'.left \in 1..MarkerTTL
                              ELSE marker' = NoMarker
    BY <1>16, EmptyRecords DEF Tick, Marker, NoMarker
  <2> QED
    BY <1>16, <2>3, <2>4, <2>5, <2>6, <2>7 DEF Tick
<1>17. CASE UNCHANGED vars
  BY <1>17 DEF vars
<1> QED
  BY <1>1, <1>2, <1>3, <1>4, <1>5, <1>6, <1>7, <1>8, <1>9, <1>10, <1>11,
     <1>12, <1>13, <1>14, <1>15, <1>16, <1>17 DEF Next, LoadStep

-----------------------------------------------------------------------------
(* FillTime is a number, and covers a load.  *)
LEMMA FillTimeCoversLoads == FillTime \in Nat /\ LoadTimeout <= FillTime
BY TimingAssumption DEF FillTime

(* A store of a sound snapshot keeps the fence, of a young one the bound.  *)
LEMMA StoreKeeps ==
    ASSUME TypeOK, FenceHolds, StalenessBounded,
           NEW s \in Snapshot, Fresh(s), s.age <= FillTime, Store(s),
           UNCHANGED fenced
    PROVE  /\ FenceHolds'
           /\ entry'.there => entry'.age + entry'.left <= DataTTL + FillTime
<1> USE TimingAssumption, FillTimeCoversLoads DEF FenceHolds, StalenessBounded
<1>1. CASE marker.gen = s.gen
  BY <1>1 DEF Store, Fresh, Snapshot, TypeOK
<1>2. CASE marker.gen # s.gen
  BY <1>2 DEF Store
<1> QED
  BY <1>1, <1>2

(* An empty or unsound snapshot is guarded and fresh under any marker.  *)
LEMMA UnsoundIsGuarded ==
    ASSUME NEW s, ~s.sound PROVE Guarded(s) /\ Fresh(s)
BY DEF Guarded, Fresh

(* A load that ends leaves the others guarded.  *)
LEMMA FinishKeeps ==
    ASSUME Inductive, NEW r \in Replicas, Finish(r),
           UNCHANGED <<marker, fenced>>
    PROVE  /\ LoadsGuarded'
           /\ \A q \in Replicas : load'[q].snap.age <= LoadTimeout
<1>1. ASSUME NEW q \in Replicas
      PROVE  \/ load'[q] = load[q]
             \/ /\ load'[q].pc = "idle" /\ ~load'[q].snap.sound
                /\ load'[q].snap.age = 0
  BY DEF Finish, NoSnapshot, Inductive, TypeOK
<1>2. LoadsGuarded'
  BY <1>1, UnsoundIsGuarded DEF Inductive, LoadsGuarded, Guarded, Fresh
<1>3. \A q \in Replicas : load'[q].snap.age <= LoadTimeout
  BY <1>1, TimingAssumption DEF Inductive, StalenessBounded
<1> QED
  BY <1>2, <1>3

(* Commits, requests and damaged values do not concern the fence.  *)
LEMMA OthersKeep ==
    ASSUME Inductive,
           \/ CommitWrite
           \/ \E c \in Callers : Get(c) \/ Drop(c) \/ Cancel(c)
           \/ Corrupt
           \/ UNCHANGED vars
    PROVE  LoadsGuarded' /\ SetsGuarded' /\ FenceHolds' /\ StalenessBounded'
<1>1. UNCHANGED <<fenced, marker, load, wire>>
  BY DEF CommitWrite, Get, Drop, Cancel, Corrupt, vars
<1>2. LoadsGuarded' /\ SetsGuarded'
  BY <1>1 DEF Inductive, LoadsGuarded, SetsGuarded, Guarded, Fresh
<1>3. \/ entry' = entry
      \/ entry' = NoEntry
      \/ entry' = [entry EXCEPT !.valid = FALSE]
  BY DEF CommitWrite, Get, Drop, Cancel, Corrupt, vars
<1>4. FenceHolds' /\ StalenessBounded'
  BY <1>1, <1>3 DEF Inductive, FenceHolds, StalenessBounded, NoEntry, Entry,
     TypeOK
<1> QED
  BY <1>2, <1>4

(* An invalidation: no snapshot in flight was read under the new marker,    *)
(* which outlives them all.                                                 *)
LEMMA InvalidateKeeps ==
    ASSUME Inductive, Invalidate
    PROVE  LoadsGuarded' /\ SetsGuarded' /\ FenceHolds' /\ StalenessBounded'
<1>1. /\ marker'.gen = marker.gen + 1 /\ marker'.left = MarkerTTL
      /\ marker.gen \in Nat /\ entry' = NoEntry
      /\ UNCHANGED <<load, wire>>
  BY DEF Invalidate, RunInvalidation, Inductive, TypeOK, Marker
<1>2. ASSUME NEW s \in Snapshot, Guarded(s)
      PROVE  Guarded(s)' /\ Fresh(s)'
  <2>1. s.gen \in Nat /\ s.age \in Nat
    BY DEF Snapshot
  <2>2. s.sound => s.gen < marker'.gen
    BY <1>1, <1>2, <2>1 DEF Guarded
  <2>3. marker'.left + s.age > FillTime
    BY <1>1, <2>1, TimingAssumption, FillTimeCoversLoads
  <2> QED
    BY <1>1, <2>1, <2>2, <2>3 DEF Guarded, Fresh
<1>3. LoadsGuarded'
  BY <1>1, <1>2 DEF Inductive, TypeOK, LoadsGuarded
<1>4. SetsGuarded'
  BY <1>1, <1>2 DEF Inductive, TypeOK, SetsGuarded
<1>5. FenceHolds' /\ StalenessBounded'
  BY <1>1 DEF Inductive, FenceHolds, StalenessBounded, NoEntry
<1> QED
  BY <1>3, <1>4, <1>5

(* The steps of a load up to its SET.  *)
LEMMA LoadsKeep ==
    ASSUME Inductive,
           \/ \E c \in Callers : Join(c)
           \/ \E r \in Replicas : \/ ReadGeneration(r) \/ ReadGenerationFails(r)
                                 \/ ReadUser(r) \/ ReadUserFails(r)
    PROVE  LoadsGuarded' /\ SetsGuarded' /\ FenceHolds' /\ StalenessBounded'
<1>1. UNCHANGED <<fenced, marker, entry, wire>>
  BY DEF Join, ReadGeneration, ReadGenerationFails, ReadUser, ReadUserFails
<1>2. SetsGuarded' /\ FenceHolds'
  BY <1>1 DEF Inductive, SetsGuarded, FenceHolds, Guarded, Fresh
<1>3. SUFFICES LoadsGuarded' /\ LoadsAged'
  BY <1>1, <1>2 DEF Inductive, StalenessBounded, LoadsAged
<1>4. ASSUME NEW r \in Replicas, Finish(r) PROVE LoadsGuarded' /\ LoadsAged'
  BY <1>1, <1>4, FinishKeeps DEF LoadsAged
<1>5. ASSUME NEW r \in Replicas, \A q \in Replicas \ {r} : load'[q] = load[q],
             Guarded(load'[r].snap),
             load'[r].pc = "set" => Fresh(load'[r].snap),
             load'[r].pc = "generation" => ~load'[r].snap.sound,
             load'[r].snap.age = load[r].snap.age
      PROVE  LoadsGuarded' /\ LoadsAged'
  BY <1>1, <1>5
  DEF Inductive, LoadsGuarded, Guarded, Fresh, StalenessBounded, LoadsAged
<1>6. ASSUME NEW c \in Callers, Join(c) PROVE LoadsGuarded' /\ LoadsAged'
  <2>1. PICK r \in Replicas : r = ReplicaOf[c]
    BY RoutingAssumption
  <2>2. CASE load[r].pc # "idle"
    BY <1>1, <1>6, <2>1, <2>2
    DEF Join, Inductive, LoadsGuarded, Guarded, Fresh, StalenessBounded,
        LoadsAged
  <2>3. CASE load[r].pc = "idle"
    <3>1. load' = [load EXCEPT ![r].pc = "generation"]
      BY <1>6, <2>1, <2>3 DEF Join
    <3>2. load[r].snap = NoSnapshot
      BY <2>3 DEF Inductive, TypeOK
    <3>3. /\ load'[r].pc = "generation" /\ load'[r].snap = load[r].snap
          /\ \A q \in Replicas \ {r} : load'[q] = load[q]
      BY <3>1 DEF Inductive, TypeOK
    <3>4. ~load'[r].snap.sound
      BY <3>2, <3>3 DEF NoSnapshot
    <3> QED
      BY <1>5, <3>3, <3>4, UnsoundIsGuarded
  <2> QED
    BY <2>2, <2>3
<1>7. ASSUME NEW r \in Replicas, ReadGeneration(r)
      PROVE  LoadsGuarded' /\ LoadsAged'
  <2>1. /\ load'[r].pc = "read"
        /\ load'[r].snap.age = load[r].snap.age
        /\ load'[r].snap.gen = marker.gen
        /\ load'[r].snap.sound => Outlives(load[r].snap.age)
        /\ \A q \in Replicas \ {r} : load'[q] = load[q]
    <3>1. PICK b \in BOOLEAN : b = Outlives(load[r].snap.age)
      BY DEF Outlives
    <3>2. /\ load'[r] = [load[r] EXCEPT !.pc = "read", !.fill = TRUE,
                                        !.snap.gen = marker.gen,
                                        !.snap.sound = b]
          /\ \A q \in Replicas \ {r} : load'[q] = load[q]
      BY <1>7, <3>1 DEF ReadGeneration, Inductive, TypeOK
    <3>3. load[r] \in LoadRecord
      BY DEF Inductive, TypeOK, LoadRecord
    <3>4. /\ load'[r].pc = "read"
          /\ load'[r].snap = [load[r].snap EXCEPT !.gen = marker.gen,
                                                  !.sound = b]
      BY <3>2, <3>3 DEF LoadRecord
    <3>5. /\ load'[r].snap.age = load[r].snap.age
          /\ load'[r].snap.gen = marker.gen
          /\ load'[r].snap.sound = b
      BY <3>3, <3>4 DEF LoadRecord, Snapshot
    <3> QED
      BY <3>1, <3>2, <3>4, <3>5
  <2>2. marker.gen \in Nat /\ marker.gen <= marker.gen
    BY DEF Inductive, TypeOK, Marker
  <2>3. Guarded(load'[r].snap)
    <3>1. load'[r].snap.sound /\ marker.gen > 0 =>
             marker.left + load'[r].snap.age > FillTime
      BY <2>1, <2>2 DEF Outlives
    <3>2. load'[r].snap.gen <= marker.gen
      BY <2>1, <2>2
    <3> QED
      BY <1>1, <3>1, <3>2 DEF Guarded
  <2> QED
    BY <1>5, <2>1, <2>3
<1>8. ASSUME NEW r \in Replicas, ReadGenerationFails(r)
      PROVE  LoadsGuarded' /\ LoadsAged'
  <2>1. /\ load'[r].pc = "read"
        /\ load'[r].snap = load[r].snap
        /\ \A q \in Replicas \ {r} : load'[q] = load[q]
    BY <1>8 DEF ReadGenerationFails, Inductive, TypeOK
  <2>2. Guarded(load'[r].snap)
    BY <2>1 DEF Inductive, LoadsGuarded
  <2> QED
    BY <1>5, <2>1, <2>2
<1>9. ASSUME NEW r \in Replicas, ReadUser(r)
      PROVE  LoadsGuarded' /\ LoadsAged'
  <2>1. CASE version > 0 /\ load[r].fill
    <3>1. /\ load'[r].pc = "set"
          /\ load'[r].snap = [load[r].snap EXCEPT !.version = version]
          /\ \A q \in Replicas \ {r} : load'[q] = load[q]
      BY <1>9, <2>1 DEF ReadUser, Inductive, TypeOK
    <3>2. /\ load'[r].snap.age = load[r].snap.age
          /\ load'[r].snap.gen = load[r].snap.gen
          /\ load'[r].snap.sound = load[r].snap.sound
          /\ load'[r].snap.version = version
      BY <3>1 DEF Inductive, TypeOK, Snapshot
    <3>3. Guarded(load'[r].snap)
      BY <3>2 DEF Inductive, LoadsGuarded, Guarded
    <3>4. Fresh(load'[r].snap)
      BY <3>2 DEF Inductive, TypeOK, Fresh
    <3> QED
      BY <1>5, <3>1, <3>2, <3>3, <3>4
  <2>2. CASE ~(version > 0 /\ load[r].fill)
    BY <1>4, <1>9, <2>2 DEF ReadUser
  <2> QED
    BY <2>1, <2>2
<1>10. ASSUME NEW r \in Replicas, ReadUserFails(r)
       PROVE  LoadsGuarded' /\ LoadsAged'
  BY <1>4, <1>10 DEF ReadUserFails
<1> QED
  BY <1>6, <1>7, <1>8, <1>9, <1>10

(* A SET, in time or late.  *)
LEMMA SetsKeep ==
    ASSUME Inductive,
           \/ \E r \in Replicas : SetIfGeneration(r) \/ SetTimesOut(r)
           \/ \E s \in wire : LateSet(s)
    PROVE  LoadsGuarded' /\ SetsGuarded' /\ FenceHolds' /\ StalenessBounded'
<1>1. UNCHANGED <<fenced, marker>>
  BY DEF SetIfGeneration, SetTimesOut, LateSet
<1>2. ASSUME NEW r \in Replicas, SetIfGeneration(r)
      PROVE  LoadsGuarded' /\ SetsGuarded' /\ FenceHolds' /\ StalenessBounded'
  <2>1. LoadsGuarded' /\ LoadsAged'
    BY <1>1, <1>2, FinishKeeps DEF SetIfGeneration, LoadsAged
  <2>2. PICK s \in Snapshot : s = load[r].snap
    BY DEF Inductive, TypeOK
  <2>3. Fresh(s) /\ s.age <= FillTime
    BY <1>2, <2>2, FillTimeCoversLoads, TimingAssumption
    DEF SetIfGeneration, Inductive, LoadsGuarded, StalenessBounded, Snapshot
  <2>4. Store(s)
    BY <1>2, <2>2 DEF SetIfGeneration
  <2>5. FenceHolds' /\ StalenessBounded'
    BY <1>1, <2>1, <2>3, <2>4, StoreKeeps
    DEF Inductive, StalenessBounded, LoadsAged
  <2>6. SetsGuarded'
    BY <1>1, <1>2 DEF SetIfGeneration, Inductive, SetsGuarded, Guarded, Fresh
  <2> QED
    BY <2>1, <2>5, <2>6
<1>3. ASSUME NEW r \in Replicas, SetTimesOut(r)
      PROVE  LoadsGuarded' /\ SetsGuarded' /\ FenceHolds' /\ StalenessBounded'
  <2>1. LoadsGuarded' /\ LoadsAged'
    BY <1>1, <1>3, FinishKeeps DEF SetTimesOut, LoadsAged
  <2>2. PICK x \in Snapshot : x = load[r].snap
    BY DEF Inductive, TypeOK
  <2>3. Guarded(x) /\ Fresh(x) /\ x.age <= FillTime
    BY <1>3, <2>2, FillTimeCoversLoads, TimingAssumption
    DEF SetTimesOut, Inductive, LoadsGuarded, StalenessBounded, Snapshot
  <2>4. wire' \subseteq wire \union {x}
    BY <1>3, <2>2 DEF SetTimesOut
  <2>5. SetsGuarded'
    BY <1>1, <2>3, <2>4 DEF Inductive, SetsGuarded, Guarded, Fresh
  <2>6. FenceHolds' /\ StalenessBounded'
    BY <1>1, <1>3, <2>1
    DEF SetTimesOut, Inductive, FenceHolds, StalenessBounded, LoadsAged
  <2> QED
    BY <2>1, <2>5, <2>6
<1>4. ASSUME NEW s \in wire, LateSet(s)
      PROVE  LoadsGuarded' /\ SetsGuarded' /\ FenceHolds' /\ StalenessBounded'
  <2>1. s \in Snapshot /\ Fresh(s) /\ s.age <= FillTime
    BY DEF Inductive, TypeOK, SetsGuarded
  <2>2. UNCHANGED load /\ wire' \subseteq wire
    BY <1>4 DEF LateSet
  <2>3. LoadsGuarded' /\ SetsGuarded'
    BY <1>1, <2>2 DEF Inductive, LoadsGuarded, SetsGuarded, Guarded, Fresh
  <2>4. CASE Store(s)
    BY <1>1, <2>1, <2>2, <2>3, <2>4, StoreKeeps
    DEF Inductive, StalenessBounded
  <2>5. CASE UNCHANGED entry
    BY <1>1, <2>2, <2>3, <2>5 DEF Inductive, FenceHolds, StalenessBounded
  <2> QED
    BY <1>4, <2>4, <2>5 DEF LateSet
<1> QED
  BY <1>2, <1>3, <1>4

(* An eviction: no snapshot in flight is sound any more.  *)
LEMMA EvictKeeps ==
    ASSUME Inductive, EvictMarker
    PROVE  LoadsGuarded' /\ SetsGuarded' /\ FenceHolds' /\ StalenessBounded'
<1>1. ASSUME NEW s \in Snapshot
      PROVE  ~Unsound(s).sound /\ Unsound(s).age = s.age
  BY DEF Unsound, Snapshot
<1>2. ASSUME NEW r \in Replicas
      PROVE  ~load'[r].snap.sound /\ load'[r].snap.age = load[r].snap.age
  <2>1. load'[r].snap = Unsound(load[r].snap)
    BY DEF EvictMarker, Inductive, TypeOK
  <2> QED
    BY <1>1, <2>1 DEF Inductive, TypeOK
<1>3. LoadsGuarded'
  BY <1>2 DEF LoadsGuarded, Guarded, Fresh
<1>4. SetsGuarded'
  BY <1>1 DEF EvictMarker, Inductive, TypeOK, SetsGuarded, Guarded, Fresh
<1>5. FenceHolds' /\ StalenessBounded'
  BY <1>2 DEF EvictMarker, Inductive, FenceHolds, StalenessBounded
<1> QED
  BY <1>3, <1>4, <1>5

(* A tick: marker and snapshot lose and gain the same, so a marker can only *)
(* expire when no sound snapshot is in flight.                              *)
LEMMA TickKeeps ==
    ASSUME Inductive, Tick
    PROVE  LoadsGuarded' /\ SetsGuarded' /\ FenceHolds' /\ StalenessBounded'
<1> USE TimingAssumption, FillTimeCoversLoads
<1>1. marker.gen \in Nat /\ marker.left \in Nat
  BY DEF Inductive, TypeOK, Marker
<1>2. ASSUME NEW s \in Snapshot
      PROVE  /\ Older(s).gen = s.gen /\ Older(s).version = s.version
             /\ Older(s).sound = s.sound /\ Older(s).age = s.age + 1
             /\ s.gen \in Nat /\ s.age \in Nat
  BY DEF Older, Snapshot
<1>3. ASSUME NEW s \in Snapshot, Guarded(s), s.age < FillTime
      PROVE  Guarded(Older(s))'
  <2>1. CASE marker.left > 1
    <3>1. marker'.gen = marker.gen /\ marker'.left = marker.left - 1
      BY <2>1 DEF Tick, Inductive, TypeOK, Marker
    <3> QED
      BY <1>1, <1>2, <1>3, <3>1 DEF Guarded, Older
  <2>2. CASE ~(marker.left > 1)
    <3>1. marker' = NoMarker
      BY <2>2 DEF Tick
    <3>2. s.sound => marker.gen = 0
      BY <1>1, <1>2, <1>3, <2>2 DEF Guarded
    <3> QED
      BY <1>1, <1>2, <1>3, <3>1, <3>2 DEF Guarded, NoMarker, Older
  <2> QED
    BY <2>1, <2>2
<1>4. ASSUME NEW s \in Snapshot, Guarded(s), Fresh(s), s.age < FillTime
      PROVE  Fresh(Older(s))'
  <2>1. CASE marker.left > 1
    <3>1. marker'.gen = marker.gen /\ fenced' = fenced
      BY <2>1 DEF Tick, Inductive, TypeOK, Marker
    <3> QED
      BY <1>2, <1>4, <3>1 DEF Fresh, Older
  <2>2. CASE ~(marker.left > 1)
    <3>1. marker' = NoMarker /\ fenced' = fenced
      BY <2>2 DEF Tick
    <3>2. s.sound => marker.gen = 0
      BY <1>1, <1>2, <1>4, <2>2 DEF Guarded
    <3> QED
      BY <1>1, <1>2, <1>4, <3>1, <3>2 DEF Fresh, NoMarker, Older
  <2> QED
    BY <2>1, <2>2
<1>5. ASSUME NEW r \in Replicas
      PROVE  \/ load[r].pc = "idle" /\ load'[r] = load[r]
             \/ /\ load'[r].pc = load[r].pc
                /\ load'[r].snap = Older(load[r].snap)
                /\ load[r].snap.age < LoadTimeout
  BY DEF Tick, BeforeDeadline, Inductive, TypeOK
<1>6. ASSUME NEW r \in Replicas
      PROVE  /\ Guarded(load[r].snap)'
             /\ load'[r].pc = "set" => Fresh(load[r].snap)'
             /\ load'[r].pc = "generation" => ~load'[r].snap.sound
             /\ load'[r].snap.age <= LoadTimeout
  <2>1. PICK s \in Snapshot : s = load[r].snap
    BY DEF Inductive, TypeOK
  <2>2. CASE load[r].pc = "idle" /\ load'[r] = load[r]
    <3>1. load'[r].snap = NoSnapshot
      BY <2>2 DEF Inductive, TypeOK
    <3> QED
      BY <2>2, <3>1 DEF NoSnapshot, Guarded, Fresh
  <2>3. CASE /\ load'[r].pc = load[r].pc
             /\ load'[r].snap = Older(load[r].snap)
             /\ load[r].snap.age < LoadTimeout
    <3>1. s.age < FillTime /\ s.age < LoadTimeout
      BY <1>2, <2>1, <2>3
    <3>2. Guarded(Older(s))'
      BY <1>3, <2>1, <3>1 DEF Inductive, LoadsGuarded
    <3>3. load[r].pc = "set" => Fresh(Older(s))'
      BY <1>4, <2>1, <3>1 DEF Inductive, LoadsGuarded
    <3>4. load'[r].snap = Older(s)
      BY <2>1, <2>3
    <3>5. /\ load[r].pc = "generation" => ~Older(s).sound
          /\ Older(s).age <= LoadTimeout
      BY <1>2, <2>1, <3>1 DEF Inductive, LoadsGuarded
    <3> QED
      BY <2>3, <3>2, <3>3, <3>4, <3>5 DEF Guarded, Fresh, Older
  <2> QED
    BY <1>5, <2>2, <2>3
<1>7. LoadsGuarded' /\ LoadsAged'
  BY <1>6 DEF LoadsGuarded, LoadsAged
<1>8. ASSUME NEW x \in wire'
      PROVE  Guarded(x)' /\ Fresh(x)' /\ x.age <= FillTime
  <2>1. PICK s \in wire : x = Older(s)
    BY DEF Tick
  <2>2. s \in Snapshot /\ Guarded(s) /\ Fresh(s) /\ s.age < FillTime
    BY DEF Tick, Inductive, TypeOK, SetsGuarded
  <2>3. Guarded(Older(s))' /\ Fresh(Older(s))' /\ Older(s).age <= FillTime
    BY <1>2, <1>3, <1>4, <2>2
  <2> QED
    BY <2>1, <2>3 DEF Guarded, Fresh, Older
<1>9. SetsGuarded'
  BY <1>8 DEF SetsGuarded
<1>10. FenceHolds' /\ (entry'.there => entry'.age + entry'.left <= DataTTL + FillTime)
  <2>1. CASE entry.left > 1
    <3>1. entry' = [entry EXCEPT !.left = @ - 1, !.age = @ + 1]
      BY <2>1 DEF Tick, Expire
    <3>2. entry \in Entry /\ fenced' = fenced
      BY DEF Tick, Inductive, TypeOK
    <3>3. /\ entry'.there = entry.there /\ entry'.sound = entry.sound
          /\ entry'.version = entry.version
          /\ entry'.left = entry.left - 1 /\ entry'.age = entry.age + 1
          /\ entry.left \in Nat /\ entry.age \in Nat
      BY <3>1, <3>2 DEF Entry
    <3> QED
      BY <3>2, <3>3 DEF Inductive, FenceHolds, StalenessBounded
  <2>2. CASE ~(entry.left > 1)
    <3>1. entry' = NoEntry
      BY <2>2 DEF Tick, Expire
    <3> QED
      BY <3>1 DEF FenceHolds, NoEntry
  <2> QED
    BY <2>1, <2>2
<1> QED
  BY <1>7, <1>9, <1>10 DEF StalenessBounded, LoadsAged

-----------------------------------------------------------------------------
(* The inductive invariant holds in every reachable state.  *)
THEOREM InductiveInvariant == Spec => []Inductive
<1>1. Inductive /\ [Next]_vars => Inductive'
  <2> SUFFICES ASSUME Inductive, [Next]_vars PROVE Inductive'
    OBVIOUS
  <2>1. TypeOK'
    BY TypeStep DEF Inductive
  <2>2. LoadsGuarded' /\ SetsGuarded' /\ FenceHolds' /\ StalenessBounded'
    BY OthersKeep, InvalidateKeeps, LoadsKeep, SetsKeep, EvictKeeps, TickKeeps
    DEF Next, LoadStep
  <2> QED
    BY <2>1, <2>2 DEF Inductive
<1> QED
  BY InitHolds, <1>1, PTL DEF Spec

(* Every step of the specification preserves the types of the state.  *)
THEOREM TypeCorrect == Spec => []TypeOK
BY InductiveInvariant, PTL DEF Inductive

(* No replica ever stores a projection older than the last invalidation, if *)
(* its load found no marker, or one that outlives the load, and Redis did   *)
(* not lose the marker since.                                               *)
THEOREM FenceAlwaysHolds == Spec => []FenceHolds
BY InductiveInvariant, PTL DEF Inductive

(* Whatever fails, the cache serves nothing that PostgreSQL last showed     *)
(* more than DataTTL + LoadTimeout + WireDelay ago.                         *)
THEOREM StalenessAlwaysBounded == Spec => []StalenessBounded
BY InductiveInvariant, PTL DEF Inductive

-----------------------------------------------------------------------------
(* Shared loads: nobody waits for a load that does not run.                 *)
WaitersHaveLoad ==
    \A c \in Callers : caller[c] = "wait" => load[ReplicaOf[c]].pc # "idle"

LEMMA WaitersKept ==
    ASSUME TypeOK, WaitersHaveLoad, [Next]_vars
    PROVE  WaitersHaveLoad'
<1>0. /\ load \in [Replicas -> LoadRecord] /\ caller \in [Callers -> CallerSteps]
      /\ \A c \in Callers : ReplicaOf[c] \in Replicas
  BY RoutingAssumption DEF TypeOK, LoadRecord
<1>1. ASSUME \A c \in Callers : caller'[c] = "wait" => caller[c] = "wait",
             \A r \in Replicas : load[r].pc # "idle" => load'[r].pc # "idle"
      PROVE  WaitersHaveLoad'
  BY <1>0, <1>1 DEF WaitersHaveLoad
<1>2. ASSUME NEW r \in Replicas, Finish(r)
      PROVE  WaitersHaveLoad'
  <2>1. \A q \in Replicas \ {r} : load'[q] = load[q]
    BY <1>0, <1>2 DEF Finish
  <2>2. \A c \in Callers : caller'[c] = "wait" => caller[c] = "wait" /\ ReplicaOf[c] # r
    BY <1>0, <1>2 DEF Finish
  <2> QED BY <1>0, <2>1, <2>2 DEF WaitersHaveLoad
<1>3. ASSUME NEW c \in Callers, Join(c)
      PROVE  WaitersHaveLoad'
  <2>1. \A r \in Replicas : load[r].pc # "idle" => load'[r].pc # "idle"
    BY <1>0, <1>3 DEF Join, LoadRecord
  <2>2. load'[ReplicaOf[c]].pc # "idle"
    BY <1>0, <1>3 DEF Join, LoadRecord
  <2>3. \A o \in Callers \ {c} : caller'[o] = caller[o]
    BY <1>0, <1>3 DEF Join
  <2> QED BY <1>0, <2>1, <2>2, <2>3 DEF WaitersHaveLoad
<1>4. ASSUME NEW c \in Callers, Get(c) \/ Drop(c) \/ Cancel(c)
      PROVE  WaitersHaveLoad'
  <2>1. UNCHANGED load
    BY <1>4 DEF Get, Drop, Cancel
  <2>2. \A o \in Callers : caller'[o] = "wait" => caller[o] = "wait"
    BY <1>0, <1>4 DEF Get, Drop, Cancel
  <2> QED BY <1>1, <2>1, <2>2
<1>5. ASSUME NEW r \in Replicas, ReadGeneration(r) \/ ReadGenerationFails(r)
      PROVE  WaitersHaveLoad'
  <2>1. UNCHANGED caller
    BY <1>5 DEF ReadGeneration, ReadGenerationFails
  <2>2. \A q \in Replicas : load[q].pc # "idle" => load'[q].pc # "idle"
    BY <1>0, <1>5 DEF ReadGeneration, ReadGenerationFails, LoadRecord
  <2> QED BY <1>1, <2>1, <2>2
<1>6. ASSUME NEW r \in Replicas, ReadUser(r)
      PROVE  WaitersHaveLoad'
  <2>1. CASE /\ load' = [load EXCEPT ![r].pc = "set", ![r].snap.version = version]
             /\ UNCHANGED caller
    <3>1. \A q \in Replicas : load[q].pc # "idle" => load'[q].pc # "idle"
      BY <1>0, <2>1 DEF LoadRecord
    <3> QED BY <1>1, <2>1, <3>1
  <2> QED BY <1>2, <1>6, <2>1 DEF ReadUser
<1>7. ASSUME NEW r \in Replicas, ReadUserFails(r) \/ SetIfGeneration(r) \/ SetTimesOut(r)
      PROVE  WaitersHaveLoad'
  BY <1>2, <1>7 DEF ReadUserFails, SetIfGeneration, SetTimesOut
<1>8. CASE EvictMarker \/ Tick
  <2>1. UNCHANGED caller
    BY <1>8 DEF EvictMarker, Tick
  <2>2. \A r \in Replicas : load'[r].pc = load[r].pc
    BY <1>0, <1>8 DEF EvictMarker, Tick, LoadRecord
  <2> QED BY <1>1, <2>1, <2>2
<1>9. CASE UNCHANGED <<load, caller>>
  BY <1>1, <1>9
<1> QED
  BY <1>3, <1>4, <1>5, <1>6, <1>7, <1>8, <1>9
  DEF Next, LoadStep, CommitWrite, Invalidate, LateSet, Corrupt, vars

(* A request waits for a shared load only as long as one runs in its        *)
(* replica: DoChan joins the load in flight or starts one, and the end of   *)
(* a load, failed or cancelled, answers all who wait for it.                *)
THEOREM WaitersAlwaysHaveLoad == Spec => []WaitersHaveLoad
<1>1. Init => WaitersHaveLoad
  BY DEF Init, WaitersHaveLoad
<1>2. TypeOK /\ WaitersHaveLoad /\ [Next]_vars => WaitersHaveLoad'
  BY WaitersKept
<1> QED BY <1>1, <1>2, TypeCorrect, PTL DEF Spec

-----------------------------------------------------------------------------
(* The runbook's claim.  A marker is lost alone if, when it expires or is   *)
(* evicted, no load that read a generation and no abandoned SET is around.  *)
FillsInFlight == {r \in Replicas : load[r].fill}
MarkerLostAlone == marker'.gen < marker.gen => FillsInFlight = {} /\ wire = {}

(* Then no generation in flight is one that is yet to come, and what was    *)
(* read under the present one is not behind the last invalidation.          *)
Overtaken(s) ==
    /\ s.gen <= marker.gen
    /\ s.gen = marker.gen => s.version >= fenced

FillsOvertaken ==
    /\ \A r \in Replicas :
          /\ load[r].fill => load[r].snap.gen <= marker.gen
          /\ load[r].pc = "set" => load[r].fill /\ Overtaken(load[r].snap)
          /\ load[r].pc \in {"idle", "generation"} => ~load[r].fill
    /\ \A s \in wire : Overtaken(s)

NeverBehind == FillsOvertaken /\ NeverBehindInvalidation

(* The fills of a state are those of another, with snapshots of the same    *)
(* generation and version                                                   *)
SameFill(l, k) ==
    /\ k.pc = l.pc /\ k.fill = l.fill
    /\ k.snap.gen = l.snap.gen /\ k.snap.version = l.snap.version

LEMMA SameFillsOvertaken ==
    ASSUME FillsOvertaken, UNCHANGED fenced, marker'.gen = marker.gen,
           \A r \in Replicas : SameFill(load[r], load'[r]),
           \A s \in wire' : \E t \in wire : s.gen = t.gen /\ s.version = t.version
    PROVE  FillsOvertaken'
  BY DEF FillsOvertaken, Overtaken, SameFill

(* A load that ends takes its fill with it *)
LEMMA FinishOvertaken ==
    ASSUME TypeOK, FillsOvertaken, NEW r \in Replicas, Finish(r), UNCHANGED <<fenced, marker>>,
           \A s \in wire' : Overtaken(s)
    PROVE  FillsOvertaken'
<1>1. ASSUME NEW q \in Replicas
      PROVE  load'[q] = load[q] \/ (load'[q].pc = "idle" /\ ~load'[q].fill)
  BY DEF Finish, TypeOK
<1> QED BY <1>1 DEF FillsOvertaken, Overtaken

LEMMA StoreNotBehind ==
    ASSUME TypeOK, NeverBehindInvalidation, NEW s \in Snapshot, Overtaken(s), Store(s),
           UNCHANGED fenced
    PROVE  NeverBehindInvalidation'
  BY DEF Store, Overtaken, NeverBehindInvalidation

(* A load goes one step on, the others as they are *)
LEMMA LoadOvertaken ==
    ASSUME TypeOK, FillsOvertaken, NEW r \in Replicas, UNCHANGED <<fenced, marker, wire>>,
           \A q \in Replicas \ {r} : load'[q] = load[q],
           load'[r].fill => load'[r].snap.gen <= marker.gen,
           load'[r].pc = "set" => load'[r].fill /\ Overtaken(load'[r].snap),
           load'[r].pc \in {"idle", "generation"} => ~load'[r].fill
    PROVE  FillsOvertaken'
  BY DEF FillsOvertaken, Overtaken

LEMMA LoadStepOvertaken ==
    ASSUME TypeOK, NeverBehind, NEW r \in Replicas,
           \/ \E c \in Callers : ReplicaOf[c] = r /\ Join(c)
           \/ ReadGeneration(r) \/ ReadGenerationFails(r) \/ ReadUser(r) \/ ReadUserFails(r)
    PROVE  NeverBehind'
<1>0. load \in [Replicas -> LoadRecord] /\ marker.gen \in Nat /\ version >= fenced
  BY DEF TypeOK, LoadRecord, Marker
<1>1. UNCHANGED <<fenced, marker, wire, entry>>
  BY DEF Join, ReadGeneration, ReadGenerationFails, ReadUser, ReadUserFails
<1>2. SUFFICES FillsOvertaken'
  BY <1>1 DEF NeverBehind, NeverBehindInvalidation
<1>3. CASE Finish(r)
  BY <1>1, <1>3, FinishOvertaken DEF NeverBehind, FillsOvertaken
<1>4. CASE \E c \in Callers : ReplicaOf[c] = r /\ Join(c)
  <2>1. \/ load' = load
        \/ load[r].pc = "idle" /\ load' = [load EXCEPT ![r].pc = "generation"]
    BY <1>4 DEF Join
  <2>2. CASE load' = load
    BY <1>1, <2>2 DEF NeverBehind, FillsOvertaken, Overtaken
  <2>3. CASE load[r].pc = "idle" /\ load' = [load EXCEPT ![r].pc = "generation"]
    <3>1. /\ load'[r].pc = "generation" /\ load'[r].fill = load[r].fill
          /\ \A q \in Replicas \ {r} : load'[q] = load[q]
      BY <1>0, <2>3 DEF LoadRecord
    <3>2. ~load[r].fill
      BY <2>3 DEF NeverBehind, FillsOvertaken
    <3> QED BY <1>1, <3>1, <3>2, LoadOvertaken DEF NeverBehind
  <2> QED BY <2>1, <2>2, <2>3
<1>5. CASE ReadGeneration(r)
  <2>1. PICK b : load' = [load EXCEPT ![r].pc = "read", ![r].fill = TRUE,
                                      ![r].snap.gen = marker.gen, ![r].snap.sound = b]
    BY <1>5 DEF ReadGeneration
  <2>2. /\ load'[r].pc = "read" /\ load'[r].snap.gen = marker.gen
        /\ \A q \in Replicas \ {r} : load'[q] = load[q]
    BY <1>0, <2>1 DEF LoadRecord, Snapshot
  <2> QED BY <1>0, <1>1, <2>2, LoadOvertaken DEF NeverBehind
<1>6. CASE ReadGenerationFails(r)
  <2>1. /\ load'[r].pc = "read" /\ load'[r].fill = load[r].fill
        /\ \A q \in Replicas \ {r} : load'[q] = load[q]
    BY <1>0, <1>6 DEF ReadGenerationFails, LoadRecord
  <2>2. ~load[r].fill
    BY <1>6 DEF ReadGenerationFails, NeverBehind, FillsOvertaken
  <2> QED BY <1>1, <2>1, <2>2, LoadOvertaken DEF NeverBehind
<1>7. CASE load[r].fill /\ load' = [load EXCEPT ![r].pc = "set", ![r].snap.version = version]
  <2>1. /\ load'[r].pc = "set" /\ load'[r].fill = load[r].fill
        /\ load'[r].snap.gen = load[r].snap.gen /\ load'[r].snap.version = version
        /\ \A q \in Replicas \ {r} : load'[q] = load[q]
    BY <1>0, <1>7 DEF LoadRecord, Snapshot
  <2>2. load[r].snap.gen <= marker.gen
    BY <1>7 DEF NeverBehind, FillsOvertaken
  <2>3. Overtaken(load'[r].snap)
    BY <1>0, <2>1, <2>2 DEF Overtaken
  <2> QED BY <1>1, <1>7, <2>1, <2>2, <2>3, LoadOvertaken DEF NeverBehind
<1> QED BY <1>3, <1>4, <1>5, <1>6, <1>7 DEF ReadUser, ReadUserFails

LEMMA SetOvertaken ==
    ASSUME TypeOK, NeverBehind,
           \/ \E r \in Replicas : SetIfGeneration(r) \/ SetTimesOut(r)
           \/ \E s \in wire : LateSet(s)
    PROVE  NeverBehind'
<1>0. /\ load \in [Replicas -> LoadRecord] /\ wire \subseteq Snapshot
      /\ UNCHANGED <<fenced, marker>>
  BY DEF TypeOK, LoadRecord, SetIfGeneration, SetTimesOut, LateSet
<1>1. ASSUME NEW r \in Replicas, SetIfGeneration(r) \/ SetTimesOut(r)
      PROVE  NeverBehind'
  <2>1. Overtaken(load[r].snap) /\ load[r].snap \in Snapshot /\ Finish(r)
    BY <1>0, <1>1 DEF SetIfGeneration, SetTimesOut, NeverBehind, FillsOvertaken, LoadRecord
  <2>2. wire' \subseteq wire \union {load[r].snap}
    BY <1>1 DEF SetIfGeneration, SetTimesOut
  <2>3. FillsOvertaken'
    BY <1>0, <2>1, <2>2, FinishOvertaken DEF NeverBehind, FillsOvertaken
  <2>4. NeverBehindInvalidation'
    <3>1. CASE Store(load[r].snap)
      BY <1>0, <2>1, <3>1, StoreNotBehind DEF NeverBehind
    <3>2. CASE UNCHANGED entry
      BY <1>0, <3>2 DEF NeverBehind, NeverBehindInvalidation
    <3> QED BY <1>1, <3>1, <3>2 DEF SetIfGeneration, SetTimesOut
  <2> QED BY <2>3, <2>4 DEF NeverBehind
<1>2. ASSUME NEW s \in wire, LateSet(s)
      PROVE  NeverBehind'
  <2>1. Overtaken(s) /\ s \in Snapshot /\ UNCHANGED load /\ wire' \subseteq wire
    BY <1>0, <1>2 DEF LateSet, NeverBehind, FillsOvertaken
  <2>2. FillsOvertaken'
    BY <1>0, <2>1 DEF NeverBehind, FillsOvertaken, Overtaken
  <2>3. NeverBehindInvalidation'
    <3>1. CASE Store(s)
      BY <1>0, <2>1, <3>1, StoreNotBehind DEF NeverBehind
    <3>2. CASE UNCHANGED entry
      BY <1>0, <3>2 DEF NeverBehind, NeverBehindInvalidation
    <3> QED BY <1>2, <3>1, <3>2 DEF LateSet
  <2> QED BY <2>2, <2>3 DEF NeverBehind
<1> QED BY <1>1, <1>2

(* A marker that is lost alone leaves no fill behind *)
LEMMA LostAloneOvertaken ==
    ASSUME FillsOvertaken, FillsInFlight = {}, wire' = {},
           \A r \in Replicas : load'[r].pc = load[r].pc /\ load'[r].fill = load[r].fill
    PROVE  FillsOvertaken'
  BY DEF FillsOvertaken, FillsInFlight

LEMMA MarkerOvertaken ==
    ASSUME TypeOK, NeverBehind, MarkerLostAlone, EvictMarker \/ Tick \/ Invalidate
    PROVE  NeverBehind'
<1>0. /\ load \in [Replicas -> LoadRecord] /\ wire \subseteq Snapshot
      /\ marker \in Marker /\ marker.gen \in Nat
      /\ NoMarker.gen = 0 /\ ~NoEntry.there
  BY EmptyRecords DEF TypeOK, LoadRecord, Marker
<1>1. CASE EvictMarker
  <2>1. marker'.gen < marker.gen /\ UNCHANGED <<fenced, entry>>
    BY <1>0, <1>1 DEF EvictMarker
  <2>2. FillsInFlight = {} /\ wire = {}
    BY <2>1 DEF MarkerLostAlone
  <2>3. wire' = {}
    BY <1>1, <2>2 DEF EvictMarker
  <2>4. \A r \in Replicas : load'[r].pc = load[r].pc /\ load'[r].fill = load[r].fill
    BY <1>0, <1>1 DEF EvictMarker, LoadRecord
  <2>5. FillsOvertaken'
    BY <2>2, <2>3, <2>4, LostAloneOvertaken DEF NeverBehind
  <2> QED BY <2>1, <2>5 DEF NeverBehind, NeverBehindInvalidation
<1>2. CASE Tick
  <2>1. UNCHANGED fenced /\ entry' = Expire(entry) /\ wire' = {Older(s) : s \in wire}
    BY <1>2 DEF Tick
  <2>2. \A s \in Snapshot : Older(s).gen = s.gen /\ Older(s).version = s.version
    BY DEF Older, Snapshot
  <2>3. \A r \in Replicas : SameFill(load[r], load'[r])
    <3>1. ASSUME NEW r \in Replicas
          PROVE  SameFill(load[r], load'[r])
      <4>1. load'[r] = load[r] \/ load'[r] = [load[r] EXCEPT !.snap = Older(load[r].snap)]
        BY <1>2 DEF Tick
      <4>2. load[r] \in LoadRecord /\ load[r].snap \in Snapshot
        BY <1>0 DEF LoadRecord
      <4> QED BY <2>2, <4>1, <4>2 DEF SameFill, LoadRecord
    <3> QED BY <3>1
  <2>4. \A s \in wire' : \E t \in wire : s.gen = t.gen /\ s.version = t.version
    BY <1>0, <2>1, <2>2
  <2>5. FillsOvertaken'
    <3>1. marker'.gen = marker.gen \/ marker'.gen < marker.gen
      BY <1>0, <1>2 DEF Tick, Marker
    <3>2. CASE marker'.gen = marker.gen
      BY <2>1, <2>3, <2>4, <3>2, SameFillsOvertaken DEF NeverBehind
    <3>3. CASE marker'.gen < marker.gen
      <4>1. FillsInFlight = {} /\ wire = {}
        BY <3>3 DEF MarkerLostAlone
      <4> QED BY <2>1, <2>3, <4>1, LostAloneOvertaken DEF NeverBehind, SameFill
    <3> QED BY <3>1, <3>2, <3>3
  <2>6. entry'.there => entry.there /\ entry'.version = entry.version
    BY <1>0, <2>1 DEF Expire, TypeOK, Entry
  <2>7. NeverBehindInvalidation'
    BY <2>1, <2>6 DEF NeverBehind, NeverBehindInvalidation
  <2> QED BY <2>5, <2>7 DEF NeverBehind
<1>3. CASE Invalidate
  <2>1. /\ marker'.gen = marker.gen + 1 /\ entry' = NoEntry /\ UNCHANGED <<load, wire>>
    BY <1>3 DEF Invalidate, RunInvalidation
  <2>2. \A s \in Snapshot : s.gen <= marker.gen => s.gen <= marker'.gen /\ s.gen # marker'.gen
    BY <1>0, <2>1 DEF Snapshot
  <2>3. FillsOvertaken'
    BY <1>0, <2>1, <2>2 DEF NeverBehind, FillsOvertaken, Overtaken, LoadRecord
  <2> QED BY <1>0, <2>1, <2>3 DEF NeverBehind, NeverBehindInvalidation
<1> QED BY <1>1, <1>2, <1>3

LEMMA OthersOvertaken ==
    ASSUME TypeOK, NeverBehind,
           \/ CommitWrite
           \/ \E c \in Callers : Get(c) \/ Drop(c) \/ Cancel(c)
           \/ Corrupt
           \/ UNCHANGED vars
    PROVE  NeverBehind'
<1>1. UNCHANGED <<fenced, marker, load, wire>>
  BY DEF CommitWrite, Get, Drop, Cancel, Corrupt, vars
<1>2. entry' = entry \/ entry' = NoEntry \/ entry' = [entry EXCEPT !.valid = FALSE]
  BY DEF CommitWrite, Get, Drop, Cancel, Corrupt, vars
<1>3. entry'.there => entry.there /\ entry'.version = entry.version
  BY <1>2, EmptyRecords DEF TypeOK, Entry
<1> QED
  BY <1>1, <1>3 DEF NeverBehind, FillsOvertaken, Overtaken, NeverBehindInvalidation

(* The runbook's claim that no read older than an invalidation repopulates  *)
(* the cache, under the one condition that the generation scheme needs and  *)
(* the code does not enforce: the marker neither expires nor is evicted     *)
(* while a load that read it, or a SET of one, is still around.             *)
THEOREM NeverBehindWhenMarkersLast ==
    Spec /\ [][MarkerLostAlone]_vars => []NeverBehindInvalidation
<1>1. Init => NeverBehind
  BY DEF Init, NeverBehind, FillsOvertaken, NeverBehindInvalidation, NoEntry
<1>2. ASSUME TypeOK, NeverBehind, [Next]_vars, [MarkerLostAlone]_vars
      PROVE  NeverBehind'
  <2>1. ASSUME NEW c \in Callers, Join(c)
        PROVE  NeverBehind'
    <3>1. ReplicaOf[c] \in Replicas
      BY RoutingAssumption
    <3> QED BY <1>2, <2>1, <3>1, LoadStepOvertaken
  <2>2. CASE EvictMarker \/ Tick \/ Invalidate
    <3>1. MarkerLostAlone \/ UNCHANGED vars
      BY <1>2
    <3> QED BY <1>2, <2>2, <3>1, MarkerOvertaken, OthersOvertaken
  <2> QED
    BY <1>2, <2>1, <2>2, LoadStepOvertaken, SetOvertaken, OthersOvertaken DEF Next, LoadStep
<1>3. NeverBehind => NeverBehindInvalidation
  BY DEF NeverBehind
<1> QED BY <1>1, <1>2, <1>3, TypeCorrect, PTL DEF Spec
=============================================================================
