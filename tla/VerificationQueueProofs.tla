----------------------- MODULE VerificationQueueProofs -----------------------
(* What VerificationQueue guarantees for any number of organizations,      *)
(* events, transactions and walks, any page sizes and any clocks.           *)
EXTENDS VerificationQueue, FiniteSetTheorems, TLAPS

-----------------------------------------------------------------------------
(* Keys                                                                     *)

LEMMA KeyOrder ==
    \A k, l, n \in Keys :
        /\ ~Precedes(k, k)
        /\ Precedes(k, l) => ~Precedes(l, k)
        /\ Precedes(k, l) /\ Precedes(l, n) => Precedes(k, n)
        /\ ~Precedes(k, l) => k = l \/ Precedes(l, k)
        /\ ~Precedes(l, k) /\ ~Precedes(n, l) => ~Precedes(n, k)
BY DEF Keys, Precedes

(* The rows of a page are those up to its last one.                         *)
LEMMA PageEndsAtLast ==
    ASSUME NEW K, K \subseteq Keys, IsFiniteSet(K), NEW limit \in Nat,
           NEW last \in LastOfPage(K, limit), NEW k \in K
    PROVE  /\ last \in K
           /\ k \in Page(K, limit) <=> ~Precedes(last, k)
<1> DEFINE UpTo(n) == {l \in K : ~Precedes(n, l)}
<1>1. last \in K /\ Cardinality(UpTo(last)) = limit
  BY DEF LastOfPage, RowNumber
<1>2. UpTo(k) \subseteq K /\ UpTo(last) \subseteq K
  OBVIOUS
<1>3. /\ IsFiniteSet(UpTo(k)) /\ Cardinality(UpTo(k)) \in Nat
      /\ IsFiniteSet(UpTo(last)) /\ Cardinality(UpTo(last)) \in Nat
  BY <1>2, FS_Subset, FS_CardinalityType
<1>4. k \in Page(K, limit) <=> Cardinality(UpTo(k)) <= limit
  BY DEF Page, RowNumber
<1>5. CASE ~Precedes(last, k)
  <2>1. UpTo(k) \subseteq UpTo(last)
    BY <1>1, <1>5, KeyOrder
  <2>2. Cardinality(UpTo(k)) <= Cardinality(UpTo(last))
    BY <2>1, <1>3, FS_Subset
  <2> QED
    BY <1>1, <1>4, <1>5, <2>2
<1>6. CASE Precedes(last, k)
  <2>1. UpTo(last) \subseteq UpTo(k)
    BY <1>1, <1>6, KeyOrder
  <2>2. k \in UpTo(k) /\ k \notin UpTo(last)
    BY <1>6, KeyOrder
  <2>3. Cardinality(UpTo(last)) <= Cardinality(UpTo(k))
    BY <2>1, <1>3, FS_Subset
  <2>4. Cardinality(UpTo(last)) # Cardinality(UpTo(k))
    BY <2>1, <2>2, <1>3, FS_Subset
  <2> QED
    BY <1>1, <1>3, <1>4, <1>6, <2>3, <2>4
<1> QED
  BY <1>1, <1>5, <1>6

(* A page that need not be cut has every row.                               *)
LEMMA LastPageIsWhole ==
    ASSUME NEW K, IsFiniteSet(K), NEW limit \in Nat, Cardinality(K) <= limit
    PROVE  Page(K, limit) = K
<1> SUFFICES ASSUME NEW k \in K PROVE k \in Page(K, limit)
  BY DEF Page
<1> DEFINE UpTo == {l \in K : ~Precedes(k, l)}
<1>1. UpTo \subseteq K
  OBVIOUS
<1>2. Cardinality(UpTo) <= Cardinality(K) /\ Cardinality(UpTo) \in Nat
  BY <1>1, FS_Subset, FS_CardinalityType
<1>3. Cardinality(K) \in Nat
  BY FS_CardinalityType
<1> QED
  BY <1>2, <1>3 DEF Page, RowNumber

(* No page has more rows than its limit.                                    *)
LEMMA PageIsBounded ==
    ASSUME NEW K, K \subseteq Keys, IsFiniteSet(K), NEW limit \in Nat,
           NEW last \in LastOfPage(K, limit)
    PROVE  Cardinality(Page(K, limit)) <= limit
<1> DEFINE UpTo == {l \in K : ~Precedes(last, l)}
<1>1. Page(K, limit) = UpTo
  BY PageEndsAtLast DEF Page
<1>2. Cardinality(UpTo) = limit
  BY DEF LastOfPage, RowNumber
<1> QED
  BY <1>1, <1>2

-----------------------------------------------------------------------------
(* The rows of the listings are finitely many keys                          *)

LEMMA PairsAreKeys ==
    ASSUME NEW T, T \subseteq Int, NEW I, I \subseteq Int
    PROVE  T \X I \subseteq Keys
BY DEF Keys

Stored == TypeOK /\ IsFiniteSet(trail)

LEMMA TimesFinite ==
    ASSUME Stored
    PROVE  IsFiniteSet({e.at : e \in trail})
<1> DEFINE T == {e.at : e \in trail}
           f == [e \in trail |-> e.at]
<1>1. f \in Surjection(trail, T)
  BY DEF Surjection
<1> QED
  BY <1>1, FS_Surjection DEF Stored

LEMMA RowsAreKeys ==
    ASSUME Stored, NEW listing \in Listings
    PROVE  Rows(listing) \subseteq Keys /\ IsFiniteSet(Rows(listing))
<1> USE ListingAssumption DEF ListingAssumption
<1>1. Queue \subseteq Keys /\ IsFiniteSet(Queue)
  <2> DEFINE U == {updated[o] : o \in Organizations}
             T == {e.at : e \in trail}
             g == [o \in Organizations |-> updated[o]]
  <2>1. g \in Surjection(Organizations, U)
    BY DEF Surjection
  <2>2. IsFiniteSet(U)
    BY <2>1, FS_Surjection
  <2>3. IsFiniteSet(U \union T)
    BY <2>2, TimesFinite, FS_Union
  <2>4. IsFiniteSet((U \union T) \X Organizations)
    BY <2>3, FS_Product
  <2>5. \A o \in Organizations : RequestedAt(o) \subseteq U \union T
    BY DEF RequestedAt, RequestsOf, EventOf
  <2>6. Queue \subseteq (U \union T) \X Organizations
    <3> SUFFICES ASSUME NEW o \in Pending, NEW t \in RequestedAt(o)
                 PROVE  <<t, o>> \in (U \union T) \X Organizations
      BY DEF Queue
    <3>1. o \in Organizations
      BY DEF Pending
    <3> QED
      BY <2>5, <3>1
  <2>7. U \union T \subseteq Int
    BY DEF Stored, TypeOK, Event
  <2>8. Queue \subseteq Keys
    <3>1. Organizations \subseteq Int
      OBVIOUS
    <3>2. (U \union T) \X Organizations \subseteq Keys
      BY <2>7, <3>1, PairsAreKeys
    <3> QED
      BY <2>6, <3>2
  <2> QED
    BY <2>4, <2>6, <2>8, FS_Subset
<1>2. \A o \in Organizations : Trail(o) \subseteq Keys /\ IsFiniteSet(Trail(o))
  <2> SUFFICES ASSUME NEW o \in Organizations
               PROVE  Trail(o) \subseteq Keys /\ IsFiniteSet(Trail(o))
    OBVIOUS
  <2> DEFINE h == [e \in EventOf(o) |-> <<-e.at, -e.id>>]
  <2>1. IsFiniteSet(EventOf(o))
    <3>1. EventOf(o) \subseteq trail
      BY DEF EventOf
    <3> QED
      BY <3>1, FS_Subset DEF Stored
  <2>2. h \in Surjection(EventOf(o), Trail(o))
    BY DEF Surjection, Trail
  <2>3. Trail(o) \subseteq Keys
    BY DEF Trail, EventOf, Keys, Stored, TypeOK, Event
  <2> QED
    BY <2>1, <2>2, <2>3, FS_Surjection
<1> QED
  BY <1>1, <1>2 DEF Rows, Listings

LEMMA RemainingIsFinite ==
    ASSUME Stored, NEW w \in Walks
    PROVE  /\ Remaining(w) \subseteq Rows(walk[w].listing)
           /\ Remaining(w) \subseteq Keys
           /\ IsFiniteSet(Remaining(w))
<1>1. walk[w].listing \in Listings
  BY DEF Stored, TypeOK, Walk
<1>2. Remaining(w) \subseteq Rows(walk[w].listing)
  BY DEF Remaining, Beyond
<1> QED
  BY <1>1, <1>2, RowsAreKeys, FS_Subset

-----------------------------------------------------------------------------
(* The inductive invariant                                                  *)

(* what a walk has listed is not beyond its cursor *)
ListedBehindCursor ==
    \A w \in Walks : walk[w].at = "open" =>
        /\ walk[w].cursor = <<>> => Listed(w) = {}
        /\ walk[w].cursor # <<>> =>
              \A k \in Listed(w) : ~Precedes(walk[w].cursor, k)

(* what is due is still there, and listed or ahead *)
DueIsListedOrAhead ==
    \A d \in due :
        /\ d[2] \in Rows(walk[d[1]].listing)
        /\ walk[d[1]].at = "open" =>
              d[2] \in Listed(d[1]) \/ d[2] \in Remaining(d[1])

(* no clock is ahead of the true time by more than Skew *)
StampsWithinSkew ==
    /\ \A s \in Sessions : tx[s] # Idle => tx[s].at <= now + Skew
    /\ \A o \in Organizations :
          since[o] <= now /\ \A e \in RequestsOf(o) : e.at <= since[o] + Skew

IInv == /\ Stored
        /\ ListedBehindCursor /\ DueIsListedOrAhead
        /\ WalkComplete /\ PagesInOrder
        /\ StampsWithinSkew

-----------------------------------------------------------------------------
USE ListingAssumption DEF ListingAssumption

(* A step that leaves the walks alone and keeps of what is due only what is *)
(* still there preserves everything about walks.                            *)
LEMMA WritersKeepWalks ==
    ASSUME IInv, walk' = walk, StillDue
    PROVE  /\ (due \subseteq Walks \X Keys)'
           /\ ListedBehindCursor' /\ DueIsListedOrAhead'
           /\ WalkComplete' /\ PagesInOrder'
<1>1. due' \subseteq due
  BY DEF StillDue
<1>2. \A d \in due' : d[2] \in Rows(walk[d[1]].listing)'
  BY DEF StillDue
<1>3. \A w : Listed(w)' = Listed(w)
  BY DEF Listed
<1>4. due \subseteq Walks \X Keys
  BY DEF IInv, Stored, TypeOK
<1>5. ListedBehindCursor' /\ PagesInOrder'
  BY <1>3 DEF IInv, ListedBehindCursor, PagesInOrder
<1>6. WalkComplete'
  BY <1>1, <1>3 DEF IInv, WalkComplete
<1>7. DueIsListedOrAhead'
  <2> SUFFICES ASSUME NEW d \in due'
               PROVE  /\ d[2] \in Rows(walk[d[1]].listing)'
                      /\ walk'[d[1]].at = "open" =>
                            d[2] \in Listed(d[1])' \/ d[2] \in Remaining(d[1])'
    BY DEF DueIsListedOrAhead
  <2>1. d[2] \in Rows(walk[d[1]].listing)'
    BY <1>2
  <2>2. walk[d[1]].at = "open" => d[2] \in Listed(d[1]) \/ d[2] \in Remaining(d[1])
    BY <1>1 DEF IInv, DueIsListedOrAhead
  <2>3. d[2] \in Remaining(d[1]) => d[2] \in Remaining(d[1])'
    BY <2>1 DEF Remaining, Beyond
  <2> QED
    BY <1>3, <2>1, <2>2, <2>3
<1> QED
  BY <1>1, <1>4, <1>5, <1>6, <1>7

(* what a writer keeps besides the walks *)
Tables == /\ now \in 0..MaxTime
          /\ status \in [Organizations -> {"idle", "pending", "closed"}]
          /\ updated \in [Organizations -> 0..MaxTime]
          /\ trail \subseteq Event /\ IsFiniteSet(trail)
          /\ tx \in [Sessions -> Event \union {Idle}]
          /\ since \in [Organizations -> 0..MaxTime]

LEMMA WriterStep ==
    ASSUME IInv, walk' = walk, StillDue, Tables', StampsWithinSkew'
    PROVE  IInv'
<1>1. /\ walk' \in [Walks -> Walk]
      /\ \A w \in Walks : Cardinality(walk'[w].page) <= MaxLimit
  BY DEF IInv, Stored, TypeOK
<1>2. Stored'
  BY <1>1, WritersKeepWalks DEF Stored, TypeOK, Tables
<1> QED
  BY <1>2, WritersKeepWalks DEF IInv

(* Steps that change no row leave every row due.                            *)
LEMMA RowsUnchanged ==
    ASSUME IInv, UNCHANGED <<status, updated, trail, walk, due>>
    PROVE  StillDue
<1>1. \A listing : Rows(listing)' = Rows(listing)
  BY DEF Rows, Queue, Pending, RequestedAt, RequestsOf, EventOf, Trail
<1> QED
  BY <1>1 DEF StillDue, IInv, DueIsListedOrAhead

LEMMA MakeEventKeeps ==
    ASSUME IInv, NEW s \in Sessions, NEW o \in Organizations, NEW type \in Types,
           MakeEvent(s, o, type)
    PROVE  IInv'
<1>1. PICK at \in (now - Skew)..(now + Skew), id \in NextId(s) :
         tx' = [tx EXCEPT ![s] = [org |-> o, type |-> type, at |-> at, id |-> id]]
  BY DEF MakeEvent
<1>2. now \in Int /\ at \in Int /\ at <= now + Skew
  BY DEF IInv, Stored, TypeOK
<1>3. id \in Nat
  BY DEF NextId
<1>4. [org |-> o, type |-> type, at |-> at, id |-> id] \in Event
  BY <1>2, <1>3 DEF Event
<1>5. Tables'
  BY <1>1, <1>4 DEF MakeEvent, Tables, IInv, Stored, TypeOK
<1>6. StampsWithinSkew'
  <2>1. \A p : RequestsOf(p)' = RequestsOf(p)
    BY DEF MakeEvent, RequestsOf, EventOf
  <2>2. \A r \in Sessions : tx'[r] # Idle => tx'[r].at <= now + Skew
    BY <1>1, <1>2 DEF IInv, StampsWithinSkew, Stored, TypeOK
  <2> QED
    BY <2>1, <2>2 DEF IInv, StampsWithinSkew, MakeEvent
<1>7. StillDue
  BY RowsUnchanged DEF MakeEvent
<1> QED
  BY <1>5, <1>6, <1>7, WriterStep DEF MakeEvent

LEMMA CommitKeeps ==
    ASSUME IInv, NEW s \in Sessions, Commit(s)
    PROVE  IInv'
<1> DEFINE e == tx[s]
<1>1. e \in Event /\ e.at \in Int /\ e.at <= now + Skew /\ e.org \in Organizations
  BY DEF Commit, IInv, Stored, TypeOK, StampsWithinSkew, Event
<1>2. trail' = trail \union {e}
  BY DEF Commit
<1>3. IsFiniteSet(trail')
  BY <1>2, FS_AddElement DEF IInv, Stored
<1>4. PICK new \in StatusesAfter(e.type, status[e.org]) :
         status' = [status EXCEPT ![e.org] = new]
  BY DEF Commit
<1>5. new \in {"idle", "pending", "closed"}
  BY <1>1 DEF StatusesAfter, IInv, Stored, TypeOK
<1>6. since' = [since EXCEPT ![e.org] = IF e.type = "requested" THEN now ELSE @]
  BY DEF Commit
<1>7. Tables'
  <2>1. status' \in [Organizations -> {"idle", "pending", "closed"}]
    BY <1>4, <1>5 DEF IInv, Stored, TypeOK
  <2>2. trail' \subseteq Event
    BY <1>1, <1>2 DEF IInv, Stored, TypeOK
  <2>3. tx' \in [Sessions -> Event \union {Idle}]
    BY DEF Commit, IInv, Stored, TypeOK
  <2>4. since' \in [Organizations -> 0..MaxTime]
    BY <1>1, <1>6 DEF IInv, Stored, TypeOK
  <2>5. now' \in 0..MaxTime /\ updated' \in [Organizations -> 0..MaxTime]
    BY DEF Commit, IInv, Stored, TypeOK
  <2> QED
    BY <1>3, <2>1, <2>2, <2>3, <2>4, <2>5 DEF Tables
<1>8. StampsWithinSkew'
  <2>1. \A r \in Sessions : tx'[r] # Idle => tx'[r].at <= now' + Skew
    BY DEF Commit, IInv, StampsWithinSkew, Stored, TypeOK
  <2>2. ASSUME NEW o \in Organizations
        PROVE  since'[o] <= now' /\ since[o] <= since'[o]
    BY <1>6 DEF Commit, IInv, StampsWithinSkew, Stored, TypeOK
  <2>3. ASSUME NEW o \in Organizations, NEW f \in RequestsOf(o)'
        PROVE  f.at <= since'[o] + Skew
    <3>1. CASE f \in trail
      <4>1. f \in RequestsOf(o)
        BY <3>1, <2>3 DEF RequestsOf, EventOf
      <4>2. f.at <= since[o] + Skew
        BY <4>1 DEF IInv, StampsWithinSkew
      <4>3. since[o] \in 0..MaxTime /\ since'[o] \in 0..MaxTime
        BY <1>7 DEF IInv, Stored, TypeOK, Tables
      <4>4. since[o] \in Int /\ since'[o] \in Int
        BY <4>3
      <4>5. f.at \in Int
        BY <3>1 DEF IInv, Stored, TypeOK, Event
      <4> QED
        BY <4>2, <4>4, <4>5, <2>2
    <3>2. CASE f = e
      <4>1. f.type = "requested" /\ f.org = o
        BY <2>3 DEF RequestsOf, EventOf
      <4>2. since'[o] = now
        BY <4>1, <3>2, <1>6 DEF IInv, Stored, TypeOK
      <4> QED
        BY <4>2, <3>2, <1>1
    <3> QED
      BY <2>3, <3>1, <3>2, <1>2 DEF RequestsOf, EventOf
  <2> QED
    BY <2>1, <2>2, <2>3 DEF StampsWithinSkew
<1> QED
  BY <1>7, <1>8, WriterStep DEF Commit

LEMMA OtherWritersKeep ==
    ASSUME IInv,
           \/ \E s \in Sessions : Abort(s)
           \/ \E o \in Organizations : Touch(o) \/ Delete(o)
           \/ Tick
    PROVE  IInv'
<1>1. ASSUME NEW s \in Sessions, Abort(s) PROVE IInv'
  <2>1. Tables'
    BY <1>1 DEF Abort, Tables, IInv, Stored, TypeOK
  <2>2. StampsWithinSkew'
    BY <1>1 DEF Abort, StampsWithinSkew, RequestsOf, EventOf, IInv, Stored, TypeOK
  <2> QED
    BY <1>1, <2>1, <2>2, RowsUnchanged, WriterStep DEF Abort
<1>2. ASSUME NEW o \in Organizations, Touch(o) PROVE IInv'
  <2>1. PICK t \in 0..now : updated' = [updated EXCEPT ![o] = t]
    BY <1>2 DEF Touch
  <2>2. t \in 0..MaxTime
    BY DEF IInv, Stored, TypeOK
  <2>3. Tables'
    BY <1>2, <2>1, <2>2 DEF Touch, Tables, IInv, Stored, TypeOK
  <2>4. StampsWithinSkew'
    BY <1>2 DEF Touch, StampsWithinSkew, RequestsOf, EventOf, IInv
  <2> QED
    BY <1>2, <2>3, <2>4, WriterStep DEF Touch
<1>3. ASSUME NEW o \in Organizations, Delete(o) PROVE IInv'
  <2>1. Tables'
    BY <1>3 DEF Delete, Tables, IInv, Stored, TypeOK
  <2>2. StampsWithinSkew'
    BY <1>3 DEF Delete, StampsWithinSkew, RequestsOf, EventOf, IInv
  <2> QED
    BY <1>3, <2>1, <2>2, WriterStep DEF Delete
<1>4. ASSUME Tick PROVE IInv'
  <2>1. Tables'
    BY <1>4 DEF Tick, Tables, IInv, Stored, TypeOK
  <2>2. now \in Int /\ now' = now + 1 /\ now <= now'
    BY <1>4 DEF Tick, IInv, Stored, TypeOK
  <2>3. \A s \in Sessions : tx[s] # Idle => tx[s].at \in Int
    BY DEF IInv, Stored, TypeOK, Event
  <2>4. \A s \in Sessions : tx'[s] # Idle => tx'[s].at <= now' + Skew
    BY <1>4, <2>2, <2>3 DEF Tick, IInv, StampsWithinSkew
  <2>5. \A o \in Organizations : since[o] \in Int
    BY DEF IInv, Stored, TypeOK
  <2>6. \A o : RequestsOf(o)' = RequestsOf(o)
    BY <1>4 DEF Tick, RequestsOf, EventOf
  <2>7. StampsWithinSkew'
    BY <1>4, <2>2, <2>4, <2>5, <2>6 DEF Tick, StampsWithinSkew, IInv
  <2> QED
    BY <1>4, <2>1, <2>7, RowsUnchanged, WriterStep DEF Tick
<1> QED
  BY <1>1, <1>2, <1>3, <1>4

-----------------------------------------------------------------------------
(* The walks                                                                *)

LEMMA RowsKept ==
    ASSUME UNCHANGED <<status, updated, trail>>
    PROVE  \A listing : Rows(listing)' = Rows(listing)
BY DEF Rows, Queue, Pending, RequestedAt, RequestsOf, EventOf, Trail

LEMMA StampsKept ==
    ASSUME IInv, UNCHANGED <<now, trail, tx, since>>
    PROVE  StampsWithinSkew'
BY DEF IInv, StampsWithinSkew, RequestsOf, EventOf

(* One walk moves on: what has to be shown of it for the invariant.         *)
LEMMA WalkStep ==
    ASSUME IInv, NEW w \in Walks, NEW r \in Walk,
           UNCHANGED <<now, status, updated, trail, tx, since>>,
           walk' = [walk EXCEPT ![w] = r],
           Cardinality(r.page) <= MaxLimit,
           r.at = "open" =>
              /\ r.cursor = <<>> => r.earlier \union r.page = {}
              /\ r.cursor # <<>> =>
                    \A k \in r.earlier \union r.page : ~Precedes(r.cursor, k),
           \A k \in r.earlier, l \in r.page : Precedes(k, l),
           due' \subseteq Walks \X Keys,
           \A d \in due' : d[1] # w => d \in due,
           \A d \in due' : d[1] = w =>
              /\ d[2] \in Rows(r.listing)
              /\ r.at = "open" => \/ d[2] \in r.earlier \union r.page
                                  \/ d[2] \in Beyond(Rows(r.listing), r.cursor)
              /\ r.at = "done" => d[2] \in r.earlier \union r.page
    PROVE  IInv'
<1>1. /\ walk' \in [Walks -> Walk] /\ walk'[w] = r
      /\ \A v \in Walks \ {w} : walk'[v] = walk[v]
  BY DEF IInv, Stored, TypeOK
<1>2. Stored'
  BY <1>1 DEF IInv, Stored, TypeOK, Event
<1>3. \A listing : Rows(listing)' = Rows(listing)
  BY RowsKept
<1>4. ListedBehindCursor'
  BY <1>1 DEF IInv, ListedBehindCursor, Listed
<1>5. PagesInOrder'
  BY <1>1 DEF IInv, PagesInOrder
<1>6. ASSUME NEW d \in due', d[1] = w
      PROVE  /\ d[2] \in Rows(walk[d[1]].listing)'
             /\ walk'[d[1]].at = "open" =>
                   d[2] \in Listed(d[1])' \/ d[2] \in Remaining(d[1])'
             /\ walk'[d[1]].at = "done" => d[2] \in Listed(d[1])'
  <2>1. Rows(walk[w].listing)' = Rows(r.listing)
    BY <1>1, <1>3
  <2>2. Remaining(w)' = Beyond(Rows(r.listing), r.cursor)
    BY <2>1, <1>1 DEF Remaining, Beyond
  <2>3. Listed(w)' = r.earlier \union r.page
    BY <1>1 DEF Listed
  <2> QED
    BY <1>6, <1>1, <2>1, <2>2, <2>3
<1>7. ASSUME NEW d \in due', d[1] # w
      PROVE  /\ d[2] \in Rows(walk[d[1]].listing)'
             /\ walk'[d[1]].at = "open" =>
                   d[2] \in Listed(d[1])' \/ d[2] \in Remaining(d[1])'
             /\ walk'[d[1]].at = "done" => d[2] \in Listed(d[1])'
  <2>1. d \in due /\ d[1] \in Walks \ {w}
    BY <1>7
  <2>2. walk'[d[1]] = walk[d[1]]
    BY <1>1, <2>1
  <2>3. Rows(walk[d[1]].listing)' = Rows(walk[d[1]].listing)
    BY <1>3, <2>2
  <2>4. Listed(d[1])' = Listed(d[1]) /\ Remaining(d[1])' = Remaining(d[1])
    BY <2>2, <2>3 DEF Listed, Remaining, Beyond
  <2> QED
    BY <2>1, <2>2, <2>3, <2>4 DEF IInv, DueIsListedOrAhead, WalkComplete
<1>8. DueIsListedOrAhead' /\ WalkComplete'
  BY <1>6, <1>7 DEF DueIsListedOrAhead, WalkComplete
<1> QED
  BY <1>2, <1>4, <1>5, <1>8, StampsKept DEF IInv

LEMMA StartWalkKeeps ==
    ASSUME IInv, NEW w \in Walks, NEW listing \in Listings, StartWalk(w, listing)
    PROVE  IInv'
<1> DEFINE r == [NotStarted EXCEPT !.at = "open", !.listing = listing]
<1>1. r \in Walk /\ r.at = "open" /\ r.listing = listing /\ r.cursor = <<>>
      /\ r.earlier = {} /\ r.page = {}
  BY DEF NotStarted, Walk
<1>2. Rows(listing) \subseteq Keys
  BY RowsAreKeys DEF IInv
<1>3. due' = {d \in due : d[1] # w} \union {<<w, k>> : k \in Rows(listing)}
  BY DEF StartWalk
<1>4. due' \subseteq Walks \X Keys
  BY <1>2, <1>3 DEF IInv, Stored, TypeOK
<1>5. \A d \in due' : d[1] # w => d \in due
  BY <1>3
<1>6. \A d \in due' : d[1] = w => d[2] \in Rows(listing)
  BY <1>3
<1>7. Beyond(Rows(listing), <<>>) = Rows(listing)
  BY DEF Beyond
<1>8. Cardinality(r.page) <= MaxLimit
  <2>1. Cardinality(r.page) = 0
    BY <1>1, FS_EmptySet
  <2> QED
    BY <2>1
<1>9. UNCHANGED <<now, status, updated, trail, tx, since>> /\ walk' = [walk EXCEPT ![w] = r]
  BY DEF StartWalk
<1> HIDE DEF r
<1>10. /\ r.cursor = <<>> => r.earlier \union r.page = {}
       /\ r.cursor # <<>> =>
             \A k \in r.earlier \union r.page : ~Precedes(r.cursor, k)
  BY <1>1
<1>11. \A k \in r.earlier, l \in r.page : Precedes(k, l)
  BY <1>1
<1>12. \A d \in due' : d[1] = w =>
          /\ d[2] \in Rows(r.listing)
          /\ d[2] \in Beyond(Rows(r.listing), r.cursor)
  BY <1>1, <1>6, <1>7
<1>13. r \in Walk /\ r.at # "done"
  BY <1>1
<1> QED
  BY <1>4, <1>5, <1>8, <1>9, <1>10, <1>11, <1>12, <1>13, WalkStep

LEMMA ReadPageKeeps ==
    ASSUME IInv, NEW w \in Walks, NEW limit \in 1..MaxLimit, ReadPage(w, limit)
    PROVE  IInv'
<1> DEFINE R == Remaining(w)
           old == walk[w]
<1>1. PICK last \in LastOfPage(R, limit) :
         walk' = [walk EXCEPT ![w] =
                    [listing |-> walk[w].listing, at |-> "open", cursor |-> last,
                     earlier |-> walk[w].earlier \union walk[w].page,
                     page |-> Page(R, limit)]]
  BY DEF ReadPage
<1> DEFINE r == [listing |-> walk[w].listing, at |-> "open", cursor |-> last,
                 earlier |-> walk[w].earlier \union walk[w].page,
                 page |-> Page(R, limit)]
<1>2. /\ R \subseteq Keys /\ IsFiniteSet(R) /\ R \subseteq Rows(old.listing)
  BY RemainingIsFinite DEF IInv
<1>3. /\ old \in Walk /\ old.at = "open" /\ limit \in Nat /\ limit <= MaxLimit
  BY DEF ReadPage, IInv, Stored, TypeOK
<1>4. last \in R /\ last \in Keys /\ Page(R, limit) \subseteq R
  BY <1>1, <1>2, <1>3, PageEndsAtLast DEF Page, LastOfPage
<1>5. \A k \in R : k \in Page(R, limit) <=> ~Precedes(last, k)
  BY <1>1, <1>2, <1>3, PageEndsAtLast
<1>6. r \in Walk
  BY <1>2, <1>3, <1>4 DEF Walk
<1>7. Cardinality(r.page) <= MaxLimit
  <2>1. Cardinality(Page(R, limit)) <= limit
    BY <1>1, <1>2, <1>3, PageIsBounded
  <2>2. Cardinality(Page(R, limit)) \in Nat
    BY <1>2, <1>4, FS_Subset, FS_CardinalityType
  <2> QED
    BY <2>1, <2>2, <1>3
<1>8. \A k \in r.earlier : k \in Keys /\ \A l \in R : Precedes(k, l)
  <2> SUFFICES ASSUME NEW k \in r.earlier, NEW l \in R
               PROVE  k \in Keys /\ Precedes(k, l)
    BY <1>4
  <2>1. k \in Listed(w) /\ k \in Keys
    BY <1>3 DEF Listed, Walk
  <2>2. old.cursor # <<>> /\ ~Precedes(old.cursor, k)
    BY <2>1, <1>3 DEF IInv, ListedBehindCursor
  <2>3. Precedes(old.cursor, l) /\ old.cursor \in Keys /\ l \in Keys
    BY <2>2, <1>2, <1>3 DEF Remaining, Beyond, Walk
  <2> QED
    BY <2>1, <2>2, <2>3, KeyOrder
<1>9. \A k \in r.earlier \union r.page : ~Precedes(r.cursor, k)
  BY <1>4, <1>5, <1>8, KeyOrder
<1>10. \A k \in r.earlier, l \in r.page : Precedes(k, l)
  BY <1>4, <1>8
<1>11. r.cursor # <<>>
  BY <1>4 DEF Keys
<1>12. ASSUME NEW d \in due', d[1] = w
       PROVE  /\ d[2] \in Rows(r.listing)
              /\ \/ d[2] \in r.earlier \union r.page
                 \/ d[2] \in Beyond(Rows(r.listing), r.cursor)
  <2>1. /\ d[2] \in Rows(old.listing)
        /\ d[2] \in old.earlier \union old.page \/ d[2] \in R
    BY <1>3, <1>12 DEF ReadPage, IInv, DueIsListedOrAhead, Listed
  <2>2. CASE d[2] \in R
    BY <1>5, <2>1, <2>2 DEF Beyond
  <2> QED
    BY <2>1, <2>2
<1>13. /\ UNCHANGED <<now, status, updated, trail, tx, since>>
       /\ due' = due /\ due \subseteq Walks \X Keys
       /\ r.at = "open" /\ walk' = [walk EXCEPT ![w] = r]
  BY <1>1 DEF ReadPage, IInv, Stored, TypeOK
<1> HIDE DEF r, R
<1> QED
  BY <1>6, <1>7, <1>9, <1>10, <1>11, <1>12, <1>13, WalkStep

LEMMA ReadLastPageKeeps ==
    ASSUME IInv, NEW w \in Walks, NEW limit \in 1..MaxLimit, ReadLastPage(w, limit)
    PROVE  IInv'
<1> DEFINE R == Remaining(w)
           old == walk[w]
           r == [listing |-> walk[w].listing, at |-> "done", cursor |-> walk[w].cursor,
                 earlier |-> walk[w].earlier \union walk[w].page,
                 page |-> Page(R, limit)]
<1>1. /\ walk' = [walk EXCEPT ![w] = r]
      /\ UNCHANGED <<now, status, updated, trail, tx, since, due>>
      /\ Cardinality(R) <= limit /\ old.at = "open"
  BY DEF ReadLastPage
<1>2. /\ R \subseteq Keys /\ IsFiniteSet(R) /\ R \subseteq Rows(old.listing)
  BY RemainingIsFinite DEF IInv
<1>3. old \in Walk /\ limit \in Nat /\ limit <= MaxLimit
  BY DEF IInv, Stored, TypeOK
<1>4. Page(R, limit) = R
  BY <1>1, <1>2, <1>3, LastPageIsWhole
<1>5. r \in Walk /\ r.at # "open" /\ r.page = R /\ r.listing = old.listing
      /\ r.earlier \union r.page = Listed(w) \union R
  BY <1>2, <1>3, <1>4 DEF Walk, Listed
<1>6. Cardinality(r.page) <= MaxLimit
  <2>1. Cardinality(R) \in Nat
    BY <1>2, FS_CardinalityType
  <2> QED
    BY <2>1, <1>1, <1>3, <1>5
<1>7. ASSUME NEW k \in r.earlier, NEW l \in r.page
      PROVE  Precedes(k, l)
  <2>1. k \in Listed(w) /\ k \in Keys
    BY <1>3 DEF Listed, Walk
  <2>2. old.cursor # <<>> /\ ~Precedes(old.cursor, k)
    BY <2>1, <1>1 DEF IInv, ListedBehindCursor
  <2>3. Precedes(old.cursor, l) /\ old.cursor \in Keys /\ l \in Keys
    BY <2>2, <1>2, <1>3, <1>5 DEF Remaining, Beyond, Walk
  <2> QED
    BY <2>1, <2>2, <2>3, KeyOrder
<1>8. ASSUME NEW d \in due', d[1] = w
      PROVE  d[2] \in Rows(r.listing) /\ d[2] \in r.earlier \union r.page
  <2>1. d \in due /\ walk[d[1]].at = "open"
    BY <1>1, <1>8
  <2>2. /\ d[2] \in Rows(old.listing)
        /\ d[2] \in Listed(w) \/ d[2] \in R
    BY <2>1, <1>8 DEF IInv, DueIsListedOrAhead
  <2> QED
    BY <2>2, <1>5
<1>9. due' \subseteq Walks \X Keys /\ \A d \in due' : d \in due
  BY <1>1 DEF IInv, Stored, TypeOK
<1>10. walk' = [walk EXCEPT ![w] = r]
  BY <1>1
<1> HIDE DEF r, R
<1>11. r \in Walk /\ r.at # "open"
  BY <1>5
<1> QED
  BY <1>1, <1>6, <1>7, <1>8, <1>9, <1>10, <1>11, WalkStep

-----------------------------------------------------------------------------
(* The theorems                                                             *)

LEMMA InitInv ==
    ASSUME Init
    PROVE  IInv
<1>1. NotStarted \in Walk /\ NotStarted.page = {} /\ NotStarted.earlier = {}
      /\ NotStarted.at = "done"
  BY DEF NotStarted, Walk, Listings
<1>2. \A w \in Walks : Cardinality(walk[w].page) = 0
  BY <1>1, FS_EmptySet DEF Init
<1>3. MaxTime \in Nat
  OBVIOUS
<1>4. TypeOK
  BY <1>1, <1>2, <1>3 DEF Init, TypeOK
<1>5. IsFiniteSet(trail)
  BY FS_EmptySet DEF Init
<1>6. ListedBehindCursor /\ PagesInOrder
  BY <1>1 DEF Init, ListedBehindCursor, PagesInOrder
<1>7. DueIsListedOrAhead /\ WalkComplete
  BY DEF Init, DueIsListedOrAhead, WalkComplete
<1>8. StampsWithinSkew
  BY DEF Init, StampsWithinSkew, RequestsOf, EventOf
<1> QED
  BY <1>4, <1>5, <1>6, <1>7, <1>8 DEF IInv, Stored

LEMMA StutterKeeps ==
    ASSUME IInv, UNCHANGED vars
    PROVE  IInv'
<1>1. StillDue
  BY RowsUnchanged DEF vars
<1>2. Tables'
  BY DEF vars, Tables, IInv, Stored, TypeOK
<1>3. StampsWithinSkew'
  BY StampsKept DEF vars
<1> QED
  BY <1>1, <1>2, <1>3, WriterStep DEF vars

LEMMA NextKeeps ==
    ASSUME IInv, [Next]_vars
    PROVE  IInv'
<1>1. ASSUME NEW s \in Sessions, NEW o \in Organizations, NEW type \in Types,
             MakeEvent(s, o, type)
      PROVE  IInv'
  BY <1>1, MakeEventKeeps
<1>2. ASSUME NEW s \in Sessions, Commit(s) PROVE IInv'
  BY <1>2, CommitKeeps
<1>3. ASSUME \/ \E s \in Sessions : Abort(s)
             \/ \E o \in Organizations : Touch(o) \/ Delete(o)
             \/ Tick
      PROVE  IInv'
  BY <1>3, OtherWritersKeep
<1>4. ASSUME NEW w \in Walks, NEW listing \in Listings, StartWalk(w, listing)
      PROVE  IInv'
  BY <1>4, StartWalkKeeps
<1>5. ASSUME NEW w \in Walks, NEW limit \in 1..MaxLimit,
             ReadPage(w, limit) \/ ReadLastPage(w, limit)
      PROVE  IInv'
  BY <1>5, ReadPageKeeps, ReadLastPageKeeps
<1>6. CASE UNCHANGED vars
  BY <1>6, StutterKeeps
<1> QED
  BY <1>1, <1>2, <1>3, <1>4, <1>5, <1>6 DEF Next, ReadOn

THEOREM InductiveInvariant == Spec => []IInv
<1>1. Init => IInv
  BY InitInv
<1>2. IInv /\ [Next]_vars => IInv'
  BY NextKeeps
<1> QED
  BY <1>1, <1>2, PTL DEF Spec

(* The variables keep their types, and no page is longer than its limit.    *)
THEOREM TypeCorrect == Spec => []TypeOK
<1>1. IInv => TypeOK
  BY DEF IInv, Stored
<1> QED
  BY <1>1, InductiveInvariant, PTL

(* Whatever commits or is decided during a walk (ListQueue with its cursors, *)
(* or the audit listing), the walk returns everything that stayed.          *)
THEOREM WalksMissNothing == Spec => []WalkComplete
<1>1. IInv => WalkComplete
  BY DEF IInv
<1> QED
  BY <1>1, InductiveInvariant, PTL

(* No walk returns a row twice, and its pages are in the listing's order.   *)
THEOREM PagesStayInOrder == Spec => []PagesInOrder
<1>1. IInv => PagesInOrder
  BY DEF IInv
<1> QED
  BY <1>1, InductiveInvariant, PTL

(* The queue is in the order of the requests, as far as clocks can tell.    *)
THEOREM QueueIsFair == Spec => []LongerWaitingFirst
<1>1. ASSUME IInv PROVE LongerWaitingFirst
  <2> SUFFICES ASSUME NEW k \in Queue, NEW l \in Queue,
                      NEW e \in RequestsOf(l[2]),
                      WaitingSince(k[2]) + Skew < e.at
               PROVE  Precedes(k, l)
    BY DEF LongerWaitingFirst
  <2>1. /\ k[1] \in RequestedAt(k[2]) /\ k[2] \in Organizations
        /\ l[1] \in RequestedAt(l[2]) /\ l[2] \in Organizations
    BY DEF Queue, Pending
  <2>2. k \in Keys /\ l \in Keys
    BY <1>1, RowsAreKeys DEF IInv, Rows, Listings
  <2>3. k[1] \in Int /\ l[1] \in Int
    BY <2>2 DEF Keys
  <2>4. e \in Event /\ e.at \in Int
    BY <1>1 DEF RequestsOf, EventOf, IInv, Stored, TypeOK, Event
  <2>5. e.at <= l[1]
    BY <2>1 DEF RequestedAt
  <2>6. WaitingSince(k[2]) \in Int /\ k[1] <= WaitingSince(k[2]) + Skew
    <3>1. CASE RequestsOf(k[2]) = {}
      <4>1. k[1] = updated[k[2]] /\ WaitingSince(k[2]) = updated[k[2]]
        BY <3>1, <2>1 DEF RequestedAt, WaitingSince
      <4> QED
        BY <4>1, <2>3
    <3>2. CASE RequestsOf(k[2]) # {}
      <4>1. PICK f \in RequestsOf(k[2]) : k[1] = f.at
        BY <3>2, <2>1 DEF RequestedAt
      <4>2. WaitingSince(k[2]) = since[k[2]]
        BY <3>2 DEF WaitingSince
      <4>3. since[k[2]] \in 0..MaxTime
        BY <1>1, <2>1 DEF IInv, Stored, TypeOK
      <4>4. k[1] <= since[k[2]] + Skew
        BY <1>1, <2>1, <4>1 DEF IInv, StampsWithinSkew
      <4> QED
        BY <4>2, <4>3, <4>4
    <3> QED
      BY <3>1, <3>2
  <2>7. k[1] < l[1]
    BY <2>3, <2>4, <2>5, <2>6
  <2> QED
    BY <2>7 DEF Precedes
<1> QED
  BY <1>1, InductiveInvariant, PTL
=============================================================================
