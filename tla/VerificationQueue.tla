-------------------------- MODULE VerificationQueue --------------------------
(* Reviewers page through the verification queue and owners through the    *)
(* audit trail, while requests, decisions and other audited transactions    *)
(* commit.  An audit event gets its time and its id in the transaction,     *)
(* from the clock of the replica, before the commit: events appear in       *)
(* another order than that of their times.                                  *)
EXTENDS KeysetPaging

CONSTANTS Organizations,    \* their ids, in the order of UUIDs
          PendingBefore,    \* those pending since before there were audit events
          Sessions,         \* transactions that write audit events
          Walks,            \* walks of reviewers and owners
          Reviewing,        \* the listing of reviewers; a trail is its organization
          EventIds,         \* EventIds[s]: ids a session's events get, in turn
          Idle,             \* no transaction
          MaxLimit,         \* MaxPageSize
          Skew,             \* how far a replica's clock may be off
          MaxTime           \* bounds the clock

ASSUME ListingAssumption ==
    /\ Organizations \subseteq Nat /\ IsFiniteSet(Organizations)
    /\ PendingBefore \subseteq Organizations
    /\ Reviewing \notin Organizations
    /\ EventIds \in [Sessions -> SUBSET Nat]
    /\ \A s, r \in Sessions : s # r => EventIds[s] \intersect EventIds[r] = {}
    /\ MaxLimit \in Nat \ {0} /\ Skew \in Nat /\ MaxTime \in Nat

Listings == {Reviewing} \union Organizations
Types == {"requested", "reviewed", "other"}

VARIABLES now,       \* the true time, and the database's
          status,    \* verification status; "closed": verified or deleted
          updated,   \* updated_at of the organizations
          trail,     \* committed audit events
          tx,        \* the event a session has made and not committed
          since,     \* history: when the last request was committed
          walk,      \* the pages a walk has read
          due        \* history: <<w, row>>, there since the start of walk w

vars == <<now, status, updated, trail, tx, since, walk, due>>

EventOf(o) == {e \in trail : e.org = o}

-----------------------------------------------------------------------------
(* The two listings                                                         *)

RequestsOf(o) == {e \in EventOf(o) : e.type = "requested"}

(* mutation: the query does not look at the type of the events *)
BugAnyEvent(o) ==
    IF EventOf(o) = {} THEN {updated[o]}
    ELSE {e.at : e \in {f \in EventOf(o) : \A g \in EventOf(o) : g.at <= f.at}}

(* COALESCE(max(occurred_at) of the requests, updated_at): an organization *)
(* that was pending before there were audit events has none                *)
RequestedAt(o) ==
    IF RequestsOf(o) = {} THEN {updated[o]}
    ELSE {e.at : e \in {f \in RequestsOf(o) :
                           \A g \in RequestsOf(o) : g.at <= f.at}}

Pending == {o \in Organizations : status[o] = "pending"}

(* ListPendingVerificationQueue: oldest request first *)
Queue == UNION {{<<t, o>> : t \in RequestedAt(o)} : o \in Pending}

(* ListOrganizationAuditEvents: newest event first *)
Trail(o) == {<<-e.at, -e.id>> : e \in EventOf(o)}

Rows(listing) == IF listing = Reviewing THEN Queue ELSE Trail(listing)

-----------------------------------------------------------------------------
(* Transactions                                                             *)

(* one transaction at a time has the lock of an organization's row; other   *)
(* audited transactions (invitations, roles, ...) do not need it            *)
RowFree(o) == \A s \in Sessions : tx[s] # Idle /\ tx[s].org = o => tx[s].type = "other"

Allowed(o, type) ==
    CASE type = "requested" -> status[o] = "idle" /\ RowFree(o)
      [] type = "reviewed" -> status[o] = "pending" /\ RowFree(o)
      [] OTHER -> TRUE

(* UUIDv7s grow in a process and not across processes, and are unique *)
NextId(s) == LET Unused == EventIds[s] \ {e.id : e \in trail}
             IN {id \in Unused : \A other \in Unused : id <= other}

(* rows that are still where they were when the walk began *)
StillDue == due' = {d \in due : d[2] \in Rows(walk[d[1]].listing)'}

(* newEvent *)
MakeEvent(s, o, type) ==
    /\ tx[s] = Idle
    /\ Allowed(o, type)
    /\ \E at \in (now - Skew)..(now + Skew), id \in NextId(s) :
          tx' = [tx EXCEPT ![s] = [org |-> o, type |-> type, at |-> at, id |-> id]]
    /\ UNCHANGED <<now, status, updated, trail, since, walk, due>>

(* a review rejects, or verifies for good *)
StatusesAfter(type, old) == CASE type = "requested" -> {"pending"}
                              [] type = "reviewed" -> {"idle", "closed"}
                              [] OTHER -> {old}

Commit(s) ==
    /\ tx[s] # Idle
    /\ LET e == tx[s] IN
          /\ trail' = trail \union {e}
          /\ \E new \in StatusesAfter(e.type, status[e.org]) :
                status' = [status EXCEPT ![e.org] = new]
          /\ since' = [since EXCEPT ![e.org] =
                         IF e.type = "requested" THEN now ELSE @]
    /\ tx' = [tx EXCEPT ![s] = Idle]
    /\ UNCHANGED <<now, updated, walk>>
    /\ StillDue

Abort(s) ==
    /\ tx[s] # Idle
    /\ tx' = [tx EXCEPT ![s] = Idle]
    /\ UNCHANGED <<now, status, updated, trail, since, walk, due>>

(* Any update of the row sets updated_at to the start of its transaction,   *)
(* which may have waited for the lock.  The queue reads it only of a        *)
(* pending organization without a request in its trail.                     *)
Touch(o) ==
    /\ status[o] = "pending" /\ RequestsOf(o) = {} /\ RowFree(o)
    /\ \E t \in 0..now : updated' = [updated EXCEPT ![o] = t]
    /\ UNCHANGED <<now, status, trail, tx, since, walk>>
    /\ StillDue

(* Clerk's webhook deletes the organization *)
Delete(o) ==
    /\ status[o] # "closed" /\ RowFree(o)
    /\ status' = [status EXCEPT ![o] = "closed"]
    /\ UNCHANGED <<now, updated, trail, tx, since, walk>>
    /\ StillDue

Tick ==
    /\ now < MaxTime
    /\ now' = now + 1
    /\ UNCHANGED <<status, updated, trail, tx, since, walk, due>>

-----------------------------------------------------------------------------
(* Walks through a listing                                                  *)

NotStarted == [listing |-> Reviewing, at |-> "done", cursor |-> <<>>,
               earlier |-> {}, page |-> {}]

(* a walk begins without a cursor *)
StartWalk(w, listing) ==
    /\ walk[w].at = "done"
    /\ walk' = [walk EXCEPT ![w] =
                   [NotStarted EXCEPT !.at = "open", !.listing = listing]]
    /\ due' = {d \in due : d[1] # w} \union {<<w, k>> : k \in Rows(listing)}
    /\ UNCHANGED <<now, status, updated, trail, tx, since>>

Remaining(w) == Beyond(Rows(walk[w].listing), walk[w].cursor)

(* ListQueue, or List, with a next cursor *)
ReadPage(w, limit) ==
    /\ walk[w].at = "open"
    /\ \E last \in LastOfPage(Remaining(w), limit) :
          walk' = [walk EXCEPT ![w] =
                      [listing |-> walk[w].listing, at |-> "open", cursor |-> last,
                       earlier |-> walk[w].earlier \union walk[w].page,
                       page |-> Page(Remaining(w), limit)]]
    /\ UNCHANGED <<now, status, updated, trail, tx, since, due>>

(* the last page has no next cursor *)
ReadLastPage(w, limit) ==
    /\ walk[w].at = "open"
    /\ Cardinality(Remaining(w)) <= limit
    /\ walk' = [walk EXCEPT ![w] =
                   [listing |-> walk[w].listing, at |-> "done", cursor |-> walk[w].cursor,
                    earlier |-> walk[w].earlier \union walk[w].page,
                    page |-> Page(Remaining(w), limit)]]
    /\ UNCHANGED <<now, status, updated, trail, tx, since, due>>

ReadOn(w) == \E limit \in 1..MaxLimit : ReadPage(w, limit) \/ ReadLastPage(w, limit)

-----------------------------------------------------------------------------
Init ==
    /\ now = 0
    /\ status = [o \in Organizations |->
                   IF o \in PendingBefore THEN "pending" ELSE "idle"]
    /\ updated = [o \in Organizations |-> 0]
    /\ trail = {}
    /\ tx = [s \in Sessions |-> Idle]
    /\ since = [o \in Organizations |-> 0]
    /\ walk = [w \in Walks |-> NotStarted]
    /\ due = {}

Next ==
    \/ \E s \in Sessions :
          \/ \E o \in Organizations, type \in Types : MakeEvent(s, o, type)
          \/ Commit(s) \/ Abort(s)
    \/ \E o \in Organizations : Touch(o) \/ Delete(o)
    \/ Tick
    \/ \E w \in Walks : \/ \E listing \in Listings : StartWalk(w, listing)
                      \/ ReadOn(w)

Spec == Init /\ [][Next]_vars

(* reviewers come back, and read on to the last page *)
ReviewersWalk ==
    \A w \in Walks : WF_vars(ReadOn(w)) /\ SF_vars(StartWalk(w, Reviewing))

-----------------------------------------------------------------------------
Event == [org : Organizations, type : Types, at : Int, id : Nat]
Walk == [listing : Listings, at : {"open", "done"}, cursor : Keys \union {<<>>},
         earlier : SUBSET Keys, page : SUBSET Keys]

TypeOK ==
    /\ now \in 0..MaxTime
    /\ status \in [Organizations -> {"idle", "pending", "closed"}]
    /\ updated \in [Organizations -> 0..MaxTime]
    /\ trail \subseteq Event
    /\ tx \in [Sessions -> Event \union {Idle}]
    /\ since \in [Organizations -> 0..MaxTime]
    /\ due \subseteq Walks \X Keys
    /\ walk \in [Walks -> Walk]
    /\ \A w \in Walks : Cardinality(walk[w].page) <= MaxLimit

Listed(w) == walk[w].earlier \union walk[w].page

(* A walk misses nothing that stayed: every organization that was pending   *)
(* with one request, and every audit event that was committed, since before *)
(* the first page is on one of the pages, although others come, go, and     *)
(* commit with times behind the cursor meanwhile.                           *)
WalkComplete == \A d \in due : walk[d[1]].at = "done" => d[2] \in Listed(d[1])

(* A walk returns nothing twice, and pages continue the order of the pages  *)
(* before: what a reviewer has seen is older, what an auditor has, newer.   *)
PagesInOrder ==
    \A w \in Walks : \A k \in walk[w].earlier, l \in walk[w].page : Precedes(k, l)

WaitingSince(o) == IF RequestsOf(o) = {} THEN updated[o] ELSE since[o]

(* "Oldest request first": an organization whose request was answered       *)
(* before another one was made is listed before it, whatever replicas made  *)
(* them, unless the two are closer than the clocks; a repeated request      *)
(* queues up again, and so does, at each update, an organization that has   *)
(* none in its trail.                                                       *)
LongerWaitingFirst ==
    \A k, l \in Queue :
        (\E e \in RequestsOf(l[2]) : WaitingSince(k[2]) + Skew < e.at)
            => Precedes(k, l)

(* Paging starves no request: if reviewers walk through the queue again and *)
(* again, every request is listed, unless it is decided or deleted first.   *)
(* (An organization without a request in its trail moves with each update,  *)
(* and can miss every walk.)                                                *)
RequestsAreListed ==
    ReviewersWalk =>
        \A o \in Organizations :
            status[o] = "pending" /\ RequestsOf(o) # {}
                ~> \/ status[o] # "pending"
                   \/ \E w \in Walks : \E k \in Listed(w) :
                         walk[w].listing = Reviewing /\ k[2] = o
=============================================================================
