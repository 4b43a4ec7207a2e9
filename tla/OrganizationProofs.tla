------------------------- MODULE OrganizationProofs -------------------------
(***************************************************************************)
(* Proofs about the memberships of an organization, for every number of    *)
(* workers, sessions, users and memberships and every set of events.       *)
(*                                                                         *)
(* The argument has two halves.  Outcome is a function of the tables a     *)
(* transaction read: lemmas say what it preserves of them.  The advisory   *)
(* lock makes the tables that were read the tables that are written to,    *)
(* all but the invitation intents, which the maintenance job prunes        *)
(* without it: so every commit preserves what Outcome does.                *)
(*                                                                         *)
(* Two sections are about the intents, in two more invariants: who makes   *)
(* owners, and what becomes of an invited member.  The last three are      *)
(* about the members: every commit is one step of OrganizationMembers,     *)
(* what the recorded events mean is what the tables tell, and what ends a  *)
(* removal's reservation.                                                  *)
(***************************************************************************)
EXTENDS OrganizationMembership, FiniteSetTheorems, TLAPS

Row == [status: RowStatuses, role: AppRoles]
Intent == [status: IntentStatuses, role: AppRoles]
OrgRow == [status: {"none", "pending", "active", "disabled", "deleted"},
           creator: Users \union {None}, bootstrapped: BOOLEAN,
           eligible: BOOLEAN]

(* The fields of a record of tables, one by one *)
LEMMA TablesParts ==
    ASSUME NEW d \in Tables
    PROVE  /\ d.inbox \subseteq Events
           /\ d.org \in OrgRow
           /\ d.members \in [Memberships -> Row]
           /\ d.reserved \subseteq Memberships
           /\ d.intents \in [Invitations -> Intent]
           /\ d.requested \in [Memberships -> Nat]
           /\ d.completed \in [Memberships -> Nat]
  BY DEF Tables, Row, Intent, OrgRow

(* An update of one table of a record of tables *)
LEMMA TablesUpdated ==
    ASSUME NEW d \in Tables
    PROVE  /\ \A inbox \in SUBSET Events : [d EXCEPT !.inbox = inbox] \in Tables
           /\ \A org \in OrgRow : [d EXCEPT !.org = org] \in Tables
           /\ \A members \in [Memberships -> Row] :
                 [d EXCEPT !.members = members] \in Tables
           /\ \A reserved \in SUBSET Memberships :
                 [d EXCEPT !.reserved = reserved] \in Tables
           /\ \A intents \in [Invitations -> Intent] :
                 [d EXCEPT !.intents = intents] \in Tables
           /\ \A requested \in [Memberships -> Nat] :
                 [d EXCEPT !.requested = requested] \in Tables
           /\ \A completed \in [Memberships -> Nat] :
                 [d EXCEPT !.completed = completed] \in Tables
  BY DEF Tables, Row, Intent, OrgRow

(* A membership event names a membership, its type and a known invitation *)
LEMMA EventParts ==
    ASSUME NEW e \in Events
    PROVE  /\ e.aggregate \in Memberships \union {Org}
           /\ e.type \in EventTypes
           /\ e.creator \in Users \union {None}
           /\ e.clerkRole \in ClerkRoles
           /\ e.invitation \in Invitations \union {None}
  BY EventsAssumption DEF Event

-----------------------------------------------------------------------------
(* What Bootstrap changes: at most roles, towards owner, and the two flags *)
LEMMA BootstrapShape ==
    ASSUME NEW d \in Tables
    PROVE  LET b == Bootstrap(d)
           IN /\ b \in Tables
              /\ b.inbox = d.inbox /\ b.reserved = d.reserved
              /\ b.intents = d.intents /\ b.requested = d.requested
              /\ b.completed = d.completed
              /\ \A m \in Memberships :
                    /\ b.members[m].status = d.members[m].status
                    /\ b.members[m].role \in {d.members[m].role, "owner"}
              /\ b.org.bootstrapped =>
                    \/ b.org = d.org
                    \/ b.org.eligible /\ b.org.creator # None
<1> DEFINE candidates == Of(d.org.creator) \intersect Effective(d)
           crowned == [m \in Memberships |->
                          IF m \in candidates THEN [d.members[m] EXCEPT !.role = "owner"]
                                              ELSE d.members[m]]
           lost == [d EXCEPT !.org.eligible = FALSE]
           won == [d EXCEPT !.members = crowned, !.org.bootstrapped = TRUE]
<1>0. /\ d.org \in OrgRow /\ d.members \in [Memberships -> Row]
  BY TablesParts
<1>1. ASSUME AwaitsBootstrap(d)
      PROVE  d.org.eligible /\ ~d.org.bootstrapped /\ d.org.creator # None
  BY <1>1 DEF AwaitsBootstrap
<1>2. Bootstrap(d) \in {d} \union (IF AwaitsBootstrap(d) THEN {lost, won} ELSE {})
  BY DEF Bootstrap
<1>3. CASE Bootstrap(d) = d
  BY <1>3, <1>0 DEF Row
<1>4. CASE Bootstrap(d) = lost /\ AwaitsBootstrap(d)
  <2>1. [d.org EXCEPT !.eligible = FALSE] \in OrgRow
    BY <1>0 DEF OrgRow
  <2>2. lost = [d EXCEPT !.org = [d.org EXCEPT !.eligible = FALSE]]
    BY DEF Tables
  <2>3. lost \in Tables
    BY <2>1, <2>2, TablesUpdated
  <2>4. /\ lost.inbox = d.inbox /\ lost.reserved = d.reserved
        /\ lost.intents = d.intents /\ lost.requested = d.requested
        /\ lost.completed = d.completed /\ lost.members = d.members
    BY DEF Tables
  <2>5. ~lost.org.bootstrapped
    BY <1>1, <1>4 DEF Tables
  <2> QED BY <1>4, <2>3, <2>4, <2>5, <1>0 DEF Row
<1>5. CASE Bootstrap(d) = won /\ AwaitsBootstrap(d)
  <2>1. crowned \in [Memberships -> Row]
    BY <1>0 DEF Row, AppRoles
  <2>2. [d.org EXCEPT !.bootstrapped = TRUE] \in OrgRow
    BY <1>0 DEF OrgRow
  <2>3. won = [[d EXCEPT !.members = crowned]
                  EXCEPT !.org = [d.org EXCEPT !.bootstrapped = TRUE]]
    BY DEF Tables
  <2>4. [d EXCEPT !.members = crowned] \in Tables
    BY <2>1, TablesUpdated
  <2>5. won \in Tables
    BY <2>2, <2>3, <2>4, TablesUpdated
  <2>6. /\ won.inbox = d.inbox /\ won.reserved = d.reserved
        /\ won.intents = d.intents /\ won.requested = d.requested
        /\ won.completed = d.completed /\ won.members = crowned
        /\ won.org.eligible = d.org.eligible /\ won.org.creator = d.org.creator
    BY DEF Tables
  <2>7. \A m \in Memberships : /\ crowned[m].status = d.members[m].status
                               /\ crowned[m].role \in {d.members[m].role, "owner"}
    BY <1>0 DEF Row
  <2> QED BY <1>1, <1>5, <2>5, <2>6, <2>7
<1> QED BY <1>2, <1>3, <1>4, <1>5

-----------------------------------------------------------------------------
(* What an outcome r makes of the tables d that were read, intents and     *)
(* roles aside: it keeps every membership, lets one join, deletes one,     *)
(* reserves one for removal or releases one.                               *)
OrgSound(org) == org.bootstrapped => org.eligible /\ org.creator # None
SameAudit(d, r) == r.requested = d.requested /\ r.completed = d.completed
SameStatus(d, r, others) ==
    \A m \in others : r.members[m].status = d.members[m].status
(* Owners stay owners unless they are deleted *)
OwnersStay(d, r, others) ==
    \A m \in others : d.members[m].role = "owner" => r.members[m].role = "owner"

Keeps(d, r) ==
    /\ SameStatus(d, r, Memberships)
    /\ r.reserved = d.reserved
    /\ SameAudit(d, r)
    /\ OrgSound(d.org) => OrgSound(r.org)

Joins(d, r, m) ==
    /\ d.members[m].status = "none" /\ r.members[m].status = "active"
    /\ Active(d) \intersect Of(UserOf[m]) = {}
    /\ SameStatus(d, r, Memberships \ {m})
    /\ r.reserved = d.reserved
    /\ SameAudit(d, r)
    /\ OrgSound(d.org) => OrgSound(r.org)

Deletes(d, r, m) ==
    /\ r.members[m].status = "deleted"
    /\ SameStatus(d, r, Memberships \ {m})
    /\ r.reserved = d.reserved \ {m}
    /\ r.requested = d.requested
    /\ \A n \in Memberships :
          r.completed[n] = IF n = m /\ m \in d.reserved THEN d.completed[n] + 1
                                                       ELSE d.completed[n]
    /\ OrgSound(d.org) => OrgSound(r.org)

Reserves(d, r, m) ==
    /\ SameStatus(d, r, Memberships)
    /\ m \in Active(d) /\ m \notin d.reserved /\ r.reserved = d.reserved \union {m}
    /\ r.completed = d.completed
    /\ \A n \in Memberships :
          r.requested[n] = IF n = m THEN d.requested[n] + 1 ELSE d.requested[n]
    /\ OrgSound(d.org) => OrgSound(r.org)

Unreserves(d, r, m) ==
    /\ SameStatus(d, r, Memberships)
    /\ r.reserved = d.reserved \ {m}
    /\ SameAudit(d, r)
    /\ OrgSound(d.org) => OrgSound(r.org)

LEMMA BootstrapKeeps ==
    ASSUME NEW d \in Tables
    PROVE  /\ Bootstrap(d) \in Tables
           /\ Keeps(d, Bootstrap(d))
           /\ OwnersStay(d, Bootstrap(d), Memberships)
  BY BootstrapShape DEF Keeps, SameStatus, SameAudit, OrgSound, OwnersStay

(* A shape followed by a bootstrap is the same shape *)
LEMMA ThenBootstrap ==
    ASSUME NEW d \in Tables, NEW k \in Tables, NEW m \in Memberships
    PROVE  /\ Keeps(d, k) => Keeps(d, Bootstrap(k))
           /\ Joins(d, k, m) => Joins(d, Bootstrap(k), m)
           /\ Deletes(d, k, m) => Deletes(d, Bootstrap(k), m)
           /\ \A others \in SUBSET Memberships :
                 OwnersStay(d, k, others) => OwnersStay(d, Bootstrap(k), others)
<1> DEFINE b == Bootstrap(k)
<1>1. Keeps(k, b) /\ OwnersStay(k, b, Memberships)
  BY BootstrapKeeps
<1> HIDE DEF b
<1>2. Keeps(d, k) => Keeps(d, b)
  BY <1>1 DEF Keeps, SameStatus, SameAudit
<1>3. Joins(d, k, m) => Joins(d, b, m)
  BY <1>1 DEF Keeps, Joins, SameStatus, SameAudit
<1>4. Deletes(d, k, m) => Deletes(d, b, m)
  BY <1>1 DEF Keeps, Deletes, SameStatus, SameAudit
<1>5. \A others \in SUBSET Memberships :
         OwnersStay(d, k, others) => OwnersStay(d, b, others)
  BY <1>1 DEF OwnersStay
<1> QED BY <1>2, <1>3, <1>4, <1>5 DEF b

LEMMA WithDeletedShape ==
    ASSUME NEW d \in Tables, NEW m \in Memberships
    PROVE  /\ WithDeleted(d, m) \in Tables
           /\ Deletes(d, WithDeleted(d, m), m)
           /\ OwnersStay(d, WithDeleted(d, m), Memberships \ {m})
<1> DEFINE members == [d.members EXCEPT ![m].status = "deleted"]
           completed == [d.completed EXCEPT ![m] = IF m \in d.reserved THEN @ + 1 ELSE @]
           r == [[[d EXCEPT !.members = members] EXCEPT !.reserved = d.reserved \ {m}]
                   EXCEPT !.completed = completed]
<1>1. /\ d.members \in [Memberships -> Row] /\ d.completed \in [Memberships -> Nat]
      /\ d.reserved \subseteq Memberships
  BY TablesParts
<1>2. WithDeleted(d, m) = r
  BY DEF WithDeleted, Tables
<1>3. members \in [Memberships -> Row]
  BY <1>1 DEF Row, RowStatuses
<1>4. completed \in [Memberships -> Nat]
  BY <1>1
<1>5. [d EXCEPT !.members = members] \in Tables
  BY <1>3, TablesUpdated
<1>6. [[d EXCEPT !.members = members] EXCEPT !.reserved = d.reserved \ {m}] \in Tables
  BY <1>1, <1>5, TablesUpdated
<1>7. r \in Tables
  BY <1>4, <1>6, TablesUpdated
<1>8. /\ r.members = members /\ r.reserved = d.reserved \ {m} /\ r.org = d.org
      /\ r.completed = completed /\ r.requested = d.requested
  BY DEF Tables
<1>9. /\ members[m].status = "deleted"
      /\ \A n \in Memberships \ {m} : members[n] = d.members[n]
  BY <1>1 DEF Row
<1>10. \A n \in Memberships :
          completed[n] = IF n = m /\ m \in d.reserved THEN d.completed[n] + 1
                                                     ELSE d.completed[n]
  BY <1>1
<1> HIDE DEF r, members, completed
<1> QED BY <1>2, <1>7, <1>8, <1>9, <1>10 DEF Deletes, SameStatus, OwnersStay

LEMMA WithJoinedShape ==
    ASSUME NEW d \in Tables, NEW e \in Events, e.aggregate \in Memberships,
           d.members[e.aggregate].status = "none",
           Active(d) \intersect Of(UserOf[e.aggregate]) = {}
    PROVE  /\ WithJoined(d, e) \in Tables
           /\ Joins(d, WithJoined(d, e), e.aggregate)
           /\ OwnersStay(d, WithJoined(d, e), Memberships \ {e.aggregate})
<1> DEFINE m == e.aggregate
           wasInvited == Invited(d, e)
           role == IF wasInvited THEN d.intents[e.invitation].role
                              ELSE InitialApplicationRole(e.clerkRole)
           renounces == wasInvited /\ AwaitsBootstrap(d) /\ d.org.creator = UserOf[m]
           members == [d.members EXCEPT ![m] = [status |-> "active", role |-> role]]
           intents == [i \in Invitations |->
                          IF wasInvited /\ i = e.invitation
                          THEN [d.intents[i] EXCEPT !.status = "consumed"]
                          ELSE d.intents[i]]
           org == [d.org EXCEPT !.eligible = @ /\ ~renounces]
           r == [[[d EXCEPT !.members = members] EXCEPT !.intents = intents]
                   EXCEPT !.org = org]
<1>1. /\ d.members \in [Memberships -> Row] /\ d.intents \in [Invitations -> Intent]
      /\ d.org \in OrgRow
  BY TablesParts
<1>2. WithJoined(d, e) = r
  BY DEF WithJoined, Tables
<1>3. role \in AppRoles
  <2>1. CASE wasInvited
    <3>1. e.invitation \in Invitations
      BY <2>1, EventParts DEF Invited
    <3> QED BY <1>1, <2>1, <3>1 DEF Intent
  <2>2. CASE ~wasInvited
    BY <2>2 DEF InitialApplicationRole, AppRoles
  <2> QED BY <2>1, <2>2
<1>4. members \in [Memberships -> Row]
  BY <1>1, <1>3 DEF Row, RowStatuses
<1>5. intents \in [Invitations -> Intent]
  BY <1>1 DEF Intent, IntentStatuses
<1>6. org \in OrgRow /\ org.bootstrapped = d.org.bootstrapped /\ org.creator = d.org.creator
  <2>1. PICK flag \in BOOLEAN : flag = (d.org.eligible /\ ~renounces)
    BY <1>1 DEF OrgRow
  <2>2. org = [d.org EXCEPT !.eligible = flag]
    BY <2>1
  <2> QED BY <1>1, <2>2 DEF OrgRow
<1>7. OrgSound(d.org) => OrgSound(org)
  <2>1. renounces => ~d.org.bootstrapped
    BY DEF AwaitsBootstrap
  <2>2. org.eligible = (d.org.eligible /\ ~renounces)
    BY <1>1 DEF OrgRow
  <2> QED BY <1>6, <2>1, <2>2 DEF OrgSound
<1>8. [d EXCEPT !.members = members] \in Tables
  BY <1>4, TablesUpdated
<1>9. [[d EXCEPT !.members = members] EXCEPT !.intents = intents] \in Tables
  BY <1>5, <1>8, TablesUpdated
<1>10. r \in Tables
  BY <1>6, <1>9, TablesUpdated
<1>11. /\ r.members = members /\ r.reserved = d.reserved /\ r.org = org
       /\ r.completed = d.completed /\ r.requested = d.requested
  BY DEF Tables
<1>12. /\ members[m].status = "active"
       /\ \A n \in Memberships \ {m} : members[n] = d.members[n]
  BY <1>1
<1> HIDE DEF r, members, org
<1> QED BY <1>2, <1>7, <1>10, <1>11, <1>12 DEF Joins, SameStatus, SameAudit, OwnersStay

(* A membership event is the deletion or the joining of its membership, or *)
(* keeps every membership.                                                 *)
LEMMA MembershipEventShape ==
    ASSUME NEW d \in Tables, NEW e \in Events, e.aggregate \in Memberships,
           MembershipEventAllowed(d, e)
    PROVE  LET r == ApplyMembershipEvent(d, e)
               m == e.aggregate
           IN /\ r \in Tables
              /\ \/ Keeps(d, r) /\ OwnersStay(d, r, Memberships)
                 \/ Joins(d, r, m) /\ OwnersStay(d, r, Memberships \ {m})
                 \/ /\ e.type = "deleted" /\ Deletes(d, r, m)
                    /\ OwnersStay(d, r, Memberships \ {m})
<1> DEFINE m == e.aggregate
           org == [d.org EXCEPT !.status = IF @ = "none" THEN "pending" ELSE @]
           k == [d EXCEPT !.org = org]
<1>1. d.org \in OrgRow
  BY TablesParts
<1>2. /\ org \in OrgRow
      /\ OrgSound(d.org) => OrgSound(org)
  BY <1>1 DEF OrgRow, OrgSound
<1>3. k \in Tables
  BY <1>2, TablesUpdated
<1>4. /\ k.members = d.members /\ k.reserved = d.reserved /\ k.org = org
      /\ k.requested = d.requested /\ k.completed = d.completed
  BY DEF Tables
<1>5. k = [d EXCEPT !.org.status = IF @ = "none" THEN "pending" ELSE @]
  BY DEF Tables
<1> HIDE DEF k, org
<1>6. Keeps(d, k) /\ OwnersStay(d, k, Memberships)
  BY <1>2, <1>4 DEF Keeps, SameStatus, SameAudit, OwnersStay
<1>7. CASE e.type = "deleted"
  <2> DEFINE w == WithDeleted(k, m)
  <2>1. w \in Tables /\ Deletes(k, w, m) /\ OwnersStay(k, w, Memberships \ {m})
    BY <1>3, WithDeletedShape
  <2> HIDE DEF w
  <2>2. Deletes(d, w, m) /\ OwnersStay(d, w, Memberships \ {m})
    BY <1>2, <1>4, <2>1 DEF Deletes, SameStatus, OwnersStay
  <2>3. ApplyMembershipEvent(d, e) = Bootstrap(w)
    BY <1>5, <1>7 DEF ApplyMembershipEvent, w
  <2> QED BY <1>7, <2>1, <2>2, <2>3, ThenBootstrap, BootstrapKeeps
<1>8. CASE e.type # "deleted" /\ d.members[m].status # "none"
  <2>1. ApplyMembershipEvent(d, e) = Bootstrap(k)
    BY <1>5, <1>8 DEF ApplyMembershipEvent
  <2> QED BY <1>3, <1>6, <2>1, ThenBootstrap, BootstrapKeeps
<1>9. CASE e.type # "deleted" /\ d.members[m].status = "none"
  <2> DEFINE w == WithJoined(k, e)
  <2>1. Active(k) = Active(d)
    BY <1>4 DEF Active
  <2>2. Active(k) \intersect Of(UserOf[m]) = {}
    BY <1>9, <2>1 DEF MembershipEventAllowed
  <2>3. w \in Tables /\ Joins(k, w, m) /\ OwnersStay(k, w, Memberships \ {m})
    BY <1>3, <1>4, <1>9, <2>2, WithJoinedShape
  <2> HIDE DEF w
  <2>4. Joins(d, w, m) /\ OwnersStay(d, w, Memberships \ {m})
    BY <1>2, <1>4, <2>1, <2>3 DEF Joins, SameStatus, SameAudit, OwnersStay
  <2>5. ApplyMembershipEvent(d, e) = Bootstrap(w)
    BY <1>5, <1>9 DEF ApplyMembershipEvent, w
  <2> QED BY <2>3, <2>4, <2>5, ThenBootstrap, BootstrapKeeps
<1> QED BY <1>7, <1>8, <1>9

(* An organization event keeps every membership *)
LEMMA OrganizationEventShape ==
    ASSUME NEW d \in Tables, NEW e \in Events
    PROVE  LET r == ApplyOrganizationEvent(d, e)
           IN r \in Tables /\ Keeps(d, r) /\ OwnersStay(d, r, Memberships)
<1> DEFINE gone == [d.org EXCEPT !.status = "deleted"]
           live == [d.org EXCEPT !.status = IF @ = "disabled" THEN @ ELSE "active",
                                 !.creator = IF @ = None THEN e.creator ELSE @]
           g == [d EXCEPT !.org = gone]
           k == [d EXCEPT !.org = live]
<1>1. d.org \in OrgRow /\ e.creator \in Users \union {None}
  BY TablesParts, EventParts
<1>2. gone \in OrgRow /\ (OrgSound(d.org) => OrgSound(gone))
  BY <1>1 DEF OrgRow, OrgSound
<1>3. live \in OrgRow /\ (OrgSound(d.org) => OrgSound(live))
  BY <1>1 DEF OrgRow, OrgSound
<1>4. g \in Tables /\ k \in Tables
  BY <1>2, <1>3, TablesUpdated
<1>5. /\ g.members = d.members /\ g.reserved = d.reserved /\ g.org = gone
      /\ g.requested = d.requested /\ g.completed = d.completed
      /\ k.members = d.members /\ k.reserved = d.reserved /\ k.org = live
      /\ k.requested = d.requested /\ k.completed = d.completed
  BY DEF Tables
<1>6. ApplyOrganizationEvent(d, e) \in {g, d, Bootstrap(k)}
  <2>1. g = [d EXCEPT !.org.status = "deleted"]
    BY DEF Tables
  <2>2. k = [d EXCEPT !.org.status = IF @ = "disabled" THEN @ ELSE "active",
                      !.org.creator = IF @ = None THEN e.creator ELSE @]
    BY <1>1 DEF Tables, OrgRow
  <2> HIDE DEF g, k
  <2> QED BY <2>1, <2>2 DEF ApplyOrganizationEvent
<1> HIDE DEF g, k, gone, live
<1>7. Keeps(d, g) /\ OwnersStay(d, g, Memberships)
  BY <1>2, <1>5 DEF Keeps, SameStatus, SameAudit, OwnersStay
<1>8. Keeps(d, k) /\ OwnersStay(d, k, Memberships)
  BY <1>3, <1>5 DEF Keeps, SameStatus, SameAudit, OwnersStay
<1>9. Keeps(d, d) /\ OwnersStay(d, d, Memberships)
  BY DEF Keeps, SameStatus, SameAudit, OwnersStay
<1>10. /\ Bootstrap(k) \in Tables /\ Keeps(d, Bootstrap(k))
       /\ OwnersStay(d, Bootstrap(k), Memberships)
  <2>1. Keeps(k, Bootstrap(k)) /\ OwnersStay(k, Bootstrap(k), Memberships)
        /\ Bootstrap(k) \in Tables
    BY <1>4, BootstrapKeeps
  <2> QED BY <1>8, <2>1 DEF Keeps, SameStatus, SameAudit, OwnersStay
<1> QED BY <1>4, <1>6, <1>7, <1>8, <1>9, <1>10

(* The tables with the event in the inbox *)
LEMMA EventShape ==
    ASSUME NEW d \in Tables, NEW e \in Events, EventAllowed(d, e)
    PROVE  LET r == ApplyEvent(d, e)
               m == e.aggregate
           IN /\ r \in Tables
              /\ \/ Keeps(d, r) /\ OwnersStay(d, r, Memberships)
                 \/ m \in Memberships /\ Joins(d, r, m) /\ OwnersStay(d, r, Memberships \ {m})
                 \/ /\ m \in Memberships /\ e.type = "deleted" /\ Deletes(d, r, m)
                    /\ OwnersStay(d, r, Memberships \ {m})
<1> DEFINE k == [d EXCEPT !.inbox = @ \union {e}]
           m == e.aggregate
           r == ApplyEvent(d, e)
<1>1. d.inbox \union {e} \in SUBSET Events
  BY TablesParts
<1>2. k = [d EXCEPT !.inbox = d.inbox \union {e}]
  BY DEF Tables
<1>3. k \in Tables
  BY <1>1, <1>2, TablesUpdated
<1>4. /\ k.members = d.members /\ k.reserved = d.reserved /\ k.org = d.org
      /\ k.requested = d.requested /\ k.completed = d.completed
  BY DEF Tables
<1>5. \/ r = k
      \/ r = ApplyOrganizationEvent(k, e)
      \/ r = ApplyMembershipEvent(k, e) /\ ~Superseded(e, d.inbox) /\ m # Org
  BY DEF ApplyEvent
<1> HIDE DEF k, r
<1>7. CASE r = k
  BY <1>3, <1>4, <1>7 DEF Keeps, SameStatus, SameAudit, OwnersStay, r
<1>8. CASE r = ApplyOrganizationEvent(k, e)
  <2>1. r \in Tables /\ Keeps(k, r) /\ OwnersStay(k, r, Memberships)
    BY <1>3, <1>8, OrganizationEventShape
  <2>2. Keeps(d, r) /\ OwnersStay(d, r, Memberships)
    BY <1>4, <2>1 DEF Keeps, SameStatus, SameAudit, OwnersStay
  <2> QED BY <2>1, <2>2 DEF r
<1>9. CASE r = ApplyMembershipEvent(k, e) /\ ~Superseded(e, d.inbox) /\ m # Org
  <2>1. m \in Memberships
    BY <1>9, EventParts
  <2>2. MembershipEventAllowed(d, e)
    BY <1>9 DEF EventAllowed
  <2>3. Active(k) = Active(d)
    BY <1>4 DEF Active
  <2>4. MembershipEventAllowed(k, e)
    BY <1>4, <2>2, <2>3 DEF MembershipEventAllowed
  <2>5. /\ r \in Tables
        /\ \/ Keeps(k, r) /\ OwnersStay(k, r, Memberships)
           \/ Joins(k, r, m) /\ OwnersStay(k, r, Memberships \ {m})
           \/ /\ e.type = "deleted" /\ Deletes(k, r, m)
              /\ OwnersStay(k, r, Memberships \ {m})
    BY <1>3, <1>9, <2>1, <2>4, MembershipEventShape
  <2>6. /\ Keeps(k, r) => Keeps(d, r)
        /\ Joins(k, r, m) => Joins(d, r, m)
        /\ Deletes(k, r, m) => Deletes(d, r, m)
        /\ \A others \in SUBSET Memberships : OwnersStay(k, r, others) => OwnersStay(d, r, others)
    BY <1>4, <2>3 DEF Keeps, Joins, Deletes, SameStatus, SameAudit, OwnersStay
  <2> QED BY <2>1, <2>5, <2>6 DEF r
<1> QED BY <1>5, <1>7, <1>8, <1>9

-----------------------------------------------------------------------------
(* The requests and their outcomes *)

LEMMA RequestParts ==
    ASSUME NEW q \in Requests
    PROVE  \/ q.op = "event" /\ q.event \in Events
           \/ /\ q.op = "setRole" /\ q.actor \in Memberships
              /\ q.target \in Memberships /\ q.role \in AppRoles
           \/ /\ q.op \in {"transfer", "remove"} /\ q.actor \in Memberships
              /\ q.target \in Memberships
           \/ /\ q.op = "invite" /\ q.actor \in Memberships
              /\ q.intent \in Invitations /\ q.role \in AppRoles
           \/ q.op = "release" /\ q.target \in Memberships
           \/ q.op = "withdraw" /\ q.intent \in Invitations
           \/ q.op = "finalize" /\ q.target \in Memberships
<1>1. CASE q \in EventRequests
  BY <1>1 DEF EventRequests
<1>2. CASE q \in [op: {"setRole"}, actor: Memberships, target: Memberships, role: AppRoles]
  BY <1>2
<1>3. CASE q \in [op: {"transfer", "remove"}, actor: Memberships, target: Memberships]
  BY <1>3
<1>4. CASE q \in [op: {"invite"}, actor: Memberships, intent: Invitations, role: AppRoles]
  BY <1>4
<1>5. CASE q \in Releases
  BY <1>5 DEF Releases
<1>6. CASE q \in Withdrawals
  BY <1>6 DEF Withdrawals
<1>7. CASE q \in Finalizations
  BY <1>7 DEF Finalizations
<1> QED BY <1>1, <1>2, <1>3, <1>4, <1>5, <1>6, <1>7 DEF Requests, Commands

LEMMA SetRoleShape ==
    ASSUME NEW d \in Tables, NEW m \in Memberships, NEW role \in AppRoles
    PROVE  /\ SetRole(d, m, role) \in Tables
           /\ Keeps(d, SetRole(d, m, role))
           /\ SetRole(d, m, role).members[m].role = role
           /\ \A n \in Memberships \ {m} :
                 SetRole(d, m, role).members[n] = d.members[n]
<1> DEFINE members == [d.members EXCEPT ![m].role = role]
           r == [d EXCEPT !.members = members]
<1>1. d.members \in [Memberships -> Row]
  BY TablesParts
<1>2. members \in [Memberships -> Row]
  BY <1>1 DEF Row
<1>3. r = SetRole(d, m, role)
  BY DEF SetRole, Tables
<1>4. r \in Tables
  BY <1>2, TablesUpdated
<1>5. /\ r.members = members /\ r.reserved = d.reserved /\ r.org = d.org
      /\ r.requested = d.requested /\ r.completed = d.completed
  BY DEF Tables
<1>6. /\ members[m].role = role /\ members[m].status = d.members[m].status
      /\ \A n \in Memberships \ {m} : members[n] = d.members[n]
  BY <1>1 DEF Row
<1> HIDE DEF r, members
<1> QED BY <1>3, <1>4, <1>5, <1>6 DEF Keeps, SameStatus, SameAudit

LEMMA TransferShape ==
    ASSUME NEW d \in Tables, NEW a \in Memberships, NEW m \in Memberships, a # m
    PROVE  LET r == TransferOwnership(d, a, m)
           IN r \in Tables /\ Keeps(d, r) /\ r.members[m].role = "owner"
<1> DEFINE k == SetRole(d, m, "owner")
           r == SetRole(k, a, "admin")
<1>1. "owner" \in AppRoles /\ "admin" \in AppRoles
  BY DEF AppRoles
<1>2. k \in Tables /\ Keeps(d, k) /\ k.members[m].role = "owner"
  BY <1>1, SetRoleShape
<1>3. r = TransferOwnership(d, a, m)
  BY DEF SetRole, TransferOwnership, Tables
<1> HIDE DEF k
<1>4. r \in Tables /\ Keeps(k, r) /\ r.members[m] = k.members[m]
  BY <1>1, <1>2, SetRoleShape
<1> QED BY <1>2, <1>3, <1>4 DEF Keeps, SameStatus, SameAudit

LEMMA ReserveShape ==
    ASSUME NEW d \in Tables, NEW m \in Active(d)
    PROVE  LET r == Reserve(d, m)
           IN /\ r \in Tables
              /\ r.members = d.members
              /\ Keeps(d, r) \/ Reserves(d, r, m)
              /\ r.reserved = d.reserved \union {m}
<1> DEFINE cancels == ~d.org.bootstrapped /\ d.org.creator = UserOf[m]
           org == [d.org EXCEPT !.eligible = @ /\ ~cancels]
           requested == [d.requested EXCEPT ![m] = @ + 1]
           r == [[[d EXCEPT !.reserved = d.reserved \union {m}]
                     EXCEPT !.requested = requested] EXCEPT !.org = org]
<1>1. /\ d.org \in OrgRow /\ d.reserved \subseteq Memberships
      /\ d.requested \in [Memberships -> Nat] /\ m \in Memberships
  BY TablesParts DEF Active
<1>2. CASE m \in d.reserved
  BY <1>2 DEF Reserve, Keeps, SameStatus, SameAudit
<1>3. CASE m \notin d.reserved
  <2>1. Reserve(d, m) = r
    BY <1>3 DEF Reserve, Tables
  <2>2. org \in OrgRow /\ (OrgSound(d.org) => OrgSound(org))
    <3>1. PICK flag \in BOOLEAN : flag = (d.org.eligible /\ ~cancels)
      BY <1>1 DEF OrgRow
    <3>2. org = [d.org EXCEPT !.eligible = flag]
      BY <3>1
    <3> QED BY <1>1, <3>1, <3>2 DEF OrgRow, OrgSound
  <2>3. requested \in [Memberships -> Nat]
    BY <1>1
  <2>4. [d EXCEPT !.reserved = d.reserved \union {m}] \in Tables
    BY <1>1, TablesUpdated
  <2>5. [[d EXCEPT !.reserved = d.reserved \union {m}] EXCEPT !.requested = requested]
           \in Tables
    BY <2>3, <2>4, TablesUpdated
  <2>6. r \in Tables
    BY <2>2, <2>5, TablesUpdated
  <2>7. /\ r.members = d.members /\ r.reserved = d.reserved \union {m} /\ r.org = org
        /\ r.requested = requested /\ r.completed = d.completed
    BY DEF Tables
  <2>8. \A n \in Memberships :
           requested[n] = IF n = m THEN d.requested[n] + 1 ELSE d.requested[n]
    BY <1>1
  <2> HIDE DEF r, org, requested
  <2> QED BY <1>3, <2>1, <2>2, <2>6, <2>7, <2>8 DEF Reserves, SameStatus
<1> QED BY <1>2, <1>3

LEMMA ReleaseShape ==
    ASSUME NEW d \in Tables, NEW m \in Memberships
    PROVE  LET r == Release(d, m)
           IN r \in Tables /\ Unreserves(d, r, m) /\ r.members = d.members
<1> DEFINE r == [d EXCEPT !.reserved = d.reserved \ {m}]
<1>1. r = Release(d, m)
  BY DEF Release, Tables
<1>2. d.reserved \ {m} \in SUBSET Memberships
  BY TablesParts
<1>3. r \in Tables
  BY <1>2, TablesUpdated
<1>4. /\ r.members = d.members /\ r.reserved = d.reserved \ {m} /\ r.org = d.org
      /\ r.requested = d.requested /\ r.completed = d.completed
  BY DEF Tables
<1> HIDE DEF r
<1> QED BY <1>1, <1>3, <1>4 DEF Unreserves, SameStatus, SameAudit

LEMMA IntentShape ==
    ASSUME NEW d \in Tables, NEW i \in Invitations, NEW role \in AppRoles
    PROVE  /\ InsertIntent(d, i, role) \in Tables
           /\ Keeps(d, InsertIntent(d, i, role))
           /\ InsertIntent(d, i, role).members = d.members
           /\ DeleteIntent(d, i) \in Tables
           /\ Keeps(d, DeleteIntent(d, i))
           /\ DeleteIntent(d, i).members = d.members
<1> DEFINE inserted == [d.intents EXCEPT ![i] = [status |-> "pending", role |-> role]]
           deleted == [d.intents EXCEPT ![i].status =
                          IF @ = "pending" THEN "deleted" ELSE @]
           r == [d EXCEPT !.intents = inserted]
           s == [d EXCEPT !.intents = deleted]
<1>1. d.intents \in [Invitations -> Intent]
  BY TablesParts
<1>2. inserted \in [Invitations -> Intent]
  BY <1>1 DEF Intent, IntentStatuses
<1>3. deleted \in [Invitations -> Intent]
  BY <1>1 DEF Intent, IntentStatuses
<1>4. r = InsertIntent(d, i, role) /\ s = DeleteIntent(d, i)
  BY <1>1 DEF InsertIntent, DeleteIntent, Tables
<1>5. r \in Tables /\ s \in Tables
  BY <1>2, <1>3, TablesUpdated
<1>6. /\ r.members = d.members /\ r.reserved = d.reserved /\ r.org = d.org
      /\ r.requested = d.requested /\ r.completed = d.completed
      /\ s.members = d.members /\ s.reserved = d.reserved /\ s.org = d.org
      /\ s.requested = d.requested /\ s.completed = d.completed
  BY DEF Tables
<1> HIDE DEF r, s
<1> QED BY <1>4, <1>5, <1>6 DEF Keeps, SameStatus, SameAudit

LEMMA FinalizeShape ==
    ASSUME NEW d \in Tables, NEW m \in Memberships
    PROVE  LET r == Finalize(d, m)
           IN /\ r \in Tables
              /\ \/ Keeps(d, r) /\ r.members = d.members
                 \/ Unreserves(d, r, m) /\ r.members = d.members
                 \/ /\ m \in d.reserved /\ m \in Active(d) /\ Deletes(d, r, m)
                    /\ OwnersStay(d, r, Memberships \ {m})
<1>1. CASE m \notin d.reserved
  <2>1. Finalize(d, m) = d
    BY <1>1 DEF Finalize
  <2> QED BY <2>1 DEF Keeps, SameStatus, SameAudit
<1>2. CASE m \in d.reserved /\ m \notin Active(d)
  <2>1. Finalize(d, m) = Release(d, m)
    BY <1>2 DEF Finalize, Release
  <2> QED BY <2>1, ReleaseShape
<1>3. CASE m \in d.reserved /\ m \in Active(d)
  <2>1. Finalize(d, m) = WithDeleted(d, m)
    BY <1>3 DEF Finalize
  <2> QED BY <1>3, <2>1, WithDeletedShape
<1> QED BY <1>1, <1>2, <1>3

Deleting(q, m) ==
    \/ q.op = "event" /\ q.event.aggregate = m /\ q.event.type = "deleted"
    \/ q.op = "finalize" /\ q.target = m

Shaped(d, q, r) ==
    \/ Keeps(d, r)
    \/ \E m \in Memberships :
          \/ q.op = "event" /\ q.event.aggregate = m /\ Joins(d, r, m)
          \/ Deleting(q, m) /\ Deletes(d, r, m)
          \/ Reserves(d, r, m)
          \/ Unreserves(d, r, m)

(* The outcome of a request that is allowed *)
LEMMA OutcomeShape ==
    ASSUME NEW d \in Tables, NEW q \in Requests, Allowed(d, q)
    PROVE  LET r == Outcome(d, q)
           IN /\ r \in Tables
              /\ Shaped(d, q, r)
<1>1. CASE q.op = "event" /\ q.event \in Events
  <2>1. EventAllowed(d, q.event) /\ Outcome(d, q) = ApplyEvent(d, q.event)
    BY <1>1 DEF Allowed, Outcome
  <2> QED BY <1>1, <2>1, EventShape DEF Shaped, Deleting
<1>2. CASE q.op = "setRole" /\ q.target \in Memberships /\ q.role \in AppRoles
  <2>1. Outcome(d, q) = SetRole(d, q.target, q.role)
    BY <1>2 DEF Outcome
  <2> QED BY <1>2, <2>1, SetRoleShape DEF Shaped, Deleting
<1>3. CASE q.op = "transfer" /\ q.actor \in Memberships /\ q.target \in Memberships
  <2>1. Outcome(d, q) = TransferOwnership(d, q.actor, q.target) /\ q.actor # q.target
    BY <1>3 DEF Outcome, Allowed, TransferAllowed
  <2> QED BY <1>3, <2>1, TransferShape DEF Shaped, Deleting
<1>4. CASE q.op = "remove" /\ q.actor \in Memberships /\ q.target \in Memberships
  <2>1. Outcome(d, q) = Reserve(d, q.target) /\ RemovalAllowed(d, q.actor, q.target)
    BY <1>4 DEF Outcome, Allowed
  <2>2. q.target \in Active(d)
    BY <2>1 DEF RemovalAllowed, Locked, Effective
  <2> QED BY <1>4, <2>1, <2>2, ReserveShape DEF Shaped, Deleting
<1>5. CASE q.op = "invite" /\ q.intent \in Invitations /\ q.role \in AppRoles
  <2>1. Outcome(d, q) = InsertIntent(d, q.intent, q.role)
    BY <1>5 DEF Outcome
  <2> QED BY <1>5, <2>1, IntentShape DEF Shaped, Deleting
<1>6. CASE q.op = "release" /\ q.target \in Memberships
  <2>1. Outcome(d, q) = Release(d, q.target)
    BY <1>6 DEF Outcome
  <2> QED BY <1>6, <2>1, ReleaseShape DEF Shaped, Deleting
<1>7. CASE q.op = "withdraw" /\ q.intent \in Invitations
  <2>1. Outcome(d, q) = DeleteIntent(d, q.intent) /\ "viewer" \in AppRoles
    BY <1>7 DEF Outcome, AppRoles
  <2> QED BY <1>7, <2>1, IntentShape DEF Shaped, Deleting
<1>8. CASE q.op = "finalize" /\ q.target \in Memberships
  <2>1. Outcome(d, q) = Finalize(d, q.target)
    BY <1>8 DEF Outcome
  <2> QED BY <1>8, <2>1, FinalizeShape DEF Shaped, Deleting
<1> QED BY <1>1, <1>2, <1>3, <1>4, <1>5, <1>6, <1>7, <1>8, RequestParts

-----------------------------------------------------------------------------
(* What a shape does to the invariants of the tables *)

LEMMA AgreeKept ==
    ASSUME NEW d \in Tables, NEW q \in Requests, NEW r \in Tables,
           Agree(d), Shaped(d, q, r)
    PROVE  Agree(r)
<1>1. OrgSound(d.org) /\ (OrgSound(d.org) => OrgSound(r.org))
  BY DEF Agree, Shaped, OrgSound, Keeps, Joins, Deletes, Reserves, Unreserves
<1>2. d.reserved \subseteq Active(d) /\ \A m, n \in Active(d) : UserOf[m] = UserOf[n] => m = n
  BY DEF Agree
<1>3. CASE Keeps(d, r)
  BY <1>1, <1>2, <1>3 DEF Agree, OrgSound, Keeps, SameStatus, Active
<1>4. ASSUME NEW m \in Memberships, Joins(d, r, m)
      PROVE  Agree(r)
  <2>1. Active(r) = Active(d) \union {m}
    BY <1>4 DEF Joins, SameStatus, Active
  <2>2. \A n \in Active(d) : UserOf[n] # UserOf[m]
    BY <1>4 DEF Joins, Of, Active
  <2>3. \A n, o \in Active(r) : UserOf[n] = UserOf[o] => n = o
    BY <1>2, <2>1, <2>2
  <2>4. r.reserved = d.reserved
    BY <1>4 DEF Joins
  <2> QED BY <1>1, <1>2, <2>1, <2>3, <2>4 DEF Agree, OrgSound
<1>5. ASSUME NEW m \in Memberships, Deletes(d, r, m)
      PROVE  Agree(r)
  <2>1. Active(r) = Active(d) \ {m}
    BY <1>5 DEF Deletes, SameStatus, Active
  <2>2. r.reserved = d.reserved \ {m}
    BY <1>5 DEF Deletes
  <2> QED BY <1>1, <1>2, <2>1, <2>2 DEF Agree, OrgSound
<1>6. ASSUME NEW m \in Memberships, Reserves(d, r, m)
      PROVE  Agree(r)
  BY <1>1, <1>2, <1>6 DEF Agree, OrgSound, Reserves, SameStatus, Active
<1>7. ASSUME NEW m \in Memberships, Unreserves(d, r, m)
      PROVE  Agree(r)
  BY <1>1, <1>2, <1>7 DEF Agree, OrgSound, Unreserves, SameStatus, Active
<1> QED BY <1>3, <1>4, <1>5, <1>6, <1>7 DEF Shaped

LEMMA AccountedKept ==
    ASSUME NEW d \in Tables, NEW q \in Requests, NEW r \in Tables,
           Agree(d), Shaped(d, q, r), NEW n \in Memberships, Accounted(d, n)
    PROVE  Accounted(r, n)
<1>1. /\ d.completed \in [Memberships -> Nat] /\ d.requested \in [Memberships -> Nat]
      /\ r.completed \in [Memberships -> Nat] /\ r.requested \in [Memberships -> Nat]
  BY TablesParts
<1>2. d.reserved \subseteq Active(d) /\ Active(d) \intersect Deleted(d) = {}
  BY DEF Agree, Active, Deleted
<1>3. CASE Keeps(d, r)
  BY <1>3 DEF Accounted, Keeps, SameStatus, SameAudit, Deleted
<1>4. ASSUME NEW m \in Memberships, Joins(d, r, m)
      PROVE  Accounted(r, n)
  <2>1. n \in Deleted(d) => n \in Deleted(r)
    BY <1>4 DEF Joins, SameStatus, Deleted
  <2>2. r.reserved = d.reserved /\ r.completed = d.completed /\ r.requested = d.requested
    BY <1>4 DEF Joins, SameAudit
  <2> QED BY <2>1, <2>2 DEF Accounted
<1>5. ASSUME NEW m \in Memberships, Deletes(d, r, m)
      PROVE  Accounted(r, n)
  <2>1. n \in Deleted(d) \union {m} => n \in Deleted(r)
    BY <1>5 DEF Deletes, SameStatus, Deleted
  <2>2. /\ r.requested = d.requested
        /\ r.completed[n] = IF n = m /\ m \in d.reserved THEN d.completed[n] + 1
                                                       ELSE d.completed[n]
        /\ r.reserved = d.reserved \ {m}
    BY <1>5 DEF Deletes
  <2>3. CASE n = m /\ m \in d.reserved
    <3>1. d.completed[n] = 0
      BY <1>1, <1>2, <2>3 DEF Accounted
    <3> QED BY <1>1, <2>1, <2>2, <2>3, <3>1 DEF Accounted
  <2>4. CASE ~(n = m /\ m \in d.reserved)
    <3>1. r.completed[n] = d.completed[n] /\ (n \in r.reserved <=> n \in d.reserved)
      BY <2>2, <2>4
    <3> QED BY <2>1, <2>2, <3>1 DEF Accounted
  <2> QED BY <2>3, <2>4
<1>6. ASSUME NEW m \in Memberships, Reserves(d, r, m)
      PROVE  Accounted(r, n)
  <2>1. n \in Deleted(d) => n \in Deleted(r)
    BY <1>6 DEF Reserves, SameStatus, Deleted
  <2>2. /\ r.completed = d.completed
        /\ r.requested[n] = IF n = m THEN d.requested[n] + 1 ELSE d.requested[n]
        /\ r.reserved = d.reserved \union {m} /\ m \notin d.reserved
    BY <1>6 DEF Reserves
  <2> QED BY <1>1, <2>1, <2>2 DEF Accounted
<1>7. ASSUME NEW m \in Memberships, Unreserves(d, r, m)
      PROVE  Accounted(r, n)
  <2>1. n \in Deleted(d) => n \in Deleted(r)
    BY <1>7 DEF Unreserves, SameStatus, Deleted
  <2>2. r.completed = d.completed /\ r.requested = d.requested
        /\ r.reserved = d.reserved \ {m}
    BY <1>7 DEF Unreserves, SameAudit
  <2> QED BY <1>1, <2>1, <2>2 DEF Accounted
<1> QED BY <1>3, <1>4, <1>5, <1>6, <1>7 DEF Shaped

(* What a request is known to be founded on at Clerk: the event was sent,  *)
(* the membership to finalize was found to be gone.                        *)
Founded(q) ==
    /\ q.op = "event" => Sent(q.event)
    /\ q.op = "finalize" => clerk[q.target] = "gone"

LEMMA FollowsKept ==
    ASSUME NEW d \in Tables, NEW q \in Requests, NEW r \in Tables,
           Follows(d), Founded(q), Shaped(d, q, r)
    PROVE  Follows(r)
<1>1. CASE Keeps(d, r)
  BY <1>1 DEF Follows, Keeps, SameStatus, Active, Deleted
<1>2. ASSUME NEW m \in Memberships, q.op = "event", q.event.aggregate = m, Joins(d, r, m)
      PROVE  Follows(r)
  <2>1. clerk[m] # "none"
    BY <1>2, OrganizationAssumption DEF Founded, Sent
  <2> QED BY <1>2, <2>1 DEF Follows, Joins, SameStatus, Active, Deleted
<1>3. ASSUME NEW m \in Memberships, Deleting(q, m), Deletes(d, r, m)
      PROVE  Follows(r)
  <2>1. clerk[m] = "gone"
    BY <1>3, OrganizationAssumption DEF Founded, Sent, Deleting
  <2> QED BY <1>3, <2>1 DEF Follows, Deletes, SameStatus, Active, Deleted
<1>4. ASSUME NEW m \in Memberships, Reserves(d, r, m) \/ Unreserves(d, r, m)
      PROVE  Follows(r)
  BY <1>4 DEF Follows, Reserves, Unreserves, SameStatus, Active, Deleted
<1> QED BY <1>1, <1>2, <1>3, <1>4 DEF Shaped

-----------------------------------------------------------------------------
(* The last owner *)

(* Owners stay owners as long as they stay effective members *)
LEMMA OwnersKept ==
    ASSUME NEW d \in Tables, NEW r \in Tables, NEW others \in SUBSET Memberships,
           OwnersStay(d, r, others), NEW o \in Owners(d), o \in others,
           r.members[o].status = d.members[o].status, o \notin r.reserved
    PROVE  o \in Owners(r)
  BY DEF OwnersStay, Owners, Effective, Active

(* Two owners: one of them is not m *)
LEMMA AnotherOwner ==
    ASSUME NEW d \in Tables, ~LastOwner(d), NEW m
    PROVE  \E o \in Owners(d) : o # m
<1> SUFFICES ASSUME Owners(d) \subseteq {m}
             PROVE  FALSE
  OBVIOUS
<1>1. IsFiniteSet({m}) /\ Cardinality({m}) = 1
  BY FS_Singleton
<1>2. Cardinality(Owners(d)) <= 1
  BY <1>1, FS_Subset
<1> QED BY <1>2 DEF LastOwner

LEMMA OwnerLeft ==
    ASSUME NEW d \in Tables, NEW q \in Requests, Agree(d), Allowed(d, q),
           Owners(d) # {}, Owners(Outcome(d, q)) = {}
    PROVE  Owners(d) \intersect Deleted(Outcome(d, q)) # {}
<1> DEFINE r == Outcome(d, q)
<1>0. Owners(d) \subseteq Active(d) /\ Owners(d) \intersect d.reserved = {}
      /\ d.reserved \subseteq Active(d)
  BY DEF Owners, Effective, Agree
<1>1. CASE q.op = "event" /\ q.event \in Events
  <2> DEFINE m == q.event.aggregate
  <2>1. EventAllowed(d, q.event) /\ r = ApplyEvent(d, q.event)
    BY <1>1 DEF Allowed, Outcome
  <2>2. /\ r \in Tables
        /\ \/ Keeps(d, r) /\ OwnersStay(d, r, Memberships)
           \/ m \in Memberships /\ Joins(d, r, m) /\ OwnersStay(d, r, Memberships \ {m})
           \/ /\ m \in Memberships /\ Deletes(d, r, m)
              /\ OwnersStay(d, r, Memberships \ {m})
    BY <1>1, <2>1, EventShape
  <2> HIDE DEF r
  <2>3. PICK o \in Owners(d) : TRUE
    OBVIOUS
  <2>4. o \in Memberships /\ o \notin d.reserved /\ d.members[o].status = "active"
    BY DEF Owners, Effective, Active
  <2>5. CASE Keeps(d, r) /\ OwnersStay(d, r, Memberships)
    BY <2>2, <2>4, <2>5, OwnersKept DEF Keeps, SameStatus, r
  <2>6. CASE m \in Memberships /\ Joins(d, r, m) /\ OwnersStay(d, r, Memberships \ {m})
    <3>1. o # m
      BY <2>4, <2>6 DEF Joins
    <3> QED BY <2>2, <2>4, <2>6, <3>1, OwnersKept DEF Joins, SameStatus, r
  <2>7. CASE m \in Memberships /\ Deletes(d, r, m) /\ OwnersStay(d, r, Memberships \ {m})
    <3>1. CASE o = m
      <4>1. m \in Deleted(r)
        BY <2>7 DEF Deletes, Deleted
      <4> QED BY <2>3, <3>1, <4>1 DEF r
    <3>2. CASE o # m
      BY <2>2, <2>4, <2>7, <3>2, OwnersKept DEF Deletes, SameStatus, r
    <3> QED BY <3>1, <3>2
  <2> QED BY <2>2, <2>5, <2>6, <2>7
<1>2. CASE q.op = "setRole" /\ q.target \in Memberships /\ q.role \in AppRoles
  <2> DEFINE m == q.target
  <2>1. r = SetRole(d, m, q.role) /\ SetRoleAllowed(d, q.actor, m, q.role)
    BY <1>2 DEF Outcome, Allowed
  <2>2. /\ r \in Tables /\ Keeps(d, r) /\ r.members[m].role = q.role
        /\ \A n \in Memberships \ {m} : r.members[n] = d.members[n]
    BY <1>2, <2>1, SetRoleShape
  <2> HIDE DEF r
  <2>3. \E o \in Owners(d) : o = m => q.role = "owner"
    <3>1. CASE m \in Owners(d) /\ q.role # "owner"
      <4>1. ~LastOwner(d)
        BY <2>1, <3>1 DEF SetRoleAllowed, Owners
      <4> QED BY <4>1, AnotherOwner
    <3>2. CASE m \notin Owners(d) \/ q.role = "owner"
      BY <3>2
    <3> QED BY <3>1, <3>2
  <2>4. PICK o \in Owners(d) : o = m => q.role = "owner"
    BY <2>3
  <2>5. o \in Owners(r)
    BY <2>2, <2>4 DEF Owners, Effective, Active, Keeps, SameStatus
  <2> QED BY <2>5 DEF r
<1>3. CASE q.op = "transfer" /\ q.actor \in Memberships /\ q.target \in Memberships
  <2>1. r = TransferOwnership(d, q.actor, q.target) /\ TransferAllowed(d, q.actor, q.target)
    BY <1>3 DEF Outcome, Allowed
  <2>2. /\ q.actor # q.target /\ q.target \in Active(d) /\ q.target \notin d.reserved
    BY <2>1 DEF TransferAllowed, Locked
  <2>3. Keeps(d, r) /\ r.members[q.target].role = "owner"
    BY <1>3, <2>1, <2>2, TransferShape
  <2> HIDE DEF r
  <2>4. q.target \in Owners(r)
    BY <2>2, <2>3 DEF Owners, Effective, Active, Keeps, SameStatus
  <2> QED BY <2>4 DEF r
<1>4. CASE q.op = "remove" /\ q.actor \in Memberships /\ q.target \in Memberships
  <2>1. r = Reserve(d, q.target) /\ RemovalAllowed(d, q.actor, q.target)
    BY <1>4 DEF Outcome, Allowed
  <2>2. q.target \in Active(d)
    BY <2>1 DEF RemovalAllowed, Locked, Effective
  <2>3. r.members = d.members /\ r.reserved = d.reserved \union {q.target}
    BY <2>1, <2>2, ReserveShape
  <2> HIDE DEF r
  <2>4. \E o \in Owners(d) : o # q.target
    <3>1. CASE q.target \in Owners(d)
      <4>1. ~LastOwner(d)
        BY <2>1, <3>1 DEF RemovalAllowed, Owners
      <4> QED BY <4>1, AnotherOwner
    <3>2. CASE q.target \notin Owners(d)
      BY <3>2
    <3> QED BY <3>1, <3>2
  <2>5. PICK o \in Owners(d) : o # q.target
    BY <2>4
  <2>6. o \in Owners(r)
    BY <2>3, <2>5 DEF Owners, Effective, Active
  <2> QED BY <2>6 DEF r
<1>5. CASE /\ q.op \in {"invite", "release", "withdraw", "finalize"}
           /\ r.members = d.members /\ r.reserved \subseteq d.reserved
  BY <1>0, <1>5 DEF Owners, Effective, Active
<1>6. CASE q.op = "invite" /\ q.intent \in Invitations /\ q.role \in AppRoles
  <2>1. r = InsertIntent(d, q.intent, q.role)
    BY <1>6 DEF Outcome
  <2> QED BY <1>5, <1>6, <2>1, IntentShape DEF Keeps
<1>7. CASE q.op = "release" /\ q.target \in Memberships
  <2>1. r = Release(d, q.target)
    BY <1>7 DEF Outcome
  <2> QED BY <1>5, <1>7, <2>1, ReleaseShape DEF Unreserves
<1>8. CASE q.op = "withdraw" /\ q.intent \in Invitations
  <2>1. r = DeleteIntent(d, q.intent) /\ "viewer" \in AppRoles
    BY <1>8 DEF Outcome, AppRoles
  <2> QED BY <1>5, <1>8, <2>1, IntentShape DEF Keeps
<1>9. CASE q.op = "finalize" /\ q.target \in Memberships
  <2> DEFINE m == q.target
  <2>1. r = Finalize(d, m)
    BY <1>9 DEF Outcome
  <2>2. /\ r \in Tables
        /\ \/ Keeps(d, r) /\ r.members = d.members
           \/ Unreserves(d, r, m) /\ r.members = d.members
           \/ /\ m \in d.reserved /\ Deletes(d, r, m)
              /\ OwnersStay(d, r, Memberships \ {m})
    BY <1>9, <2>1, FinalizeShape
  <2>3. CASE r.members = d.members /\ r.reserved \subseteq d.reserved
    BY <1>5, <1>9, <2>3
  <2>4. CASE /\ m \in d.reserved /\ Deletes(d, r, m)
             /\ OwnersStay(d, r, Memberships \ {m})
    <3> HIDE DEF r
    <3>1. PICK o \in Owners(d) : TRUE
      OBVIOUS
    <3>2. o # m /\ o \in Memberships /\ o \notin d.reserved
      BY <1>0, <2>4 DEF Owners, Effective, Active
    <3>3. o \in Owners(r)
      BY <2>2, <2>4, <3>1, <3>2, OwnersKept DEF Deletes, SameStatus
    <3> QED BY <3>3 DEF r
  <2> QED BY <2>2, <2>3, <2>4 DEF Keeps, Unreserves
<1> QED BY <1>1, <1>2, <1>3, <1>4, <1>6, <1>7, <1>8, <1>9, RequestParts

-----------------------------------------------------------------------------
(* What the advisory lock gives: the tables a transaction read are still   *)
(* the tables, but for intents.                                            *)
SameMembers(d, s) ==
    /\ d.org = s.org /\ d.members = s.members /\ d.reserved = s.reserved
    /\ d.requested = s.requested /\ d.completed = s.completed

SameButIntents(d, s) == d.inbox = s.inbox /\ SameMembers(d, s)

LEMMA ChangedIsResult ==
    ASSUME NEW S, NEW T, NEW f \in [S -> T], NEW g \in [S -> T]
    PROVE  Changed(f, f, g) = g
  BY DEF Changed

LEMMA ChangedOrg ==
    ASSUME NEW f \in OrgRow, NEW g \in OrgRow
    PROVE  Changed(f, f, g) = g
<1>1. DOMAIN f = DOMAIN g /\ g = [x \in DOMAIN g |-> g[x]]
  BY DEF OrgRow
<1>2. Changed(f, f, g) = [x \in DOMAIN f |-> g[x]]
  BY DEF Changed
<1> QED BY <1>1, <1>2

LEMMA WrittenIsOutcome ==
    ASSUME NEW d \in Tables, NEW s \in Tables, NEW r \in Tables, SameButIntents(d, s)
    PROVE  Written(d, s, r) \in Tables /\ SameMembers(Written(d, s, r), r)
<1> DEFINE inbox == d.inbox \union (r.inbox \ s.inbox)
           reserved == (d.reserved \ (s.reserved \ r.reserved))
                       \union (r.reserved \ s.reserved)
           intents == Changed(d.intents, s.intents, r.intents)
<1>1. /\ d.intents \in [Invitations -> Intent] /\ r.intents \in [Invitations -> Intent]
      /\ d.inbox \subseteq Events /\ r.inbox \subseteq Events
      /\ d.reserved = s.reserved /\ r.reserved \subseteq Memberships
      /\ d.org = s.org /\ d.org \in OrgRow /\ r.org \in OrgRow
      /\ d.members = s.members /\ d.members \in [Memberships -> Row]
      /\ r.members \in [Memberships -> Row]
      /\ d.requested = s.requested /\ d.requested \in [Memberships -> Nat]
      /\ r.requested \in [Memberships -> Nat]
      /\ d.completed = s.completed /\ d.completed \in [Memberships -> Nat]
      /\ r.completed \in [Memberships -> Nat]
  BY TablesParts DEF SameButIntents, SameMembers
<1>2. reserved = r.reserved
  BY <1>1
<1>3. /\ Changed(d.org, s.org, r.org) = r.org
      /\ Changed(d.members, s.members, r.members) = r.members
      /\ Changed(d.requested, s.requested, r.requested) = r.requested
      /\ Changed(d.completed, s.completed, r.completed) = r.completed
  <2>1. Changed(d.org, d.org, r.org) = r.org
    BY <1>1, ChangedOrg
  <2>2. Changed(d.members, d.members, r.members) = r.members
    BY <1>1, ChangedIsResult
  <2>3. Changed(d.requested, d.requested, r.requested) = r.requested
    BY <1>1, ChangedIsResult
  <2>4. Changed(d.completed, d.completed, r.completed) = r.completed
    BY <1>1, ChangedIsResult
  <2> QED BY <1>1, <2>1, <2>2, <2>3, <2>4
<1>4. intents \in [Invitations -> Intent]
  BY <1>1 DEF Changed
<1>5. inbox \in SUBSET Events
  BY <1>1
<1>6. Written(d, s, r) =
         [inbox |-> inbox, org |-> r.org, members |-> r.members,
          reserved |-> r.reserved, intents |-> intents,
          requested |-> r.requested, completed |-> r.completed]
  BY <1>2, <1>3 DEF Written
<1> HIDE DEF inbox, intents, reserved
<1>7. Written(d, s, r) \in Tables
  <2>1. [inbox |-> inbox, org |-> r.org, members |-> r.members,
         reserved |-> r.reserved, intents |-> intents,
         requested |-> r.requested, completed |-> r.completed] \in Tables
    BY <1>1, <1>4, <1>5 DEF Tables, Row, Intent, OrgRow
  <2> QED BY <1>6, <2>1
<1>8. SameMembers(Written(d, s, r), r)
  BY <1>6 DEF SameMembers
<1> QED BY <1>7, <1>8

LEMMA SameMembersSame ==
    ASSUME NEW d, NEW s, SameMembers(d, s)
    PROVE  /\ Agree(d) <=> Agree(s)
           /\ Follows(d) <=> Follows(s)
           /\ \A m \in Memberships : Accounted(d, m) <=> Accounted(s, m)
           /\ Owners(d) = Owners(s) /\ Deleted(d) = Deleted(s)
  BY DEF SameMembers, Agree, Follows, Accounted, Owners, Effective, Active, Deleted

(* No decision depends on the intents *)
LEMMA SameAllowed ==
    ASSUME NEW d, NEW s, SameButIntents(d, s), NEW q \in Requests
    PROVE  Allowed(d, q) <=> Allowed(s, q)
<1>1. d.inbox = s.inbox /\ d.org = s.org /\ d.members = s.members
      /\ d.reserved = s.reserved
  BY DEF SameButIntents, SameMembers
<1>2. Active(d) = Active(s) /\ Effective(d) = Effective(s) /\ Owners(d) = Owners(s)
  BY <1>1 DEF Active, Effective, Owners
<1>3. \A e \in Events : EventAllowed(d, e) <=> EventAllowed(s, e)
  BY <1>1, <1>2 DEF EventAllowed, OrganizationEventAllowed, MembershipEventAllowed
<1>4. LastOwner(d) <=> LastOwner(s)
  BY <1>2 DEF LastOwner
<1>5. \A a, m \in Memberships : Locked(d, a, m) <=> Locked(s, a, m)
  BY <1>2 DEF Locked
<1>6. \A a, m \in Memberships, role \in AppRoles :
         SetRoleAllowed(d, a, m, role) <=> SetRoleAllowed(s, a, m, role)
  BY <1>1, <1>4, <1>5 DEF SetRoleAllowed
<1>7. \A a, m \in Memberships : TransferAllowed(d, a, m) <=> TransferAllowed(s, a, m)
  BY <1>1, <1>5 DEF TransferAllowed
<1>8. \A a, m \in Memberships : RemovalAllowed(d, a, m) <=> RemovalAllowed(s, a, m)
  BY <1>1, <1>4, <1>5 DEF RemovalAllowed
<1>9. \A a \in Memberships, role \in AppRoles :
         InviteAllowed(d, a, role) <=> InviteAllowed(s, a, role)
  BY <1>1, <1>2 DEF InviteAllowed
<1> QED BY <1>3, <1>6, <1>7, <1>8, <1>9, RequestParts DEF Allowed

-----------------------------------------------------------------------------
(* The invariant *)

(* The processes, the lock and what was read under it *)
ProcessesOK ==
    /\ lock \in Processes \union {Nobody}
    /\ pc \in [Processes -> Steps]
    /\ request \in [Processes -> Requests \union {NoRequest}]
    /\ seen \in [Processes -> Tables \union {NoTables}]
    /\ \A p \in Processes :
          /\ pc[p] # "idle" => request[p] \in Requests
          /\ pc[p] = "locked" => lock = p /\ seen[p] \in Tables
    /\ lock # Nobody => pc[lock] = "locked"

(* Clerk and the counters *)
OutsideOK ==
    /\ batch \subseteq Memberships
    /\ clerk \in [Memberships -> {"none", "member", "gone"}]
    /\ invited \subseteq Invitations
    /\ late \subseteq Users
    /\ commands \in 0..MaxCommands
    /\ faults \in 0..MaxFaults

TypeParts == db \in Tables /\ ProcessesOK /\ OutsideOK

LEMMA TypeSplit == TypeOK <=> TypeParts
  BY DEF TypeOK, TypeParts, ProcessesOK, OutsideOK

Snapshots ==
    \A p \in Processes : pc[p] = "locked" => SameButIntents(db, seen[p])

WellFounded ==
    /\ \A p \in Processes : request[p] \in Requests => Founded(request[p])
    /\ \A m \in batch : clerk[m] # "none"

TablesSound ==
    /\ Agree(db)
    /\ Follows(db)
    /\ \A m \in Memberships : Accounted(db, m)

IInv == TypeParts /\ Snapshots /\ WellFounded /\ TablesSound

(* A process outside a transaction moves on *)
LEMMA BecomesOK ==
    ASSUME ProcessesOK, NEW p \in Processes, pc[p] # "locked",
           NEW step \in Steps \ {"locked"}, NEW q \in Requests \union {NoRequest},
           step # "idle" => q \in Requests, Becomes(p, step, q), UNCHANGED <<lock, seen>>
    PROVE  /\ ProcessesOK'
           /\ \A o \in Processes :
                 /\ pc'[o] = "locked" => pc[o] = "locked"
                 /\ request'[o] = IF o = p THEN q ELSE request[o]
<1>1. /\ pc' \in [Processes -> Steps]
      /\ request' \in [Processes -> Requests \union {NoRequest}]
  BY DEF ProcessesOK, Becomes
<1>2. \A o \in Processes :
         /\ pc'[o] = IF o = p THEN step ELSE pc[o]
         /\ request'[o] = IF o = p THEN q ELSE request[o]
  BY DEF ProcessesOK, Becomes
<1>3. \A o \in Processes : /\ pc'[o] # "idle" => request'[o] \in Requests
                           /\ pc'[o] = "locked" => lock' = o /\ seen'[o] \in Tables
  BY <1>2 DEF ProcessesOK
<1>4. lock' # Nobody => pc'[lock'] = "locked"
  BY <1>2 DEF ProcessesOK
<1> QED BY <1>1, <1>2, <1>3, <1>4 DEF ProcessesOK

(* A transaction ends, or the wait for the lock is given up *)
LEMMA CloseOK ==
    ASSUME ProcessesOK, NEW p \in Processes, Close(p),
           NEW step \in Steps \ {"locked"}, NEW q \in Requests \union {NoRequest},
           step # "idle" => q \in Requests, Becomes(p, step, q)
    PROVE  /\ ProcessesOK'
           /\ \A o \in Processes :
                 /\ pc'[o] = "locked" => pc[o] = "locked" /\ o # p
                                         /\ seen'[o] = seen[o]
                 /\ request'[o] = IF o = p THEN q ELSE request[o]
<1>1. /\ pc' \in [Processes -> Steps]
      /\ request' \in [Processes -> Requests \union {NoRequest}]
      /\ seen' \in [Processes -> Tables \union {NoTables}]
      /\ lock' \in Processes \union {Nobody}
  BY DEF ProcessesOK, Becomes, Close
<1>2. \A o \in Processes :
         /\ pc'[o] = IF o = p THEN step ELSE pc[o]
         /\ request'[o] = IF o = p THEN q ELSE request[o]
         /\ o # p => seen'[o] = seen[o]
  BY DEF ProcessesOK, Becomes, Close
<1>3. lock' = IF lock = p THEN Nobody ELSE lock
  BY DEF Close
<1>4. \A o \in Processes : /\ pc'[o] # "idle" => request'[o] \in Requests
                           /\ pc'[o] = "locked" => lock' = o /\ seen'[o] \in Tables
  BY <1>2, <1>3 DEF ProcessesOK
<1>5. lock' # Nobody => pc'[lock'] = "locked"
  BY <1>2, <1>3, ProcessesAssumption DEF ProcessesOK
<1> QED BY <1>1, <1>2, <1>4, <1>5 DEF ProcessesOK

LEMMA TakeLockOK ==
    ASSUME ProcessesOK, db \in Tables, NEW p \in Processes, TakeLock(p)
    PROVE  /\ ProcessesOK'
           /\ \A o \in Processes : pc'[o] = "locked" => o = p /\ seen'[o] = db
           /\ request' = request
<1>1. /\ pc' \in [Processes -> Steps]
      /\ request' \in [Processes -> Requests \union {NoRequest}]
      /\ seen' \in [Processes -> Tables \union {NoTables}]
      /\ lock' \in Processes \union {Nobody}
  BY DEF ProcessesOK, TakeLock, Steps
<1>2. \A o \in Processes : /\ pc'[o] = IF o = p THEN "locked" ELSE pc[o]
                           /\ seen'[o] = IF o = p THEN db ELSE seen[o]
  BY DEF ProcessesOK, TakeLock
<1>3. lock = Nobody /\ lock' = p /\ request' = request /\ pc[p] = "waiting"
  BY DEF TakeLock, LockFree
<1>4. \A o \in Processes : pc[o] # "locked"
  BY <1>3, ProcessesAssumption DEF ProcessesOK
<1>5. \A o \in Processes : /\ pc'[o] # "idle" => request'[o] \in Requests
                           /\ pc'[o] = "locked" => lock' = o /\ seen'[o] \in Tables
  BY <1>2, <1>3, <1>4 DEF ProcessesOK
<1>6. lock' # Nobody => pc'[lock'] = "locked"
  BY <1>2, <1>3
<1> QED BY <1>1, <1>2, <1>3, <1>4, <1>5, <1>6 DEF ProcessesOK

(* Clerk's memberships only go from none to member to gone *)
ClerkAdvances ==
    \A m \in Memberships : /\ clerk[m] = "gone" => clerk'[m] = "gone"
                           /\ clerk[m] # "none" => clerk'[m] # "none"

LEMMA StillFounded ==
    ASSUME ClerkAdvances, NEW q \in Requests, Founded(q)
    PROVE  Founded(q)'
<1>1. CASE q.op = "event" /\ q.event \in Events
  <2>1. q.event.aggregate \in Memberships \union {Org}
    BY <1>1, EventParts
  <2> QED BY <1>1, <2>1 DEF Founded, Sent, ClerkAdvances
<1>2. CASE q.op = "finalize" /\ q.target \in Memberships
  BY <1>2 DEF Founded, ClerkAdvances
<1>3. CASE q.op \notin {"event", "finalize"}
  BY <1>3 DEF Founded
<1> QED BY <1>1, <1>2, <1>3, RequestParts

LEMMA StillSound ==
    ASSUME TablesSound, ClerkAdvances, SameMembers(db', db)
    PROVE  TablesSound'
<1>1. Agree(db') /\ Follows(db') /\ \A m \in Memberships : Accounted(db', m)
  BY SameMembersSame DEF TablesSound
<1>2. Follows(db)'
  BY <1>1 DEF Follows, ClerkAdvances, Active, Deleted
<1> QED BY <1>1, <1>2 DEF TablesSound

(* A step of one process outside a transaction, while Clerk may advance *)
LEMMA OutsideStep ==
    ASSUME IInv, NEW p \in Processes, pc[p] # "locked",
           NEW step \in Steps \ {"locked"}, NEW q \in Requests \union {NoRequest},
           step # "idle" => q \in Requests, Becomes(p, step, q),
           q \in Requests => Founded(q), ClerkAdvances, OutsideOK', batch' \subseteq batch,
           UNCHANGED <<db, lock, seen>>
    PROVE  IInv'
<1>1. /\ ProcessesOK'
      /\ \A o \in Processes :
            /\ pc'[o] = "locked" => pc[o] = "locked"
            /\ request'[o] = IF o = p THEN q ELSE request[o]
  BY BecomesOK DEF IInv, TypeParts
<1>2. Snapshots'
  BY <1>1 DEF IInv, Snapshots
<1>3. \A o \in Processes : request'[o] \in Requests => Founded(request'[o])
  BY <1>1 DEF IInv, WellFounded
<1>4. WellFounded'
  <2>1. SUFFICES ASSUME NEW o \in Processes, request'[o] \in Requests
                 PROVE  Founded(request[o])'
    BY DEF IInv, WellFounded, TypeParts, OutsideOK, ClerkAdvances
  <2>2. PICK w \in Requests : w = request'[o]
    BY <2>1
  <2>3. Founded(w)'
    BY <1>3, <2>1, <2>2, StillFounded
  <2> QED BY <2>2, <2>3 DEF Founded, Sent
<1>5. TablesSound'
  BY StillSound DEF IInv, SameMembers
<1> QED BY <1>1, <1>2, <1>4, <1>5 DEF IInv, TypeParts

(* A step that no process takes *)
LEMMA EnvironmentStep ==
    ASSUME IInv, UNCHANGED <<pc, request, lock, seen>>, db' \in Tables,
           SameButIntents(db', db), ClerkAdvances, OutsideOK',
           \A m \in batch' : clerk[m] # "none"
    PROVE  IInv'
<1>1. ProcessesOK'
  BY DEF IInv, TypeParts, ProcessesOK
<1>2. Snapshots'
  BY DEF IInv, Snapshots, SameButIntents, SameMembers
<1>3. WellFounded'
  <2>1. SUFFICES ASSUME NEW o \in Processes, request'[o] \in Requests
                 PROVE  Founded(request[o])'
    BY DEF IInv, TypeParts, OutsideOK, WellFounded, ClerkAdvances
  <2>2. PICK w \in Requests : w = request'[o] /\ w = request[o]
    BY <2>1
  <2>3. Founded(w)'
    BY <2>2, StillFounded DEF IInv, WellFounded
  <2> QED BY <2>2, <2>3 DEF Founded, Sent
<1>4. TablesSound'
  BY StillSound DEF IInv, SameButIntents
<1> QED BY <1>1, <1>2, <1>3, <1>4 DEF IInv, TypeParts

-----------------------------------------------------------------------------
(* Every step preserves the invariant *)

LEMMA InitOK == Init => IInv
<1> SUFFICES ASSUME Init PROVE IInv
  OBVIOUS
<1>1. EmptyTables \in Tables
  BY OrganizationAssumption DEF EmptyTables, Tables, RowStatuses, AppRoles, IntentStatuses
<1>2. ProcessesOK
  BY ProcessesAssumption DEF Init, ProcessesOK, Steps
<1>3. OutsideOK
  BY ProcessesAssumption DEF Init, OutsideOK
<1>4. Snapshots /\ WellFounded
  BY ProcessesAssumption DEF Init, Snapshots, WellFounded
<1>5. /\ Active(db) = {} /\ Deleted(db) = {}
      /\ db.reserved = {} /\ ~db.org.bootstrapped
      /\ \A m \in Memberships : db.completed[m] = 0 /\ db.requested[m] = 0
  BY DEF Init, EmptyTables, Active, Deleted
<1>6. TablesSound
  BY <1>5 DEF TablesSound, Agree, Follows, Accounted
<1> QED BY <1>1, <1>2, <1>3, <1>4, <1>6 DEF Init, IInv, TypeParts

LEMMA WithoutMemberAdvances ==
    ASSUME OutsideOK, NEW user, clerk' = WithoutMember(user)
    PROVE  /\ clerk' \in [Memberships -> {"none", "member", "gone"}]
           /\ ClerkAdvances
  BY DEF OutsideOK, WithoutMember, Members, Of, ClerkAdvances

LEMMA ClerkKeepsInv ==
    ASSUME IInv, ClerkStep
    PROVE  IInv'
<1>0. OutsideOK /\ db \in Tables
  BY DEF IInv, TypeParts
<1>1. ASSUME NEW m \in Memberships, ClerkJoins(m)
      PROVE  IInv'
  <2>1. OutsideOK' /\ ClerkAdvances
    BY <1>0, <1>1 DEF OutsideOK, ClerkJoins, ClerkAdvances
  <2> QED BY <1>0, <1>1, <2>1, EnvironmentStep
          DEF ClerkJoins, IInv, WellFounded, SameMembers, SameButIntents
<1>2. ASSUME NEW m \in Memberships, ClerkRemoves(m)
      PROVE  IInv'
  <2>1. OutsideOK' /\ ClerkAdvances
    BY <1>0, <1>2, ProcessesAssumption DEF OutsideOK, ClerkRemoves, ClerkAdvances
  <2> QED BY <1>0, <1>2, <2>1, EnvironmentStep
          DEF ClerkRemoves, IInv, WellFounded, SameMembers, SameButIntents
<1>3. ASSUME NEW user \in Users, ClerkRemovesLate(user)
      PROVE  IInv'
  <2>1. clerk' = WithoutMember(user)
    BY <1>3 DEF ClerkRemovesLate
  <2>2. OutsideOK' /\ ClerkAdvances
    BY <1>0, <1>3, <2>1, WithoutMemberAdvances DEF OutsideOK, ClerkRemovesLate
  <2> QED BY <1>0, <1>3, <2>2, EnvironmentStep
          DEF ClerkRemovesLate, IInv, WellFounded, SameMembers, SameButIntents
<1> QED BY <1>1, <1>2, <1>3 DEF ClerkStep

LEMMA CommitOK ==
    ASSUME IInv, NEW p \in Processes, Commit(p)
    PROVE  LET r == Outcome(seen[p], request[p])
           IN /\ seen[p] \in Tables /\ request[p] \in Requests
              /\ SameButIntents(db, seen[p])
              /\ Allowed(seen[p], request[p])
              /\ r \in Tables
              /\ Shaped(seen[p], request[p], r)
              /\ db' \in Tables
              /\ SameMembers(db', r)
<1>1. pc[p] = "locked" /\ Allowed(seen[p], request[p])
      /\ db' = Written(db, seen[p], Outcome(seen[p], request[p]))
  BY DEF Commit
<1>2. seen[p] \in Tables /\ request[p] \in Requests /\ SameButIntents(db, seen[p])
      /\ db \in Tables
  BY <1>1 DEF IInv, TypeParts, ProcessesOK, Snapshots
<1>3. PICK s \in Tables, q \in Requests : s = seen[p] /\ q = request[p]
  BY <1>2
<1>4. Outcome(s, q) \in Tables /\ Shaped(s, q, Outcome(s, q))
  BY <1>1, <1>3, OutcomeShape
<1>5. Written(db, s, Outcome(s, q)) \in Tables
      /\ SameMembers(Written(db, s, Outcome(s, q)), Outcome(s, q))
  BY <1>2, <1>3, <1>4, WrittenIsOutcome
<1> QED BY <1>1, <1>2, <1>3, <1>4, <1>5

LEMMA CommitKeepsInv ==
    ASSUME IInv, NEW p \in Processes, Commit(p)
    PROVE  IInv'
<1>1. PICK s \in Tables, q \in Requests :
         /\ s = seen[p] /\ q = request[p] /\ SameButIntents(db, s)
         /\ Outcome(s, q) \in Tables /\ Shaped(s, q, Outcome(s, q))
         /\ db' \in Tables /\ SameMembers(db', Outcome(s, q))
  BY CommitOK
<1>2. /\ pc[p] = "locked" /\ Close(p)
      /\ \/ Becomes(p, "calling", q)
         \/ Becomes(p, "idle", NoRequest)
      /\ UNCHANGED <<batch, clerk, invited, late, commands, faults>>
  BY <1>1 DEF Commit
<1>3. /\ ProcessesOK'
      /\ \A o \in Processes :
            /\ pc'[o] = "locked" => pc[o] = "locked" /\ o # p
            /\ request'[o] \in {request[o], q, NoRequest}
  <2>1. ProcessesOK
    BY DEF IInv, TypeParts
  <2> QED BY <1>2, <2>1, CloseOK DEF Steps
<1>4. lock = p
  BY <1>2 DEF IInv, TypeParts, ProcessesOK
<1>5. Snapshots'
  BY <1>2, <1>3, <1>4 DEF IInv, TypeParts, ProcessesOK, Snapshots
<1>6. Founded(q)
  BY <1>1 DEF IInv, WellFounded
<1>7. WellFounded'
  <2>1. SUFFICES ASSUME NEW o \in Processes, request'[o] \in Requests
                 PROVE  Founded(request[o])'
    BY <1>2 DEF IInv, WellFounded
  <2>2. PICK w \in Requests : w = request'[o]
    BY <2>1
  <2>3. w = q \/ w = request[o]
    BY <1>3, <2>2, ProcessesAssumption
  <2>4. Founded(w)
    BY <1>6, <2>2, <2>3 DEF IInv, WellFounded
  <2>5. clerk' = clerk
    BY <1>2
  <2> QED BY <2>2, <2>4, <2>5 DEF Founded, Sent
<1>8. Agree(s) /\ Follows(s) /\ \A m \in Memberships : Accounted(s, m)
  BY <1>1, SameMembersSame DEF IInv, TablesSound, SameButIntents
<1>9. /\ Agree(Outcome(s, q)) /\ Follows(Outcome(s, q))
      /\ \A m \in Memberships : Accounted(Outcome(s, q), m)
  BY <1>1, <1>6, <1>8, AgreeKept, FollowsKept, AccountedKept
<1>10. Agree(db') /\ Follows(db') /\ \A m \in Memberships : Accounted(db', m)
  BY <1>1, <1>9, SameMembersSame
<1>11. TablesSound'
  BY <1>2, <1>10 DEF TablesSound, Follows, Active, Deleted
<1>12. OutsideOK'
  BY <1>2 DEF IInv, TypeParts, OutsideOK
<1> QED BY <1>1, <1>3, <1>5, <1>7, <1>11, <1>12 DEF IInv, TypeParts

LEMMA TransactionKeepsInv ==
    ASSUME IInv, TransactionStep
    PROVE  IInv'
<1>0. ProcessesOK /\ OutsideOK /\ db \in Tables
  BY DEF IInv, TypeParts
<1>1. ASSUME NEW p \in Processes, TakeLock(p)
      PROVE  IInv'
  <2>1. /\ ProcessesOK'
        /\ \A o \in Processes : pc'[o] = "locked" => o = p /\ seen'[o] = db
        /\ request' = request
    BY <1>0, <1>1, TakeLockOK
  <2>2. UNCHANGED <<db, batch, clerk, invited, late, commands, faults>>
    BY <1>1 DEF TakeLock
  <2>3. Snapshots'
    BY <2>1, <2>2 DEF Snapshots, SameButIntents, SameMembers
  <2>4. WellFounded'
    BY <2>1, <2>2 DEF IInv, WellFounded, Founded, Sent
  <2>5. TablesSound' /\ OutsideOK'
    BY <2>2 DEF IInv, TypeParts, OutsideOK, TablesSound, Follows
  <2> QED BY <1>0, <2>1, <2>2, <2>3, <2>4, <2>5 DEF IInv, TypeParts
<1>2. ASSUME NEW p \in Processes, Commit(p)
      PROVE  IInv'
  BY <1>2, CommitKeepsInv
<1>3. ASSUME NEW p \in Processes, Close(p), Becomes(p, "idle", NoRequest),
             UNCHANGED <<db, clerk>>, batch' \subseteq batch, OutsideOK'
      PROVE  IInv'
  <2>1. /\ ProcessesOK'
        /\ \A o \in Processes :
              /\ pc'[o] = "locked" => pc[o] = "locked" /\ o # p /\ seen'[o] = seen[o]
              /\ request'[o] \in {request[o], NoRequest}
    BY <1>0, <1>3, CloseOK DEF Steps
  <2>2. Snapshots'
    BY <1>3, <2>1 DEF IInv, Snapshots
  <2>3. WellFounded'
    BY <1>3, <2>1, ProcessesAssumption DEF IInv, WellFounded, Founded, Sent
  <2>4. TablesSound'
    BY <1>3 DEF IInv, TablesSound, Follows
  <2> QED BY <1>0, <1>3, <2>1, <2>2, <2>3, <2>4 DEF IInv, TypeParts
<1>4. ASSUME NEW p \in Processes, Refuse(p)
      PROVE  IInv'
  BY <1>0, <1>3, <1>4 DEF Refuse, OutsideOK
<1>5. ASSUME NEW p \in Processes, Abort(p)
      PROVE  IInv'
  <2>1. batch' \subseteq batch
    BY <1>5 DEF Abort
  <2>2. OutsideOK'
    BY <1>0, <1>5, <2>1, ProcessesAssumption DEF Abort, OutsideOK
  <2> QED BY <1>3, <1>5, <2>1, <2>2 DEF Abort
<1> QED BY <1>1, <1>2, <1>4, <1>5 DEF TransactionStep

LEMMA WorkerKeepsInv ==
    ASSUME IInv, WorkerStep
    PROVE  IInv' \/ UNCHANGED vars
<1>1. ASSUME NEW w \in Workers, NEW e \in Events, Deliver(w, e)
      PROVE  IInv'
  <2> DEFINE q == [op |-> "event", event |-> e]
  <2>1. q \in Requests /\ Founded(q)
    BY <1>1 DEF Deliver, Requests, EventRequests, Founded
  <2>2. Becomes(w, "waiting", q) /\ pc[w] # "locked" /\ w \in Processes
    BY <1>1 DEF Deliver, Processes
  <2>3. ClerkAdvances /\ OutsideOK' /\ batch' \subseteq batch /\ UNCHANGED <<db, lock, seen>>
    BY <1>1 DEF Deliver, ClerkAdvances, IInv, TypeParts, OutsideOK
  <2> HIDE DEF q
  <2> QED BY <2>1, <2>2, <2>3, OutsideStep DEF Steps
<1>2. ASSUME NEW w \in Workers, NEW e \in Events, DeliverDuplicate(w, e)
      PROVE  UNCHANGED vars
  BY <1>2 DEF DeliverDuplicate
<1> QED BY <1>1, <1>2 DEF WorkerStep

LEMMA SessionKeepsInv ==
    ASSUME IInv, SessionStep
    PROVE  IInv'
<1>0. OutsideOK /\ ProcessesOK /\ Sessions \subseteq Processes
  BY DEF IInv, TypeParts, Processes
<1>1. ASSUME NEW s \in Sessions, NEW q \in Commands, Command(s, q)
      PROVE  IInv'
  <2>1. q \in Requests /\ q.op \in {"setRole", "transfer", "remove", "invite"}
    BY DEF Requests, Commands
  <2>2. Becomes(s, "waiting", q) /\ pc[s] # "locked" /\ Founded(q)
    BY <1>1, <2>1 DEF Command, Founded
  <2>3. ClerkAdvances /\ OutsideOK' /\ batch' \subseteq batch /\ UNCHANGED <<db, lock, seen>>
    BY <1>0, <1>1, ProcessesAssumption DEF Command, ClerkAdvances, OutsideOK
  <2> QED BY <1>0, <2>1, <2>2, <2>3, OutsideStep DEF Steps
<1>2. ASSUME NEW s \in Sessions, pc[s] # "locked", Becomes(s, "idle", NoRequest),
             ClerkAdvances, OutsideOK', UNCHANGED <<db, lock, seen, batch>>
      PROVE  IInv'
  BY <1>0, <1>2, OutsideStep, ProcessesAssumption DEF Steps
<1>3. ASSUME NEW s \in Sessions, pc[s] # "locked", NEW q \in Releases \union Withdrawals,
             Becomes(s, "waiting", q),
             ClerkAdvances, OutsideOK', UNCHANGED <<db, lock, seen, batch>>
      PROVE  IInv'
  <2>1. q \in Requests /\ Founded(q)
    BY <1>3 DEF Requests, Releases, Withdrawals, Founded
  <2> QED BY <1>0, <1>3, <2>1, OutsideStep DEF Steps
<1>4. ASSUME NEW s \in Sessions, RemovalAnswered(s)
      PROVE  IInv'
  <2>1. clerk' = WithoutMember(UserOf[request[s].target])
    BY <1>4 DEF RemovalAnswered
  <2>2. ClerkAdvances /\ OutsideOK'
    BY <1>0, <1>4, <2>1, WithoutMemberAdvances DEF RemovalAnswered, OutsideOK
  <2> QED BY <1>2, <1>4, <2>2 DEF RemovalAnswered
<1>5. ASSUME NEW s \in Sessions, pc[s] = "calling"
      PROVE  /\ request[s].op = "remove" => request[s].target \in Memberships
             /\ request[s].op = "invite" => request[s].intent \in Invitations
  <2>1. PICK q \in Requests : q = request[s]
    BY <1>0, <1>5 DEF ProcessesOK
  <2> QED BY <2>1, RequestParts
<1>6. ASSUME NEW s \in Sessions, RemovalRefused(s)
      PROVE  IInv'
  <2>1. [op |-> "release", target |-> request[s].target] \in Releases
    BY <1>5, <1>6 DEF RemovalRefused, Releases
  <2>2. ClerkAdvances /\ OutsideOK'
    BY <1>0, <1>6, ProcessesAssumption DEF RemovalRefused, OutsideOK, ClerkAdvances
  <2> QED BY <1>3, <1>6, <2>1, <2>2 DEF RemovalRefused
<1>7. ASSUME NEW s \in Sessions, RemovalUnanswered(s)
      PROVE  IInv'
  <2>1. UserOf[request[s].target] \in Users
    BY <1>5, <1>7, OrganizationAssumption DEF RemovalUnanswered
  <2>2. ClerkAdvances /\ OutsideOK'
    BY <1>0, <1>7, <2>1, ProcessesAssumption DEF RemovalUnanswered, OutsideOK, ClerkAdvances
  <2> QED BY <1>2, <1>7, <2>2 DEF RemovalUnanswered
<1>8. ASSUME NEW s \in Sessions, InvitationAnswered(s)
      PROVE  IInv'
  <2>1. ClerkAdvances /\ OutsideOK'
    BY <1>0, <1>5, <1>8 DEF InvitationAnswered, OutsideOK, ClerkAdvances
  <2> QED BY <1>2, <1>8, <2>1 DEF InvitationAnswered
<1>9. ASSUME NEW s \in Sessions, InvitationRefused(s)
      PROVE  IInv'
  <2>1. [op |-> "withdraw", intent |-> request[s].intent] \in Withdrawals
    BY <1>5, <1>9 DEF InvitationRefused, Withdrawals
  <2>2. ClerkAdvances /\ OutsideOK'
    BY <1>0, <1>9, ProcessesAssumption DEF InvitationRefused, OutsideOK, ClerkAdvances
  <2> QED BY <1>3, <1>9, <2>1, <2>2 DEF InvitationRefused
<1>10. ASSUME NEW s \in Sessions, InvitationUnanswered(s)
       PROVE  IInv'
  <2>1. ClerkAdvances /\ OutsideOK'
    BY <1>0, <1>5, <1>10, ProcessesAssumption
       DEF InvitationUnanswered, OutsideOK, ClerkAdvances
  <2> QED BY <1>2, <1>10, <2>1 DEF InvitationUnanswered
<1> QED BY <1>1, <1>4, <1>6, <1>7, <1>8, <1>9, <1>10 DEF SessionStep

LEMMA MaintenanceKeepsInv ==
    ASSUME IInv, MaintenanceStep
    PROVE  IInv'
<1>0. OutsideOK /\ ProcessesOK /\ db \in Tables /\ Maintenance \in Processes
  BY DEF IInv, TypeParts, Processes
<1>1. ASSUME NEW old \in SUBSET Memberships, ListRemovals(old)
      PROVE  IInv'
  <2>1. \A m \in db.reserved : m \in Memberships /\ clerk[m] # "none"
    BY DEF IInv, TablesSound, Agree, Follows, Active
  <2>2. ClerkAdvances /\ OutsideOK' /\ \A m \in batch' : clerk[m] # "none"
    BY <1>0, <1>1, <2>1 DEF ListRemovals, OutsideOK, ClerkAdvances
  <2> QED BY <1>0, <1>1, <2>2, EnvironmentStep
          DEF ListRemovals, SameButIntents, SameMembers
<1>2. CASE PresenceUnknown
  <2>1. ClerkAdvances /\ OutsideOK'
    BY <1>0, <1>2, ProcessesAssumption DEF PresenceUnknown, OutsideOK, ClerkAdvances
  <2> QED BY <1>0, <1>2, <2>1, EnvironmentStep
          DEF PresenceUnknown, SameButIntents, SameMembers
<1>3. ASSUME NEW m \in Memberships, FindPresent(m)
      PROVE  IInv'
  <2>1. ClerkAdvances /\ OutsideOK' /\ batch' \subseteq batch
    BY <1>0, <1>3 DEF FindPresent, OutsideOK, ClerkAdvances
  <2>2. \A n \in batch' : clerk[n] # "none"
    BY <2>1 DEF IInv, WellFounded
  <2> QED BY <1>0, <1>3, <2>1, <2>2, EnvironmentStep
          DEF FindPresent, SameButIntents, SameMembers
<1>4. ASSUME NEW m \in Memberships, FindAbsent(m)
      PROVE  IInv'
  <2> DEFINE q == [op |-> "finalize", target |-> m]
  <2>1. clerk[m] = "gone"
    BY <1>0, <1>4 DEF FindAbsent, IInv, WellFounded, OutsideOK, Members, Of
  <2>2. q \in Requests /\ Founded(q)
    BY <2>1 DEF Requests, Finalizations, Founded
  <2>3. Becomes(Maintenance, "waiting", q) /\ pc[Maintenance] # "locked"
    BY <1>4 DEF FindAbsent
  <2>4. ClerkAdvances /\ OutsideOK' /\ batch' \subseteq batch /\ UNCHANGED <<db, lock, seen>>
    BY <1>0, <1>4 DEF FindAbsent, OutsideOK, ClerkAdvances
  <2> HIDE DEF q
  <2> QED BY <1>0, <2>2, <2>3, <2>4, OutsideStep DEF Steps
<1>5. ASSUME NEW i \in Invitations, PruneIntents(i)
      PROVE  IInv'
  <2> DEFINE intents == [db.intents EXCEPT ![i].status = "deleted"]
             d == [db EXCEPT !.intents = intents]
  <2>1. db' = d
    BY <1>0, <1>5 DEF PruneIntents, Tables
  <2>2. intents \in [Invitations -> Intent]
    BY <1>0, TablesParts DEF Intent, IntentStatuses
  <2>3. d \in Tables
    BY <1>0, <2>2, TablesUpdated
  <2>4. SameButIntents(d, db)
    BY <1>0 DEF Tables, SameButIntents, SameMembers
  <2> HIDE DEF d
  <2>5. ClerkAdvances /\ OutsideOK' /\ \A n \in batch' : clerk[n] # "none"
    BY <1>0, <1>5 DEF PruneIntents, OutsideOK, ClerkAdvances, IInv, WellFounded
  <2> QED BY <1>5, <2>1, <2>3, <2>4, <2>5, EnvironmentStep DEF PruneIntents
<1> QED BY <1>1, <1>2, <1>3, <1>4, <1>5 DEF MaintenanceStep

LEMMA StutterKeepsInv ==
    ASSUME IInv, UNCHANGED vars
    PROVE  IInv'
<1>1. ClerkAdvances /\ OutsideOK' /\ \A n \in batch' : clerk[n] # "none"
  BY DEF vars, ClerkAdvances, IInv, TypeParts, OutsideOK, WellFounded
<1> QED BY <1>1, EnvironmentStep
        DEF vars, IInv, TypeParts, SameButIntents, SameMembers

LEMMA StepKeepsInv == IInv /\ [Next]_vars => IInv'
  BY ClerkKeepsInv, TransactionKeepsInv, WorkerKeepsInv, SessionKeepsInv,
     MaintenanceKeepsInv, StutterKeepsInv DEF Next

-----------------------------------------------------------------------------
(* The tables a transaction read under the lock are, intents aside, the    *)
(* tables it commits to; every request is founded on something that        *)
(* happened at Clerk; and the tables agree, follow Clerk and account for   *)
(* every removal.                                                          *)
THEOREM InductiveInvariant == Spec => []IInv
  BY InitOK, StepKeepsInv, PTL DEF Spec

(* Every variable has its type, and the lock is held by the process whose  *)
(* transaction is open (AcquireOrganizationLock, the deferred Rollback).   *)
THEOREM TypeCorrect == Spec => []TypeOK
<1>1. IInv => TypeOK
  BY TypeSplit DEF IInv
<1> QED BY <1>1, InductiveInvariant, PTL

(* One active membership of a user, reservations of active memberships     *)
(* only, a bootstrap of an eligible creator only: the constraints of the   *)
(* migrations hold of what the transactions commit.                        *)
THEOREM TablesAlwaysAgree == Spec => []TablesAgree
<1>1. IInv => TablesAgree
  BY DEF IInv, TablesSound, TablesAgree
<1> QED BY <1>1, InductiveInvariant, PTL

(* The projection never runs ahead of Clerk (ProcessWithResult and         *)
(* finalizeAbsentMembership).                                              *)
THEOREM ProjectionAlwaysFollows == Spec => []ProjectionFollowsClerk
<1>1. IInv => ProjectionFollowsClerk
  BY DEF IInv, TablesSound, ProjectionFollowsClerk
<1> QED BY <1>1, InductiveInvariant, PTL

(* One completion for every removal, whether the webhook or the            *)
(* maintenance job completes it (DeleteMembershipRemovalIntent,            *)
(* finalizeAbsentMembership).                                              *)
THEOREM RemovalsAlwaysAccounted == Spec => []RemovalsAccounted
<1>1. IInv => RemovalsAccounted
  BY DEF IInv, TablesSound, RemovalsAccounted
<1> QED BY <1>1, InductiveInvariant, PTL

(* What a command decided under the advisory lock holds when it commits    *)
(* (beginLockedMemberships to Commit).                                     *)
THEOREM DecisionsAlwaysHold == Spec => []DecisionsStillHold
<1>1. IInv => DecisionsStillHold
  <2> SUFFICES ASSUME IInv, NEW p \in Processes, pc[p] = "locked",
                      Allowed(seen[p], request[p])
               PROVE  Allowed(db, request[p])
    BY DEF DecisionsStillHold
  <2>1. request[p] \in Requests /\ SameButIntents(db, seen[p])
    BY DEF IInv, TypeParts, ProcessesOK, Snapshots
  <2> QED BY <2>1, SameAllowed
<1> QED BY <1>1, InductiveInvariant, PTL

(* No step but Clerk's own removal of an owner leaves an organization      *)
(* without an effective owner (CountEffectiveOwners under the lock).       *)
THEOREM LastOwnerAlwaysKept == Spec => LastOwnerKept
<1>1. ASSUME IInv, [Next]_vars, Owners(db) # {}, Owners(db') = {}
      PROVE  Owners(db) \intersect Deleted(db') # {}
  <2>1. CASE \E p \in Processes : Commit(p)
    <3>1. PICK p \in Processes : Commit(p)
      BY <2>1
    <3>2. PICK s \in Tables, q \in Requests :
             /\ s = seen[p] /\ q = request[p] /\ SameButIntents(db, s)
             /\ Allowed(s, q) /\ SameMembers(db', Outcome(s, q))
      BY <1>1, <3>1, CommitOK
    <3>3. /\ Owners(s) = Owners(db) /\ Agree(s)
          /\ Owners(Outcome(s, q)) = Owners(db') /\ Deleted(Outcome(s, q)) = Deleted(db')
      BY <1>1, <3>2, SameMembersSame DEF SameButIntents, IInv, TablesSound
    <3> QED BY <1>1, <3>2, <3>3, OwnerLeft
  <2>2. CASE UNCHANGED <<db.members, db.reserved>>
    BY <1>1, <2>2 DEF Owners, Effective, Active
  <2>3. CASE UNCHANGED db
    BY <1>1, <2>3
  <2>4. ASSUME NEW i \in Invitations, PruneIntents(i)
        PROVE  UNCHANGED <<db.members, db.reserved>>
    BY <1>1, <2>4 DEF PruneIntents, IInv, TypeParts, Tables
  <2>5. CASE ClerkStep
    BY <2>3, <2>5 DEF ClerkStep, ClerkJoins, ClerkRemoves, ClerkRemovesLate
  <2>6. CASE TransactionStep
    BY <2>1, <2>3, <2>6 DEF TransactionStep, TakeLock, Refuse, Abort
  <2>7. CASE WorkerStep
    BY <2>3, <2>7 DEF WorkerStep, Deliver, DeliverDuplicate, vars
  <2>8. CASE SessionStep
    BY <2>3, <2>8 DEF SessionStep, Command, RemovalAnswered, RemovalRefused,
       RemovalUnanswered, InvitationAnswered, InvitationRefused, InvitationUnanswered
  <2>9. CASE MaintenanceStep
    BY <2>2, <2>3, <2>4, <2>9 DEF MaintenanceStep, ListRemovals, PresenceUnknown,
       FindPresent, FindAbsent
  <2>10. CASE UNCHANGED vars
    BY <2>3, <2>10 DEF vars
  <2> QED BY <1>1, <2>5, <2>6, <2>7, <2>8, <2>9, <2>10 DEF Next
<1>2. IInv /\ [Next]_vars =>
         [Owners(db) # {} /\ Owners(db') = {} =>
             Owners(db) \intersect Deleted(db') # {}]_vars
  BY <1>1
<1> QED BY <1>2, InductiveInvariant, PTL DEF Spec, LastOwnerKept

-----------------------------------------------------------------------------
(* Who makes owners.  A row of an owner that a transaction adds comes from *)
(* the bootstrap or from an owner's invitation, unless the transaction is  *)
(* an owner's command.                                                     *)
Crowned(d, r, m) ==
    /\ r.org.bootstrapped /\ ~d.org.bootstrapped
    /\ UserOf[m] = r.org.creator
    /\ Of(UserOf[m]) \intersect Deleted(r) = {}

Ennobled(d, r, m) ==
    \/ Crowned(d, r, m)
    \/ \E i \in OwnerIntents(d) : r.intents[i].status = "consumed"

Ennobles(d, r) == \A m \in OwnerRows(r) \ OwnerRows(d) : Ennobled(d, r, m)

(* Intents stay as they are, but for pending ones that are consumed *)
IntentsUsed(d, r) ==
    \A i \in Invitations :
        \/ r.intents[i] = d.intents[i]
        \/ d.intents[i].status = "pending" /\ r.intents[i].status = "consumed"

LEMMA NoOwnerRows ==
    ASSUME NEW d \in Tables, NEW r \in Tables,
           \A m \in Memberships :
              r.members[m].status = "active" /\ r.members[m].role = "owner" =>
                 d.members[m].status = "active" /\ d.members[m].role = "owner"
    PROVE  Ennobles(d, r)
  BY DEF Ennobles, OwnerRows, Active

LEMMA BootstrapCrowns ==
    ASSUME NEW d \in Tables, NEW m \in OwnerRows(Bootstrap(d)) \ OwnerRows(d)
    PROVE  Crowned(d, Bootstrap(d), m)
<1> DEFINE candidates == Of(d.org.creator) \intersect Effective(d)
           crowned == [n \in Memberships |->
                          IF n \in candidates THEN [d.members[n] EXCEPT !.role = "owner"]
                                              ELSE d.members[n]]
           lost == [d EXCEPT !.org.eligible = FALSE]
           won == [d EXCEPT !.members = crowned, !.org.bootstrapped = TRUE]
<1>1. /\ d.org \in OrgRow /\ d.members \in [Memberships -> Row]
  BY TablesParts
<1>2. \/ Bootstrap(d) \in {d, lost}
      \/ /\ Bootstrap(d) = won /\ ~d.org.bootstrapped
         /\ Of(d.org.creator) \intersect Deleted(d) = {}
  BY DEF Bootstrap, AwaitsBootstrap
<1>3. lost.members = d.members
  BY DEF Tables
<1>4. Bootstrap(d) = won /\ ~d.org.bootstrapped
      /\ Of(d.org.creator) \intersect Deleted(d) = {}
  BY <1>2, <1>3 DEF OwnerRows, Active
<1>5. won.members = crowned /\ won.org.bootstrapped /\ won.org.creator = d.org.creator
  BY DEF Tables
<1>6. m \in Memberships /\ m \in candidates
  BY <1>1, <1>4, <1>5 DEF OwnerRows, Active, Row
<1>7. Deleted(won) = Deleted(d)
  BY <1>1, <1>5 DEF Deleted, Row
<1>8. UserOf[m] = d.org.creator
  BY <1>6 DEF Of
<1> HIDE DEF won, crowned, candidates
<1> QED BY <1>4, <1>5, <1>7, <1>8 DEF Crowned

LEMMA BootstrapEnnobles ==
    ASSUME NEW d \in Tables, NEW k \in Tables, Ennobles(d, k), IntentsUsed(d, k),
           k.org.bootstrapped = d.org.bootstrapped
    PROVE  Ennobles(d, Bootstrap(k)) /\ IntentsUsed(d, Bootstrap(k))
<1> DEFINE b == Bootstrap(k)
<1>1. b.intents = k.intents
  BY BootstrapShape
<1>2. ASSUME NEW m \in OwnerRows(b) \ OwnerRows(d)
      PROVE  Ennobled(d, b, m)
  <2>1. CASE m \in OwnerRows(k)
    BY <1>1, <1>2, <2>1 DEF Ennobles, Ennobled, Crowned
  <2>2. CASE m \notin OwnerRows(k)
    <3>1. Crowned(k, b, m)
      BY <1>2, <2>2, BootstrapCrowns
    <3> QED BY <3>1 DEF Crowned, Ennobled
  <2> QED BY <2>1, <2>2
<1> QED BY <1>1, <1>2 DEF Ennobles, IntentsUsed

LEMMA DeletedEnnobles ==
    ASSUME NEW d \in Tables, NEW m \in Memberships
    PROVE  LET r == WithDeleted(d, m)
           IN /\ Ennobles(d, r)
              /\ r.org = d.org /\ r.intents = d.intents
<1> DEFINE members == [d.members EXCEPT ![m].status = "deleted"]
<1>1. d.members \in [Memberships -> Row]
  BY TablesParts
<1>2. /\ WithDeleted(d, m).members = members /\ WithDeleted(d, m).org = d.org
      /\ WithDeleted(d, m).intents = d.intents
  BY DEF WithDeleted, Tables
<1>3. \A n \in Memberships :
         members[n] = d.members[n] \/ members[n].status = "deleted"
  BY <1>1 DEF Row
<1> HIDE DEF members
<1>4. WithDeleted(d, m) \in Tables
  BY WithDeletedShape
<1>5. Ennobles(d, WithDeleted(d, m))
  BY <1>2, <1>3, <1>4, NoOwnerRows
<1> QED BY <1>2, <1>5

LEMMA JoinedEnnobles ==
    ASSUME NEW d \in Tables, NEW e \in Events, e.aggregate \in Memberships,
           d.members[e.aggregate].status = "none",
           Active(d) \intersect Of(UserOf[e.aggregate]) = {}
    PROVE  LET r == WithJoined(d, e)
           IN /\ Ennobles(d, r) /\ IntentsUsed(d, r)
              /\ r.org.bootstrapped = d.org.bootstrapped
              /\ Invited(d, e) => r.intents[e.invitation].status = "consumed"
<1> DEFINE m == e.aggregate
           wasInvited == Invited(d, e)
           role == IF wasInvited THEN d.intents[e.invitation].role
                              ELSE InitialApplicationRole(e.clerkRole)
           renounces == wasInvited /\ AwaitsBootstrap(d) /\ d.org.creator = UserOf[m]
           members == [d.members EXCEPT ![m] = [status |-> "active", role |-> role]]
           intents == [i \in Invitations |->
                          IF wasInvited /\ i = e.invitation
                          THEN [d.intents[i] EXCEPT !.status = "consumed"]
                          ELSE d.intents[i]]
           org == [d.org EXCEPT !.eligible = @ /\ ~renounces]
           r == WithJoined(d, e)
<1>1. /\ d.members \in [Memberships -> Row] /\ d.intents \in [Invitations -> Intent]
      /\ d.org \in OrgRow /\ e.invitation \in Invitations \union {None}
  BY TablesParts, EventParts
<1>2. r.members = members /\ r.intents = intents /\ r.org = org
  BY DEF WithJoined, Tables
<1>3. r \in Tables
  BY WithJoinedShape
<1>4. org.bootstrapped = d.org.bootstrapped
  BY <1>1 DEF OrgRow
<1>5. wasInvited => e.invitation \in Invitations /\ d.intents[e.invitation].status = "pending"
  BY <1>1 DEF Invited
<1>6. \A i \in Invitations :
         IF wasInvited /\ i = e.invitation
         THEN intents[i].status = "consumed" ELSE intents[i] = d.intents[i]
  BY <1>1 DEF Intent
<1>7. IntentsUsed(d, r) /\ (wasInvited => r.intents[e.invitation].status = "consumed")
  <2> HIDE DEF intents, wasInvited
  <2> QED BY <1>2, <1>5, <1>6 DEF IntentsUsed
<1>8. ASSUME NEW n \in OwnerRows(r) \ OwnerRows(d)
      PROVE  Ennobled(d, r, n)
  <2>1. n = m /\ role = "owner"
    BY <1>1, <1>2, <1>8 DEF OwnerRows, Active, Row
  <2>2. wasInvited /\ d.intents[e.invitation].role = "owner"
    BY <2>1 DEF InitialApplicationRole
  <2>3. d.intents[e.invitation] = [status |-> "pending", role |-> "owner"]
    BY <1>1, <1>5, <2>2 DEF Intent
  <2>4. e.invitation \in OwnerIntents(d)
    BY <1>5, <2>2, <2>3 DEF OwnerIntents
  <2> HIDE DEF r, wasInvited
  <2> QED BY <1>7, <2>2, <2>4 DEF Ennobled
<1> QED BY <1>2, <1>4, <1>7, <1>8 DEF Ennobles

LEMMA EventEnnobles ==
    ASSUME NEW d \in Tables, NEW e \in Events, EventAllowed(d, e)
    PROVE  Ennobles(d, ApplyEvent(d, e)) /\ IntentsUsed(d, ApplyEvent(d, e))
<1> DEFINE k == [d EXCEPT !.inbox = @ \union {e}]
           m == e.aggregate
           r == ApplyEvent(d, e)
           Same(x) == /\ x \in Tables /\ x.members = d.members /\ x.intents = d.intents
                      /\ x.org.bootstrapped = d.org.bootstrapped
<1>0. d.org \in OrgRow /\ e.creator \in Users \union {None}
  BY TablesParts, EventParts
<1>1. ASSUME NEW x, Same(x)
      PROVE  Ennobles(d, x) /\ IntentsUsed(d, x)
  BY <1>1 DEF Ennobles, IntentsUsed, OwnerRows, Active
<1>2. ASSUME NEW x, Same(x)
      PROVE  Ennobles(d, Bootstrap(x)) /\ IntentsUsed(d, Bootstrap(x))
  BY <1>1, <1>2, BootstrapEnnobles
<1>3. Same(k)
  <2>1. d.inbox \union {e} \in SUBSET Events
    BY TablesParts
  <2>2. k = [d EXCEPT !.inbox = d.inbox \union {e}]
    BY DEF Tables
  <2> QED BY <2>1, <2>2, TablesUpdated DEF Tables
<1>4. ASSUME NEW org \in OrgRow, org.bootstrapped = d.org.bootstrapped
      PROVE  Same([k EXCEPT !.org = org])
  <2>1. [k EXCEPT !.org = org] \in Tables
    BY <1>3, TablesUpdated
  <2>2. /\ [k EXCEPT !.org = org].members = k.members
        /\ [k EXCEPT !.org = org].intents = k.intents
        /\ [k EXCEPT !.org = org].org = org
    BY <1>3 DEF Tables
  <2> QED BY <1>3, <1>4, <2>1, <2>2
<1>5. k.org = d.org /\ k.members = d.members
  BY DEF Tables
<1>6. CASE r = k
  BY <1>1, <1>3, <1>6
<1>7. CASE r = ApplyOrganizationEvent(k, e)
  <2> DEFINE gone == [d.org EXCEPT !.status = "deleted"]
             live == [d.org EXCEPT !.status = IF @ = "disabled" THEN @ ELSE "active",
                                   !.creator = IF @ = None THEN e.creator ELSE @]
             g == [k EXCEPT !.org = gone]
             l == [k EXCEPT !.org = live]
  <2>1. gone \in OrgRow /\ gone.bootstrapped = d.org.bootstrapped
    BY <1>0 DEF OrgRow
  <2>2. live \in OrgRow /\ live.bootstrapped = d.org.bootstrapped
    BY <1>0 DEF OrgRow
  <2>3. g = [k EXCEPT !.org.status = "deleted"]
    BY <1>3, <1>5 DEF Tables
  <2>4. l = [k EXCEPT !.org.status = IF @ = "disabled" THEN @ ELSE "active",
                      !.org.creator = IF @ = None THEN e.creator ELSE @]
    BY <1>0, <1>3, <1>5 DEF Tables, OrgRow
  <2> HIDE DEF k, r, gone, live
  <2>5. r \in {g, k, Bootstrap(l)}
    BY <1>7, <2>3, <2>4 DEF ApplyOrganizationEvent
  <2>6. Same(g) /\ Same(l)
    BY <1>4, <2>1, <2>2
  <2> HIDE DEF g, l, Same
  <2> QED BY <1>1, <1>2, <1>3, <2>5, <2>6 DEF r
<1>8. CASE r = ApplyMembershipEvent(k, e) /\ ~Superseded(e, d.inbox) /\ m # Org
  <2> DEFINE org == [d.org EXCEPT !.status = IF @ = "none" THEN "pending" ELSE @]
             known == [k EXCEPT !.org = org]
  <2>1. org \in OrgRow /\ org.bootstrapped = d.org.bootstrapped
    BY <1>0 DEF OrgRow
  <2>2. known = [k EXCEPT !.org.status = IF @ = "none" THEN "pending" ELSE @]
    BY <1>3, <1>5 DEF Tables
  <2> HIDE DEF k, r, org
  <2>3. Same(known)
    BY <1>4, <2>1
  <2>4. m \in Memberships
    BY <1>8, EventParts
  <2> HIDE DEF known
  <2>5. CASE r = Bootstrap(known)
    BY <1>2, <2>3, <2>5 DEF r
  <2>6. CASE r = Bootstrap(WithDeleted(known, m))
    <3> DEFINE w == WithDeleted(known, m)
    <3>1. /\ Ennobles(known, w) /\ w.org = known.org /\ w.intents = known.intents
          /\ w \in Tables
      BY <2>3, <2>4, DeletedEnnobles, WithDeletedShape
    <3> HIDE DEF w
    <3>2. Ennobles(d, w) /\ IntentsUsed(d, w)
      BY <2>3, <3>1 DEF Ennobles, Ennobled, Crowned, IntentsUsed, OwnerRows, OwnerIntents, Active
    <3> QED BY <2>3, <2>6, <3>1, <3>2, BootstrapEnnobles DEF w, r
  <2>7. CASE e.type # "deleted" /\ k.members[m].status = "none"
             /\ r = Bootstrap(WithJoined(known, e))
    <3> DEFINE w == WithJoined(known, e)
    <3>1. MembershipEventAllowed(d, e)
      BY <1>8 DEF EventAllowed
    <3>2. known.members[m].status = "none" /\ Active(known) \intersect Of(UserOf[m]) = {}
      BY <1>5, <2>3, <2>7, <3>1 DEF MembershipEventAllowed, Active
    <3>3. /\ Ennobles(known, w) /\ IntentsUsed(known, w) /\ w \in Tables
          /\ w.org.bootstrapped = known.org.bootstrapped
      BY <2>3, <2>4, <3>2, JoinedEnnobles, WithJoinedShape
    <3> HIDE DEF w
    <3>4. Ennobles(d, w) /\ IntentsUsed(d, w)
      BY <2>3, <3>3 DEF Ennobles, Ennobled, Crowned, IntentsUsed, OwnerRows, OwnerIntents, Active
    <3> QED BY <2>3, <2>7, <3>3, <3>4, BootstrapEnnobles DEF w, r
  <2> QED BY <1>8, <2>2, <2>5, <2>6, <2>7 DEF ApplyMembershipEvent
<1>9. \/ r = k
      \/ r = ApplyOrganizationEvent(k, e)
      \/ r = ApplyMembershipEvent(k, e) /\ ~Superseded(e, d.inbox) /\ m # Org
  BY DEF ApplyEvent
<1> QED BY <1>6, <1>7, <1>8, <1>9

(* A command of an owner *)
OwnersCommand(d, q) == q.op \in {"setRole", "transfer", "invite"} /\ q.actor \in Owners(d)

(* An outcome adds owners and owners' invitations by an owner's command, or *)
(* as the events of Clerk do.                                               *)
LEMMA OutcomeEnnobles ==
    ASSUME NEW d \in Tables, NEW q \in Requests, Allowed(d, q), ~OwnersCommand(d, q)
    PROVE  LET r == Outcome(d, q)
           IN /\ Ennobles(d, r)
              /\ \A i \in OwnerIntents(r) : r.intents[i] = d.intents[i]
<1> DEFINE r == Outcome(d, q)
<1>0. r \in Tables /\ d.intents \in [Invitations -> Intent]
  BY OutcomeShape, TablesParts
<1> HIDE DEF r
<1>1. ASSUME r.members = d.members, r.intents = d.intents
      PROVE  /\ Ennobles(d, r)
             /\ \A i \in OwnerIntents(r) : r.intents[i] = d.intents[i]
  BY <1>1 DEF Ennobles, OwnerRows, OwnerIntents, Active
<1>2. CASE q.op = "event" /\ q.event \in Events
  <2>1. EventAllowed(d, q.event) /\ r = ApplyEvent(d, q.event)
    BY <1>2 DEF Allowed, Outcome, r
  <2>2. Ennobles(d, r) /\ IntentsUsed(d, r)
    BY <1>2, <2>1, EventEnnobles
  <2> QED BY <2>2 DEF r, IntentsUsed, OwnerIntents
<1>3. CASE q.op = "setRole" /\ q.target \in Memberships /\ q.role \in AppRoles
  <2>1. r = SetRole(d, q.target, q.role) /\ SetRoleAllowed(d, q.actor, q.target, q.role)
    BY <1>3 DEF Allowed, Outcome, r
  <2>2. q.role # "owner"
    BY <1>3, <2>1 DEF SetRoleAllowed, Locked, OwnersCommand, Owners
  <2>3. /\ Keeps(d, r) /\ r.members[q.target].role = q.role
        /\ \A n \in Memberships \ {q.target} : r.members[n] = d.members[n]
    BY <1>3, <2>1, SetRoleShape
  <2>4. r.intents = d.intents
    BY <2>1 DEF SetRole, Tables
  <2>5. \A n \in Memberships : r.members[n].role = "owner" => r.members[n] = d.members[n]
    BY <2>2, <2>3
  <2> QED BY <1>0, <2>4, <2>5, NoOwnerRows DEF r, OwnerIntents
<1>4. CASE q.op = "transfer"
  BY <1>4 DEF Allowed, TransferAllowed, Locked, OwnersCommand, Owners
<1>5. CASE q.op = "remove" /\ q.actor \in Memberships /\ q.target \in Memberships
  <2>1. r = Reserve(d, q.target) /\ RemovalAllowed(d, q.actor, q.target)
    BY <1>5 DEF Outcome, Allowed, r
  <2>2. q.target \in Active(d)
    BY <2>1 DEF RemovalAllowed, Locked, Effective
  <2>3. r.members = d.members
    BY <2>1, <2>2, ReserveShape
  <2>4. r.intents = d.intents
    BY <2>1 DEF Reserve, Tables
  <2> QED BY <1>1, <2>3, <2>4 DEF r
<1>6. CASE q.op = "invite" /\ q.intent \in Invitations /\ q.role \in AppRoles
  <2>1. r = InsertIntent(d, q.intent, q.role) /\ InviteAllowed(d, q.actor, q.role)
    BY <1>6 DEF Outcome, Allowed, r
  <2>2. q.role # "owner"
    BY <1>6, <2>1 DEF InviteAllowed, OwnersCommand, Owners
  <2>3. r.members = d.members
    BY <1>6, <2>1, IntentShape
  <2>4. r.intents = [d.intents EXCEPT ![q.intent] = [status |-> "pending", role |-> q.role]]
    BY <2>1 DEF InsertIntent, Tables
  <2>5. \A i \in Invitations : r.intents[i] = d.intents[i] \/ r.intents[i].role # "owner"
    BY <1>0, <2>2, <2>4
  <2>6. \A i \in OwnerIntents(r) : r.intents[i] = d.intents[i]
    BY <2>5 DEF OwnerIntents
  <2> QED BY <1>0, <2>3, <2>6, NoOwnerRows DEF r
<1>7. CASE q.op = "release" /\ q.target \in Memberships
  <2>1. r = Release(d, q.target)
    BY <1>7 DEF Outcome, r
  <2>2. r.members = d.members /\ r.intents = d.intents
    BY <2>1 DEF Release, Tables
  <2> QED BY <1>1, <2>2 DEF r
<1>8. CASE q.op = "withdraw" /\ q.intent \in Invitations
  <2>1. r = DeleteIntent(d, q.intent) /\ "viewer" \in AppRoles
    BY <1>8 DEF Outcome, AppRoles, r
  <2>2. r.members = d.members
    BY <1>8, <2>1, IntentShape
  <2>3. r.intents = [d.intents EXCEPT ![q.intent].status =
                        IF @ = "pending" THEN "deleted" ELSE @]
    BY <1>0, <2>1 DEF DeleteIntent, Tables
  <2>4. \A i \in Invitations : r.intents[i].status = "pending" => r.intents[i] = d.intents[i]
    BY <1>0, <1>8, <2>3 DEF Intent
  <2> QED BY <1>0, <2>2, <2>4, NoOwnerRows DEF r, OwnerIntents
<1>9. CASE q.op = "finalize" /\ q.target \in Memberships
  <2>1. r = Finalize(d, q.target)
    BY <1>9 DEF Outcome, r
  <2>2. r \in {d, Release(d, q.target), WithDeleted(d, q.target)}
    BY <2>1 DEF Finalize, Release
  <2>3. Release(d, q.target).members = d.members /\ Release(d, q.target).intents = d.intents
    BY DEF Release, Tables
  <2>4. CASE r = WithDeleted(d, q.target)
    BY <1>9, <2>4, DeletedEnnobles DEF r, OwnerIntents
  <2> QED BY <1>1, <2>2, <2>3, <2>4 DEF r
<1> QED BY <1>2, <1>3, <1>4, <1>5, <1>6, <1>7, <1>8, <1>9, RequestParts

-----------------------------------------------------------------------------
(* An intent that is pending, or that a transaction saw pending, is as the *)
(* transaction saw it: the maintenance job only takes consumed ones away.  *)
PendingSeen ==
    \A p \in Processes : pc[p] = "locked" =>
        \A i \in Invitations :
            "pending" \in {seen[p].intents[i].status, db.intents[i].status}
                => db.intents[i] = seen[p].intents[i]

(* Only sessions run commands *)
SessionsCommand ==
    \A p \in Processes :
        request[p] \in Requests /\ request[p].op \in {"setRole", "transfer", "invite"}
            => p \in Sessions

(* How a step moves the processes, and what it does to the tables *)
LEMMA StepMoves ==
    ASSUME IInv, [Next]_vars
    PROVE  \/ \E p \in Processes : Commit(p)
           \/ \E p \in Processes : TakeLock(p)
           \/ /\ UNCHANGED db
              /\ \A p \in Processes : pc'[p] = "locked" => pc[p] = "locked" /\ seen'[p] = seen[p]
           \/ /\ \E i \in Invitations : PruneIntents(i)
              /\ UNCHANGED <<pc, request, seen>>
<1> DEFINE Quiet == /\ UNCHANGED db
                    /\ \A p \in Processes :
                          pc'[p] = "locked" => pc[p] = "locked" /\ seen'[p] = seen[p]
<1>0. ProcessesOK /\ Workers \subseteq Processes /\ Sessions \subseteq Processes
      /\ Maintenance \in Processes
  BY DEF IInv, TypeParts, Processes
<1>1. ASSUME UNCHANGED <<db, pc, seen>>
      PROVE  Quiet
  BY <1>1
<1>2. ASSUME NEW p \in Processes, NEW step \in Steps \ {"locked"}, NEW q,
             Becomes(p, step, q), UNCHANGED <<db, seen>>
      PROVE  Quiet
  BY <1>0, <1>2 DEF Becomes, ProcessesOK
<1>3. ASSUME NEW p \in Processes, Becomes(p, "idle", NoRequest), Close(p), UNCHANGED db
      PROVE  Quiet
  BY <1>0, <1>3 DEF Becomes, Close, ProcessesOK
<1> HIDE DEF Quiet
<1>4. "idle" \in Steps \ {"locked"} /\ "waiting" \in Steps \ {"locked"}
  BY DEF Steps
<1>5. CASE ClerkStep
  BY <1>1, <1>5 DEF ClerkStep, ClerkJoins, ClerkRemoves, ClerkRemovesLate, Quiet
<1>6. CASE TransactionStep
  BY <1>3, <1>6 DEF TransactionStep, Refuse, Abort, Quiet
<1>7. CASE WorkerStep
  BY <1>0, <1>1, <1>2, <1>4, <1>7 DEF WorkerStep, Deliver, DeliverDuplicate, vars, Quiet
<1>8. CASE SessionStep
  BY <1>0, <1>2, <1>4, <1>8 DEF SessionStep, Command, RemovalAnswered, RemovalRefused,
     RemovalUnanswered, InvitationAnswered, InvitationRefused, InvitationUnanswered, Quiet
<1>9. CASE MaintenanceStep
  BY <1>0, <1>1, <1>2, <1>4, <1>9 DEF MaintenanceStep, ListRemovals, PresenceUnknown,
     FindPresent, FindAbsent, PruneIntents, Quiet
<1>10. CASE UNCHANGED vars
  BY <1>1, <1>10 DEF vars, Quiet
<1> QED BY <1>5, <1>6, <1>7, <1>8, <1>9, <1>10 DEF Next

LEMMA PendingSeenKept ==
    ASSUME IInv, PendingSeen, [Next]_vars
    PROVE  PendingSeen'
<1>0. ProcessesOK /\ db \in Tables
  BY DEF IInv, TypeParts
<1>1. ASSUME NEW p \in Processes, Commit(p)
      PROVE  PendingSeen'
  <2>1. \A o \in Processes : pc'[o] # "locked"
    BY <1>0, <1>1 DEF Commit, Becomes, ProcessesOK
  <2> QED BY <2>1 DEF PendingSeen
<1>2. ASSUME NEW p \in Processes, TakeLock(p)
      PROVE  PendingSeen'
  <2>1. /\ \A o \in Processes : pc'[o] = "locked" => o = p /\ seen'[o] = db
        /\ db' = db
    BY <1>0, <1>2, TakeLockOK DEF TakeLock
  <2> QED BY <2>1 DEF PendingSeen
<1>3. CASE /\ UNCHANGED db
           /\ \A p \in Processes : pc'[p] = "locked" => pc[p] = "locked" /\ seen'[p] = seen[p]
  BY <1>3 DEF PendingSeen
<1>4. ASSUME NEW i \in Invitations, PruneIntents(i), UNCHANGED <<pc, request, seen>>
      PROVE  PendingSeen'
  <2>1. /\ db.intents[i].status = "consumed"
        /\ db'.intents[i].status = "deleted"
        /\ \A j \in Invitations \ {i} : db'.intents[j] = db.intents[j]
    BY <1>0, <1>4, TablesParts DEF PruneIntents, Tables, Intent
  <2> QED BY <1>4, <2>1 DEF PendingSeen
<1> QED BY <1>1, <1>2, <1>3, <1>4, StepMoves

LEMMA SessionsCommandKept ==
    ASSUME IInv, SessionsCommand, [Next]_vars
    PROVE  SessionsCommand'
<1>0. ProcessesOK /\ Workers \subseteq Processes /\ Sessions \subseteq Processes
      /\ Maintenance \in Processes
  BY DEF IInv, TypeParts, Processes
<1>1. ASSUME request' = request
      PROVE  SessionsCommand'
  BY <1>1 DEF SessionsCommand
<1>2. ASSUME NEW p \in Processes, NEW step, NEW q, Becomes(p, step, q),
             \/ q \in {request[p], NoRequest}
             \/ p \in Sessions
             \/ q.op \in {"event", "finalize"}
      PROVE  SessionsCommand'
  <2>1. \A o \in Processes : request'[o] = IF o = p THEN q ELSE request[o]
    BY <1>0, <1>2 DEF Becomes, ProcessesOK
  <2> QED BY <1>2, <2>1, ProcessesAssumption DEF SessionsCommand
<1>3. CASE ClerkStep
  BY <1>1, <1>3 DEF ClerkStep, ClerkJoins, ClerkRemoves, ClerkRemovesLate
<1>4. CASE TransactionStep
  BY <1>1, <1>2, <1>4 DEF TransactionStep, TakeLock, Commit, Refuse, Abort
<1>5. CASE WorkerStep
  BY <1>0, <1>1, <1>2, <1>5 DEF WorkerStep, Deliver, DeliverDuplicate, vars
<1>6. CASE SessionStep
  BY <1>0, <1>2, <1>6 DEF SessionStep, Command, RemovalAnswered, RemovalRefused,
     RemovalUnanswered, InvitationAnswered, InvitationRefused, InvitationUnanswered
<1>7. CASE MaintenanceStep
  BY <1>0, <1>1, <1>2, <1>7 DEF MaintenanceStep, ListRemovals, PresenceUnknown,
     FindPresent, FindAbsent, PruneIntents
<1>8. CASE UNCHANGED vars
  BY <1>1, <1>8 DEF vars
<1> QED BY <1>3, <1>4, <1>5, <1>6, <1>7, <1>8 DEF Next

AuthorityInv == IInv /\ PendingSeen /\ SessionsCommand

LEMMA AuthorityInvariant == Spec => []AuthorityInv
<1>1. Init => PendingSeen /\ SessionsCommand
  BY ProcessesAssumption DEF Init, PendingSeen, SessionsCommand
<1>2. AuthorityInv /\ [Next]_vars => AuthorityInv'
  BY StepKeepsInv, PendingSeenKept, SessionsCommandKept DEF AuthorityInv
<1>3. Init => AuthorityInv
  BY <1>1, InitOK DEF AuthorityInv
<1> QED BY <1>2, <1>3, PTL DEF Spec

(* Ownership comes from an owner effective at the commit, from an owner's  *)
(* invitation used once or from the one bootstrap; an owner's invitation   *)
(* comes from an owner (bootstrapInitialOwner, insertMembership and        *)
(* authorizeInvitation under the lock).                                    *)
THEOREM OwnersAlwaysMakeOwners == Spec => OwnersMakeOwners
<1> DEFINE Good == /\ \A m \in OwnerRows(db') \ OwnerRows(db) :
                         \/ ByAnOwner
                         \/ \E i \in OwnerIntents(db) : db'.intents[i].status = "consumed"
                         \/ ByBootstrap(m)
                   /\ OwnerIntents(db') \subseteq OwnerIntents(db) \/ ByAnOwner
<1>1. ASSUME AuthorityInv, [Next]_vars
      PROVE  Good
  <2>0. IInv /\ db \in Tables
    BY <1>1 DEF AuthorityInv, IInv, TypeParts
  <2>1. CASE UNCHANGED db
    BY <2>1 DEF OwnerRows, OwnerIntents, Active
  <2>2. ASSUME NEW p \in Processes, TakeLock(p)
        PROVE  Good
    BY <2>1, <2>2 DEF TakeLock
  <2>3. ASSUME NEW i \in Invitations, PruneIntents(i)
        PROVE  Good
    <3>1. /\ db'.members = db.members
          /\ db'.intents = [db.intents EXCEPT ![i].status = "deleted"]
      BY <2>0, <2>3 DEF PruneIntents, Tables
    <3>2. \A j \in Invitations : db'.intents[j].status = "pending" =>
                                    db'.intents[j] = db.intents[j]
      BY <2>0, <3>1, TablesParts DEF Intent
    <3>3. OwnerIntents(db') \subseteq OwnerIntents(db)
      BY <3>2 DEF OwnerIntents
    <3> QED BY <3>1, <3>3 DEF OwnerRows, Active
  <2>4. ASSUME NEW p \in Processes, Commit(p)
        PROVE  Good
    <3>1. PICK s \in Tables, q \in Requests :
             /\ s = seen[p] /\ q = request[p] /\ SameButIntents(db, s) /\ Allowed(s, q)
             /\ Outcome(s, q) \in Tables
             /\ db' \in Tables /\ SameMembers(db', Outcome(s, q))
      BY <2>0, <2>4, CommitOK
    <3> DEFINE r == Outcome(s, q)
    <3>2. /\ pc[p] = "locked" /\ pc'[p] # "locked"
          /\ db' = Written(db, s, r)
      BY <2>0, <2>4, <3>1 DEF Commit, Becomes, IInv, TypeParts, ProcessesOK
    <3>3. CASE OwnersCommand(s, q)
      <4>1. p \in Sessions
        BY <1>1, <3>1, <3>3 DEF AuthorityInv, SessionsCommand, OwnersCommand
      <4>2. Owners(db) = Owners(s)
        BY <3>1, SameMembersSame DEF SameButIntents
      <4>3. ByAnOwner
        BY <3>1, <3>2, <3>3, <4>1, <4>2 DEF OwnersCommand, ByAnOwner
      <4> QED BY <4>3
    <3>4. CASE ~OwnersCommand(s, q)
      <4>1. /\ Ennobles(s, r)
            /\ \A i \in OwnerIntents(r) : r.intents[i] = s.intents[i]
        BY <3>1, <3>4, OutcomeEnnobles
      <4>2. /\ db.intents \in [Invitations -> Intent] /\ s.intents \in [Invitations -> Intent]
            /\ r.intents \in [Invitations -> Intent]
        BY <2>0, <3>1, TablesParts
      <4>3. \A i \in Invitations :
               db'.intents[i] = IF r.intents[i] = s.intents[i] THEN db.intents[i]
                                                               ELSE r.intents[i]
        BY <3>2, <4>2 DEF Written, Changed
      <4>4. \A i \in OwnerIntents(s) : i \in OwnerIntents(db)
        BY <1>1, <3>1, <3>2 DEF AuthorityInv, PendingSeen, OwnerIntents
      <4> HIDE DEF r
      <4>5. OwnerIntents(db') \subseteq OwnerIntents(db)
        BY <4>1, <4>3 DEF OwnerIntents
      <4>6. ASSUME NEW m \in OwnerRows(db') \ OwnerRows(db)
            PROVE  \/ \E i \in OwnerIntents(db) : db'.intents[i].status = "consumed"
                   \/ ByBootstrap(m)
        <5>1. m \in OwnerRows(r) \ OwnerRows(s)
          BY <3>1, <4>6 DEF SameButIntents, SameMembers, OwnerRows, Active, r
        <5>2. Ennobled(s, r, m)
          BY <4>1, <5>1 DEF Ennobles
        <5>3. CASE Crowned(s, r, m)
          BY <3>1, <5>3 DEF Crowned, ByBootstrap, SameButIntents, SameMembers, Deleted, r
        <5>4. ASSUME NEW i \in OwnerIntents(s), r.intents[i].status = "consumed"
              PROVE  \E j \in OwnerIntents(db) : db'.intents[j].status = "consumed"
          <6>1. i \in Invitations /\ s.intents[i].status = "pending"
            BY <5>4 DEF OwnerIntents
          <6>2. db'.intents[i] = r.intents[i]
            BY <4>3, <5>4, <6>1
          <6> QED BY <4>4, <5>4, <6>2
        <5> QED BY <5>2, <5>3, <5>4 DEF Ennobled
      <4> QED BY <4>5, <4>6
    <3> QED BY <3>3, <3>4
  <2> QED BY <1>1, <2>0, <2>1, <2>2, <2>3, <2>4, StepMoves
<1>2. AuthorityInv /\ [Next]_vars => [Good]_vars
  BY <1>1
<1> QED BY <1>2, AuthorityInvariant, PTL DEF Spec, OwnersMakeOwners

-----------------------------------------------------------------------------
(* Invited members.  What the inbox tells of the rows: a membership of     *)
(* which an event was recorded has a row, and an active one comes from an  *)
(* event that is not a deletion.                                           *)
Recorded(d) ==
    /\ \A e \in d.inbox : e.aggregate \in Memberships =>
          d.members[e.aggregate].status # "none"
    /\ \A m \in Active(d) :
          \E e \in d.inbox : e.aggregate = m /\ e.type # "deleted"

(* What the tables r that come of an event e tell of it, Bootstrap aside:  *)
(* the membership of an event that is not stale has a row, and a           *)
(* membership that joins by a created event leaves no invitation pending.  *)
Effect(d, e, r) ==
    /\ r.inbox = d.inbox \union {e}
    /\ e.aggregate \in Memberships /\ ~Superseded(e, d.inbox) =>
          r.members[e.aggregate].status # "none"
    /\ \A m \in Active(r) \ Active(d) :
          /\ m = e.aggregate /\ e.type # "deleted"
          /\ d.members[m].status = "none"
          /\ e.type = "created" /\ e.invitation # None =>
                r.intents[e.invitation].status # "pending"
    /\ \A m \in Memberships :
          d.members[m].status # "none" => r.members[m].status # "none"

LEMMA BootstrapEffect ==
    ASSUME NEW d \in Tables, NEW e \in Events, NEW k \in Tables, Effect(d, e, k)
    PROVE  Effect(d, e, Bootstrap(k))
<1> DEFINE b == Bootstrap(k)
<1>1. /\ b.inbox = k.inbox /\ b.intents = k.intents
      /\ \A m \in Memberships : b.members[m].status = k.members[m].status
  BY BootstrapShape
<1> HIDE DEF b
<1>2. Active(b) = Active(k)
  BY <1>1 DEF Active
<1> QED BY <1>1, <1>2 DEF Effect, b

LEMMA EventEffect ==
    ASSUME NEW d \in Tables, NEW e \in Events, EventAllowed(d, e)
    PROVE  Effect(d, e, ApplyEvent(d, e))
<1> DEFINE k == [d EXCEPT !.inbox = @ \union {e}]
           m == e.aggregate
           r == ApplyEvent(d, e)
           Same(x) == /\ x \in Tables /\ x.members = d.members /\ x.intents = d.intents
                      /\ x.inbox = d.inbox \union {e}
<1>0. d.org \in OrgRow /\ e.creator \in Users \union {None} /\ m \in Memberships \union {Org}
  BY TablesParts, EventParts
<1>1. ASSUME NEW x, Same(x),
             m \in Memberships /\ ~Superseded(e, d.inbox) => d.members[m].status # "none"
      PROVE  Effect(d, e, x)
  BY <1>1 DEF Effect, Active
<1>3. Same(k)
  <2>1. d.inbox \union {e} \in SUBSET Events
    BY TablesParts
  <2>2. k = [d EXCEPT !.inbox = d.inbox \union {e}]
    BY DEF Tables
  <2> QED BY <2>1, <2>2, TablesUpdated DEF Tables
<1>4. ASSUME NEW org \in OrgRow
      PROVE  Same([k EXCEPT !.org = org])
  <2>1. [k EXCEPT !.org = org] \in Tables
    BY <1>3, TablesUpdated
  <2>2. /\ [k EXCEPT !.org = org].members = k.members
        /\ [k EXCEPT !.org = org].intents = k.intents
        /\ [k EXCEPT !.org = org].inbox = k.inbox
    BY <1>3 DEF Tables
  <2> QED BY <1>3, <2>1, <2>2
<1>5. k.org = d.org /\ k.members = d.members
  BY DEF Tables
<1>6. CASE Superseded(e, d.inbox)
  BY <1>1, <1>3, <1>6 DEF ApplyEvent
<1>7. CASE ~Superseded(e, d.inbox) /\ m = Org
  <2> DEFINE gone == [d.org EXCEPT !.status = "deleted"]
             live == [d.org EXCEPT !.status = IF @ = "disabled" THEN @ ELSE "active",
                                   !.creator = IF @ = None THEN e.creator ELSE @]
             g == [k EXCEPT !.org = gone]
             l == [k EXCEPT !.org = live]
  <2>1. gone \in OrgRow /\ live \in OrgRow
    BY <1>0 DEF OrgRow
  <2>2. r = ApplyOrganizationEvent(k, e)
    BY <1>7 DEF ApplyEvent
  <2>3. g = [k EXCEPT !.org.status = "deleted"]
    BY <1>3, <1>5 DEF Tables
  <2>4. l = [k EXCEPT !.org.status = IF @ = "disabled" THEN @ ELSE "active",
                      !.org.creator = IF @ = None THEN e.creator ELSE @]
    BY <1>0, <1>3, <1>5 DEF Tables, OrgRow
  <2>5. m \notin Memberships
    BY <1>7, OrganizationAssumption
  <2> HIDE DEF k, r, gone, live
  <2>6. r \in {g, k, Bootstrap(l)}
    BY <2>2, <2>3, <2>4 DEF ApplyOrganizationEvent
  <2>7. Same(g) /\ Same(l)
    BY <1>4, <2>1
  <2>8. Effect(d, e, g) /\ Effect(d, e, k) /\ Effect(d, e, l)
    BY <1>1, <1>3, <2>5, <2>7
  <2> HIDE DEF g, l
  <2>9. Effect(d, e, Bootstrap(l))
    BY <2>7, <2>8, BootstrapEffect
  <2> QED BY <2>6, <2>8, <2>9 DEF r
<1>8. CASE ~Superseded(e, d.inbox) /\ m # Org
  <2> DEFINE org == [d.org EXCEPT !.status = IF @ = "none" THEN "pending" ELSE @]
             known == [k EXCEPT !.org = org]
  <2>1. org \in OrgRow
    BY <1>0 DEF OrgRow
  <2>2. known = [k EXCEPT !.org.status = IF @ = "none" THEN "pending" ELSE @]
    BY <1>3, <1>5 DEF Tables
  <2>3. r = ApplyMembershipEvent(k, e) /\ m \in Memberships
    BY <1>0, <1>8 DEF ApplyEvent
  <2> HIDE DEF k, r, org
  <2>4. Same(known)
    BY <1>4, <2>1
  <2> HIDE DEF known
  <2>5. CASE e.type # "deleted" /\ d.members[m].status # "none" /\ r = Bootstrap(known)
    BY <1>1, <2>4, <2>5, BootstrapEffect DEF r
  <2>6. CASE r = Bootstrap(WithDeleted(known, m))
    <3> DEFINE w == WithDeleted(known, m)
    <3>1. /\ w \in Tables /\ Deletes(known, w, m) /\ w.inbox = known.inbox
      BY <2>3, <2>4, WithDeletedShape DEF WithDeleted, Tables
    <3> HIDE DEF w
    <3>2. Effect(d, e, w)
      BY <2>4, <3>1 DEF Effect, Deletes, SameStatus, Active
    <3> QED BY <2>6, <3>1, <3>2, BootstrapEffect DEF w, r
  <2>7. CASE e.type # "deleted" /\ d.members[m].status = "none"
             /\ r = Bootstrap(WithJoined(known, e))
    <3> DEFINE w == WithJoined(known, e)
    <3>1. MembershipEventAllowed(d, e)
      BY <1>8 DEF EventAllowed
    <3>2. known.members[m].status = "none" /\ Active(known) \intersect Of(UserOf[m]) = {}
      BY <2>4, <2>7, <3>1 DEF MembershipEventAllowed, Active
    <3>0. w.inbox = known.inbox
      BY <2>4 DEF WithJoined, Tables
    <3>3. /\ w \in Tables /\ Joins(known, w, m) /\ IntentsUsed(known, w)
          /\ Invited(known, e) => w.intents[e.invitation].status = "consumed"
      BY <2>3, <2>4, <3>2, JoinedEnnobles, WithJoinedShape
    <3> HIDE DEF w
    <3>4. e.type = "created" /\ e.invitation # None => w.intents[e.invitation].status # "pending"
      <4>1. e.invitation \in Invitations \union {None}
        BY EventParts
      <4> QED BY <3>3, <4>1 DEF Invited, IntentsUsed
    <3>5. Effect(d, e, w)
      BY <2>4, <2>7, <3>0, <3>3, <3>4 DEF Effect, Joins, SameStatus, Active
    <3> QED BY <2>7, <3>3, <3>5, BootstrapEffect DEF w, r
  <2>8. k.members[m].status = d.members[m].status
    BY <1>5
  <2> QED BY <2>2, <2>3, <2>5, <2>6, <2>7, <2>8 DEF ApplyMembershipEvent
<1> QED BY <1>6, <1>7, <1>8

(* What becomes of an intent i when the tables d become r *)
IntentKept(d, q, r, i) ==
    \/ r.intents[i] = d.intents[i]
    \/ q.op = "invite" /\ i = q.intent /\ r.intents[i].status = "pending"
    \/ d.intents[i].status = "pending" /\ r.intents[i].status \in {"consumed", "deleted"}

LEMMA OutcomeRecords ==
    ASSUME NEW d \in Tables, NEW q \in Requests, Allowed(d, q)
    PROVE  LET r == Outcome(d, q)
           IN /\ q.op = "event" => Effect(d, q.event, r)
              /\ q.op # "event" => r.inbox = d.inbox
              /\ \A i \in Invitations : IntentKept(d, q, r, i)
              /\ q.op = "invite" => r.intents[q.intent].status = "pending"
<1> DEFINE r == Outcome(d, q)
<1>0. d.intents \in [Invitations -> Intent]
  BY TablesParts
<1> HIDE DEF r
<1>1. CASE q.op = "event" /\ q.event \in Events
  <2>1. EventAllowed(d, q.event) /\ r = ApplyEvent(d, q.event)
    BY <1>1 DEF Allowed, Outcome, r
  <2>2. Effect(d, q.event, r) /\ IntentsUsed(d, r)
    BY <1>1, <2>1, EventEffect, EventEnnobles
  <2> QED BY <1>1, <2>2 DEF r, IntentsUsed, IntentKept
<1>2. CASE q.op \notin {"event", "invite"} /\ r.inbox = d.inbox /\ r.intents = d.intents
  BY <1>2 DEF r, IntentKept
<1>3. CASE q.op \in {"setRole", "transfer", "remove", "release", "finalize"}
  <2>1. r \in {SetRole(d, q.target, q.role), TransferOwnership(d, q.actor, q.target),
               Reserve(d, q.target), Release(d, q.target), Finalize(d, q.target)}
    BY <1>3 DEF Outcome, r
  <2>2. WithDeleted(d, q.target).inbox = d.inbox /\ WithDeleted(d, q.target).intents = d.intents
    BY DEF WithDeleted, Tables
  <2>3. Release(d, q.target).inbox = d.inbox /\ Release(d, q.target).intents = d.intents
    BY DEF Release, Tables
  <2>4. /\ Finalize(d, q.target).inbox = d.inbox
        /\ Finalize(d, q.target).intents = d.intents
    <3>1. Finalize(d, q.target) \in {d, Release(d, q.target), WithDeleted(d, q.target)}
      BY DEF Finalize, Release
    <3> QED BY <2>2, <2>3, <3>1
  <2>5. /\ SetRole(d, q.target, q.role).inbox = d.inbox
        /\ SetRole(d, q.target, q.role).intents = d.intents
    BY DEF SetRole, Tables
  <2>6. /\ TransferOwnership(d, q.actor, q.target).inbox = d.inbox
        /\ TransferOwnership(d, q.actor, q.target).intents = d.intents
    BY DEF TransferOwnership, Tables
  <2>7. Reserve(d, q.target).inbox = d.inbox /\ Reserve(d, q.target).intents = d.intents
    BY DEF Reserve, Tables
  <2> QED BY <1>2, <1>3, <2>1, <2>3, <2>4, <2>5, <2>6, <2>7
<1>4. CASE q.op = "invite" /\ q.intent \in Invitations
  <2>1. r = InsertIntent(d, q.intent, q.role)
    BY <1>4 DEF Outcome, r
  <2>2. /\ r.intents = [d.intents EXCEPT ![q.intent] = [status |-> "pending", role |-> q.role]]
        /\ r.inbox = d.inbox
    BY <2>1 DEF InsertIntent, Tables
  <2>3. /\ r.intents[q.intent].status = "pending"
        /\ \A i \in Invitations \ {q.intent} : r.intents[i] = d.intents[i]
    BY <1>0, <1>4, <2>2
  <2> QED BY <1>4, <2>2, <2>3 DEF r, IntentKept
<1>5. CASE q.op = "withdraw" /\ q.intent \in Invitations
  <2>1. r = DeleteIntent(d, q.intent)
    BY <1>5 DEF Outcome, r
  <2>2. /\ r.intents = [d.intents EXCEPT ![q.intent].status =
                           IF @ = "pending" THEN "deleted" ELSE @]
        /\ r.inbox = d.inbox
    BY <1>0, <2>1 DEF DeleteIntent, Tables
  <2>3. \A i \in Invitations :
           \/ r.intents[i] = d.intents[i]
           \/ d.intents[i].status = "pending" /\ r.intents[i].status = "deleted"
    BY <1>0, <1>5, <2>2 DEF Intent
  <2> QED BY <1>5, <2>2, <2>3 DEF r, IntentKept
<1> QED BY <1>1, <1>3, <1>4, <1>5, RequestParts

LEMMA RecordedKept ==
    ASSUME NEW d \in Tables, NEW q \in Requests, Allowed(d, q), Recorded(d)
    PROVE  Recorded(Outcome(d, q))
<1> DEFINE r == Outcome(d, q)
<1>1. /\ r \in Tables /\ Shaped(d, q, r)
      /\ q.op = "event" => Effect(d, q.event, r)
      /\ q.op # "event" => r.inbox = d.inbox
  BY OutcomeShape, OutcomeRecords
<1> HIDE DEF r
<1>2. CASE q.op = "event" /\ q.event \in Events
  <2> DEFINE e == q.event
  <2>1. Effect(d, e, r)
    BY <1>1, <1>2
  <2>2. ASSUME NEW f \in r.inbox, f.aggregate \in Memberships
        PROVE  r.members[f.aggregate].status # "none"
    <3>1. CASE f \in d.inbox
      BY <2>1, <2>2, <3>1 DEF Effect, Recorded
    <3>2. CASE f = e /\ ~Superseded(e, d.inbox)
      BY <2>1, <2>2, <3>2 DEF Effect
    <3>3. CASE f = e /\ Superseded(e, d.inbox)
      <4>1. PICK g \in d.inbox : g.aggregate = e.aggregate
        BY <3>3 DEF Superseded
      <4> QED BY <2>1, <2>2, <3>3, <4>1 DEF Effect, Recorded
    <3> QED BY <2>1, <2>2, <3>1, <3>2, <3>3 DEF Effect
  <2>3. ASSUME NEW m \in Active(r)
        PROVE  \E g \in r.inbox : g.aggregate = m /\ g.type # "deleted"
    <3>1. CASE m \in Active(d)
      BY <2>1, <3>1 DEF Effect, Recorded
    <3>2. CASE m \notin Active(d)
      BY <2>1, <2>3, <3>2 DEF Effect
    <3> QED BY <3>1, <3>2
  <2> QED BY <2>2, <2>3 DEF Recorded, r
<1>3. CASE q.op # "event"
  <2>1. \A m \in Memberships : /\ d.members[m].status # "none" => r.members[m].status # "none"
                               /\ m \in Active(r) => m \in Active(d)
    BY <1>1, <1>3 DEF Shaped, Keeps, Deletes, Reserves, Unreserves, SameStatus, Active
  <2>2. Active(r) \subseteq Active(d) /\ r.inbox = d.inbox
    BY <1>1, <1>3, <2>1 DEF Active
  <2> QED BY <2>1, <2>2 DEF Recorded, r
<1> QED BY <1>2, <1>3, RequestParts

-----------------------------------------------------------------------------
(* An invitation's intent is committed before Clerk is asked to send it,   *)
(* and two sessions never use the same one.                                *)
Inviting(p) == request[p] \in Requests /\ request[p].op = "invite"

Asked ==
    \A p \in Processes : Inviting(p) =>
        /\ pc[p] \in {"waiting", "locked"} => db.intents[request[p].intent].status = "none"
        /\ pc[p] = "calling" => db.intents[request[p].intent].status # "none"
        /\ \A o \in Processes : Inviting(o) /\ request[o].intent = request[p].intent => o = p

(* Clerk sent only invitations with an intent, and a membership that it    *)
(* created by an invitation was created by one that it sent.               *)
Vouched ==
    /\ \A i \in invited : db.intents[i].status # "none"
    /\ \A e \in Events :
          e.aggregate \in Memberships /\ e.type = "created" /\ clerk[e.aggregate] # "none"
              => e.invitation \in invited \union {None}

(* The step of a commit, in terms of the tables *)
LEMMA CommitTables ==
    ASSUME IInv, PendingSeen, NEW p \in Processes, Commit(p)
    PROVE  \E s \in Tables, q \in Requests :
              /\ s = seen[p] /\ q = request[p] /\ SameButIntents(db, s) /\ Allowed(s, q)
              /\ Outcome(s, q) \in Tables /\ SameMembers(db', Outcome(s, q))
              /\ db'.inbox = Outcome(s, q).inbox
              /\ \A i \in Invitations : IntentKept(db, q, db', i)
              /\ q.op = "invite" => db'.intents[q.intent].status = "pending"
              /\ \A i \in Invitations : Outcome(s, q).intents[i].status # "pending"
                                           => db'.intents[i].status # "pending"
<1>1. PICK s \in Tables, q \in Requests :
         /\ s = seen[p] /\ q = request[p] /\ SameButIntents(db, s) /\ Allowed(s, q)
         /\ Outcome(s, q) \in Tables
         /\ db' \in Tables /\ SameMembers(db', Outcome(s, q))
  BY CommitOK
<1> DEFINE r == Outcome(s, q)
<1>2. pc[p] = "locked" /\ db' = Written(db, s, r)
  BY <1>1 DEF Commit
<1>3. /\ db.intents \in [Invitations -> Intent] /\ s.intents \in [Invitations -> Intent]
      /\ r.intents \in [Invitations -> Intent]
  BY <1>1, TablesParts DEF IInv, TypeParts
<1>4. \A i \in Invitations :
         db'.intents[i] = IF r.intents[i] = s.intents[i] THEN db.intents[i]
                                                         ELSE r.intents[i]
  BY <1>2, <1>3 DEF Written, Changed
<1>5. /\ q.op = "event" => Effect(s, q.event, r)
      /\ q.op # "event" => r.inbox = s.inbox
      /\ \A i \in Invitations : IntentKept(s, q, r, i)
      /\ q.op = "invite" => r.intents[q.intent].status = "pending"
  BY <1>1, OutcomeRecords
<1>6. db'.inbox = db.inbox \union (r.inbox \ s.inbox)
  BY <1>2 DEF Written
<1> HIDE DEF r
<1>7. db'.inbox = r.inbox
  BY <1>1, <1>5, <1>6 DEF Effect, SameButIntents
<1>8. \A i \in Invitations :
         "pending" \in {s.intents[i].status, db.intents[i].status}
             => db.intents[i] = s.intents[i]
  BY <1>1, <1>2 DEF PendingSeen
<1>9. \A i \in Invitations : IntentKept(db, q, db', i)
  BY <1>4, <1>5, <1>8 DEF IntentKept
<1>10. q.op = "invite" => q.intent \in Invitations /\ db'.intents[q.intent].status = "pending"
  BY <1>4, <1>5, <1>8, RequestParts
<1>11. \A i \in Invitations : r.intents[i].status # "pending"
                                 => db'.intents[i].status # "pending"
  BY <1>4, <1>8
<1> QED BY <1>1, <1>7, <1>9, <1>10, <1>11 DEF r

LEMMA IntentsLast ==
    ASSUME IInv, PendingSeen, [Next]_vars
    PROVE  \A i \in Invitations : db.intents[i].status # "none" => db'.intents[i].status # "none"
<1>0. db \in Tables
  BY DEF IInv, TypeParts
<1>1. ASSUME NEW p \in Processes, Commit(p), NEW i \in Invitations,
             db.intents[i].status # "none"
      PROVE  db'.intents[i].status # "none"
  <2>1. PICK q \in Requests : IntentKept(db, q, db', i)
    BY <1>1, CommitTables
  <2> QED BY <1>1, <2>1 DEF IntentKept
<1>2. CASE UNCHANGED db
  BY <1>2
<1>3. ASSUME NEW p \in Processes, TakeLock(p)
      PROVE  UNCHANGED db
  BY <1>3 DEF TakeLock
<1>4. ASSUME NEW i \in Invitations, PruneIntents(i)
      PROVE  \A j \in Invitations : db.intents[j].status # "none" => db'.intents[j].status # "none"
  BY <1>0, <1>4, TablesParts DEF PruneIntents, Tables, Intent
<1> QED BY <1>1, <1>2, <1>3, <1>4, StepMoves

LEMMA SameRecorded ==
    ASSUME NEW d, NEW s, d.inbox = s.inbox, SameMembers(d, s)
    PROVE  Recorded(d) <=> Recorded(s)
  BY DEF Recorded, SameMembers, Active

LEMMA RecordedAlways ==
    ASSUME IInv, PendingSeen, Recorded(db), [Next]_vars
    PROVE  Recorded(db')
<1>1. ASSUME NEW p \in Processes, Commit(p)
      PROVE  Recorded(db')
  <2>1. PICK s \in Tables, q \in Requests :
           /\ SameButIntents(db, s) /\ Allowed(s, q)
           /\ SameMembers(db', Outcome(s, q)) /\ db'.inbox = Outcome(s, q).inbox
    BY <1>1, CommitTables
  <2>2. Recorded(s)
    BY <2>1, SameRecorded DEF SameButIntents
  <2>3. Recorded(Outcome(s, q))
    BY <2>1, <2>2, RecordedKept
  <2> QED BY <2>1, <2>3, SameRecorded
<1>2. CASE UNCHANGED db
  BY <1>2
<1>3. ASSUME NEW p \in Processes, TakeLock(p)
      PROVE  UNCHANGED db
  BY <1>3 DEF TakeLock
<1>4. ASSUME NEW i \in Invitations, PruneIntents(i)
      PROVE  Recorded(db')
  <2>1. db'.inbox = db.inbox /\ SameMembers(db', db)
    BY <1>4 DEF PruneIntents, SameMembers, IInv, TypeParts, Tables
  <2> QED BY <2>1, SameRecorded
<1> QED BY <1>1, <1>2, <1>3, <1>4, StepMoves

LEMMA AskedKept ==
    ASSUME IInv, PendingSeen, SessionsCommand, Asked, [Next]_vars
    PROVE  Asked'
<1>0. /\ ProcessesOK /\ Workers \subseteq Processes /\ Sessions \subseteq Processes
      /\ Maintenance \in Processes /\ db \in Tables
  BY DEF IInv, TypeParts, Processes
<1>1. \A p \in Processes : Inviting(p) => request[p].intent \in Invitations
  <2>1. ASSUME NEW p \in Processes, Inviting(p)
        PROVE  request[p].intent \in Invitations
    <3>1. PICK q \in Requests : q = request[p] /\ q.op = "invite"
      BY <2>1 DEF Inviting
    <3> QED BY <3>1, RequestParts
  <2> QED BY <2>1
<1>2. CASE UNCHANGED <<db, pc, request>>
  BY <1>2 DEF Asked, Inviting
<1>3. ASSUME NEW p \in Processes, NEW step, NEW q, Becomes(p, step, q), UNCHANGED db,
             q = NoRequest \/ q.op # "invite"
      PROVE  Asked'
  <2>1. \A o \in Processes : /\ o # p => pc'[o] = pc[o] /\ request'[o] = request[o]
                             /\ request'[p] = q
    BY <1>0, <1>3 DEF Becomes, ProcessesOK
  <2>2. \A o \in Processes : Inviting(o)' => Inviting(o) /\ o # p
    BY <1>3, <2>1, ProcessesAssumption DEF Inviting
  <2> QED BY <1>3, <2>1, <2>2 DEF Asked
<1>4. ASSUME NEW p \in Processes, TakeLock(p)
      PROVE  Asked'
  <2>1. \A o \in Processes : pc'[o] = IF o = p THEN "locked" ELSE pc[o]
    BY <1>0, <1>4 DEF TakeLock, ProcessesOK
  <2>2. pc[p] = "waiting" /\ UNCHANGED <<db, request>>
    BY <1>4 DEF TakeLock
  <2> QED BY <2>1, <2>2 DEF Asked, Inviting
<1>5. ASSUME NEW s \in Sessions, NEW q \in Commands, Command(s, q)
      PROVE  Asked'
  <2>1. CASE q.op # "invite"
    BY <1>0, <1>3, <1>5, <2>1 DEF Command
  <2>2. CASE q.op = "invite"
    <3>1. /\ s \in Processes /\ UNCHANGED db
          /\ \A o \in Processes : /\ pc'[o] = IF o = s THEN "waiting" ELSE pc[o]
                                  /\ request'[o] = IF o = s THEN q ELSE request[o]
      BY <1>0, <1>5 DEF Command, Becomes, ProcessesOK
    <3>2. /\ db.intents[q.intent].status = "none"
          /\ \A o \in Processes : Inviting(o) => request[o].intent # q.intent
      BY <1>5, <2>2, ProcessesAssumption
         DEF Command, FreshIntent, Inviting, SessionsCommand
    <3>3. \A o \in Processes : Inviting(o)' => o = s \/ Inviting(o)
      BY <3>1 DEF Inviting
    <3> QED BY <3>1, <3>2, <3>3 DEF Asked
  <2> QED BY <2>1, <2>2
<1>6. ASSUME NEW p \in Processes, Commit(p)
      PROVE  Asked'
  <2>1. PICK q \in Requests :
           /\ q = request[p] /\ \A i \in Invitations : IntentKept(db, q, db', i)
           /\ q.op = "invite" => db'.intents[q.intent].status = "pending"
    BY <1>6, CommitTables
  <2>2. /\ \A o \in Processes \ {p} : pc'[o] = pc[o] /\ request'[o] = request[o]
        /\ \/ request'[p] = q /\ pc'[p] = "calling"
           \/ request'[p] = NoRequest
    BY <1>0, <1>6, <2>1 DEF Commit, Becomes, ProcessesOK
  <2>3. \A o \in Processes : Inviting(o)' => Inviting(o) /\ request'[o] = request[o]
    BY <2>1, <2>2, ProcessesAssumption DEF Inviting
  <2>4. ASSUME NEW o \in Processes, Inviting(o)
        PROVE  o # p => (db'.intents[request[o].intent].status = "none"
                            <=> db.intents[request[o].intent].status = "none")
    <3> DEFINE i == request[o].intent
    <3>1. i \in Invitations /\ IntentKept(db, q, db', i)
      BY <1>1, <2>1, <2>4
    <3>2. q.op = "invite" /\ i = q.intent => o = p
      BY <2>1, <2>4 DEF Asked, Inviting
    <3> QED BY <3>1, <3>2 DEF IntentKept
  <2>5. Inviting(p)' => pc'[p] = "calling" /\ db'.intents[request'[p].intent].status = "pending"
    BY <2>1, <2>2, ProcessesAssumption DEF Inviting
  <2> QED BY <2>2, <2>3, <2>4, <2>5 DEF Asked
<1>7. ASSUME NEW i \in Invitations, PruneIntents(i)
      PROVE  Asked'
  <2>1. \A j \in Invitations : db.intents[j].status = "none" <=> db'.intents[j].status = "none"
    BY <1>0, <1>7, TablesParts DEF PruneIntents, Tables, Intent
  <2>2. UNCHANGED <<pc, request>>
    BY <1>7 DEF PruneIntents
  <2> QED BY <1>1, <2>1, <2>2 DEF Asked, Inviting
<1>8. CASE ClerkStep
  BY <1>2, <1>8 DEF ClerkStep, ClerkJoins, ClerkRemoves, ClerkRemovesLate
<1>9. CASE TransactionStep
  BY <1>3, <1>4, <1>6, <1>9 DEF TransactionStep, Refuse, Abort
<1>10. CASE WorkerStep
  BY <1>0, <1>2, <1>3, <1>10 DEF WorkerStep, Deliver, DeliverDuplicate, vars
<1>11. CASE SessionStep
  BY <1>0, <1>3, <1>5, <1>11 DEF SessionStep, RemovalAnswered, RemovalRefused,
     RemovalUnanswered, InvitationAnswered, InvitationRefused, InvitationUnanswered
<1>12. CASE MaintenanceStep
  BY <1>0, <1>2, <1>3, <1>7, <1>12 DEF MaintenanceStep, ListRemovals, PresenceUnknown,
     FindPresent, FindAbsent
<1>13. CASE UNCHANGED vars
  BY <1>2, <1>13 DEF vars
<1> QED BY <1>8, <1>9, <1>10, <1>11, <1>12, <1>13 DEF Next

LEMMA VouchedKept ==
    ASSUME IInv, PendingSeen, Asked, Vouched, [Next]_vars
    PROVE  Vouched'
<1>0. OutsideOK /\ ProcessesOK /\ Sessions \subseteq Processes
  BY DEF IInv, TypeParts, Processes
<1>1. \A m \in Memberships : clerk'[m] # "none" => clerk[m] # "none" \/ ClerkJoins(m)
  <2>1. ASSUME NEW user, clerk' = WithoutMember(user)
        PROVE  \A m \in Memberships : clerk'[m] # "none" => clerk[m] # "none"
    BY <2>1 DEF WithoutMember, Members, Of
  <2>2. CASE ClerkStep
    <3>1. ASSUME NEW n \in Memberships, ClerkJoins(n) \/ ClerkRemoves(n),
                 NEW m \in Memberships, clerk'[m] # "none", clerk[m] = "none"
          PROVE  ClerkJoins(m)
      BY <1>0, <3>1 DEF ClerkJoins, ClerkRemoves, OutsideOK
    <3> QED BY <2>1, <2>2, <3>1 DEF ClerkStep, ClerkRemovesLate
  <2>3. CASE SessionStep
    BY <2>1, <2>3 DEF SessionStep, Command, RemovalAnswered, RemovalRefused,
       RemovalUnanswered, InvitationAnswered, InvitationRefused, InvitationUnanswered
  <2>4. CASE UNCHANGED clerk
    BY <2>4
  <2> QED BY <2>2, <2>3, <2>4 DEF Next, TransactionStep, TakeLock, Commit, Refuse, Abort,
          WorkerStep, Deliver, DeliverDuplicate, MaintenanceStep, ListRemovals,
          PresenceUnknown, FindPresent, FindAbsent, PruneIntents, vars
<1>2. invited \subseteq invited' /\ \A i \in invited' : db.intents[i].status # "none"
  <2>1. CASE UNCHANGED invited
    BY <2>1 DEF Vouched
  <2>2. ASSUME NEW s \in Sessions, InvitationAnswered(s) \/ InvitationUnanswered(s)
        PROVE  invited \subseteq invited' /\ \A i \in invited' : db.intents[i].status # "none"
    <3>1. /\ pc[s] = "calling" /\ request[s].op = "invite"
          /\ invited' \in {invited, invited \union {request[s].intent}}
      BY <2>2 DEF InvitationAnswered, InvitationUnanswered
    <3>2. Inviting(s)
      BY <1>0, <3>1 DEF ProcessesOK, Inviting
    <3>3. db.intents[request[s].intent].status # "none"
      BY <1>0, <3>1, <3>2 DEF Asked
    <3> QED BY <3>1, <3>3 DEF Vouched
  <2>3. CASE SessionStep
    BY <2>1, <2>2, <2>3 DEF SessionStep, Command, RemovalAnswered, RemovalRefused,
       RemovalUnanswered, InvitationRefused
  <2> QED BY <2>1, <2>3 DEF Next, ClerkStep, ClerkJoins, ClerkRemoves, ClerkRemovesLate,
          TransactionStep, TakeLock, Commit, Refuse, Abort,
          WorkerStep, Deliver, DeliverDuplicate, MaintenanceStep, ListRemovals,
          PresenceUnknown, FindPresent, FindAbsent, PruneIntents, vars
<1>3. invited' \subseteq Invitations
  BY StepKeepsInv DEF IInv, TypeParts, OutsideOK
<1>4. \A i \in invited' : db'.intents[i].status # "none"
  BY <1>2, <1>3, IntentsLast
<1>5. ASSUME NEW e \in Events, e.aggregate \in Memberships, e.type = "created",
             clerk'[e.aggregate] # "none"
      PROVE  e.invitation \in invited' \union {None}
  BY <1>1, <1>2, <1>5 DEF Vouched, ClerkJoins
<1> QED BY <1>4, <1>5 DEF Vouched

-----------------------------------------------------------------------------
InvitationInv == AuthorityInv /\ Recorded(db) /\ Asked /\ Vouched

LEMMA InvitationInvariant == Spec => []InvitationInv
<1>1. ASSUME Init
      PROVE  Recorded(db) /\ Asked /\ Vouched
  BY <1>1, ProcessesAssumption
     DEF Init, EmptyTables, Recorded, Active, Asked, Inviting, Vouched
<1>2. InvitationInv /\ [Next]_vars => InvitationInv'
  <2>1. AuthorityInv /\ [Next]_vars => AuthorityInv'
    BY StepKeepsInv, PendingSeenKept, SessionsCommandKept DEF AuthorityInv
  <2> QED BY <2>1, RecordedAlways, AskedKept, VouchedKept DEF InvitationInv, AuthorityInv
<1>3. Init => InvitationInv
  <2>1. Init => PendingSeen /\ SessionsCommand
    BY ProcessesAssumption DEF Init, PendingSeen, SessionsCommand
  <2> QED BY <1>1, <2>1, InitOK DEF InvitationInv, AuthorityInv
<1> QED BY <1>2, <1>3, PTL DEF Spec

(* Clerk's events come in an order in which a membership is created before *)
(* it is updated, and once: the one thing organization-service takes on    *)
(* trust here (see the run in which an update comes first).                *)
CreationsFirst ==
    /\ \A e, f \in db.inbox :
          e.type = "created" /\ f.type = "created" /\ e.aggregate = f.aggregate => e = f
    /\ \A f \in db.inbox : f.type = "updated" =>
          \E e \in db.inbox : e.type = "created" /\ e.aggregate = f.aggregate

LEMMA InvitationConsumedKept ==
    ASSUME InvitationInv, InvitationConsumed, CreationsFirst, CreationsFirst', [Next]_vars
    PROVE  InvitationConsumed'
<1>0. IInv /\ PendingSeen /\ db \in Tables
  BY DEF InvitationInv, AuthorityInv, IInv, TypeParts
<1>1. ASSUME NEW e \in db.inbox, e.aggregate \in Memberships,
             e.type = "created", e.invitation # None
      PROVE  e.invitation \in Invitations /\ db.intents[e.invitation].status # "none"
  <2>1. e \in Events
    BY <1>0, <1>1, TablesParts
  <2>2. db.members[e.aggregate].status \in {"active", "deleted"}
    BY <1>0, <1>1, TablesParts DEF InvitationInv, Recorded, Row, RowStatuses
  <2>3. clerk[e.aggregate] # "none"
    BY <1>0, <1>1, <2>2 DEF IInv, TablesSound, Follows, Active, Deleted
  <2>4. e.invitation \in invited
    BY <1>1, <2>1, <2>3 DEF InvitationInv, Vouched
  <2> QED BY <1>0, <2>4 DEF InvitationInv, Vouched, IInv, TypeParts, OutsideOK
<1>2. ASSUME NEW p \in Processes, Commit(p)
      PROVE  InvitationConsumed'
  <2>1. PICK s \in Tables, q \in Requests :
              /\ s = seen[p] /\ q = request[p] /\ SameButIntents(db, s) /\ Allowed(s, q)
              /\ Outcome(s, q) \in Tables /\ SameMembers(db', Outcome(s, q))
              /\ db'.inbox = Outcome(s, q).inbox
              /\ \A i \in Invitations : IntentKept(db, q, db', i)
              /\ q.op = "invite" => db'.intents[q.intent].status = "pending"
              /\ \A i \in Invitations : Outcome(s, q).intents[i].status # "pending"
                                           => db'.intents[i].status # "pending"
    BY <1>0, <1>2, CommitTables
  <2> DEFINE r == Outcome(s, q)
  <2>2. /\ q.op = "event" => q.event \in Events /\ Effect(s, q.event, r)
        /\ q.op # "event" => r.inbox = s.inbox /\ Shaped(s, q, r)
    BY <2>1, OutcomeRecords, OutcomeShape, RequestParts
  <2>3. r.inbox \subseteq Events
    BY <2>1, TablesParts
  <2> HIDE DEF r
  <2>4. Active(db) = Active(s) /\ Active(db') = Active(r) /\ db.inbox = s.inbox
    BY <2>1 DEF SameButIntents, SameMembers, Active, r
  <2>5. SUFFICES ASSUME NEW e \in db'.inbox, e.type = "created", e.invitation # None,
                        e.aggregate \in Active(db')
                 PROVE  db'.intents[e.invitation].status # "pending"
    BY DEF InvitationConsumed
  <2> DEFINE m == e.aggregate
             i == e.invitation
  <2>6. m \in Memberships /\ i \in Invitations
    BY <2>1, <2>3, <2>5, EventParts DEF Active, r
  <2>7. CASE e \in db.inbox
    <3>1. s.members[m].status # "none"
      BY <2>1, <2>6, <2>7 DEF InvitationInv, Recorded, SameButIntents, SameMembers
    <3>2. m \in Active(s)
      <4>1. CASE q.op = "event"
        BY <2>2, <2>4, <2>5, <3>1, <4>1 DEF Effect
      <4>2. CASE q.op # "event"
        BY <2>2, <2>4, <2>5, <4>2
           DEF Shaped, Keeps, Deletes, Reserves, Unreserves, SameStatus, Active
      <4> QED BY <4>1, <4>2
    <3>3. db.intents[i].status # "pending"
      BY <2>4, <2>5, <2>7, <3>2 DEF InvitationConsumed
    <3>4. db.intents[i].status # "none"
      BY <1>1, <2>5, <2>6, <2>7
    <3>5. ~(q.op = "invite" /\ i = q.intent)
      <4>1. pc[p] = "locked"
        BY <1>2 DEF Commit
      <4>2. SUFFICES ASSUME q.op = "invite", i = q.intent
                     PROVE  db.intents[i].status = "none"
        BY <3>4
      <4> QED BY <2>1, <4>1, <4>2 DEF InvitationInv, Asked, Inviting
    <3>6. IntentKept(db, q, db', i)
      BY <2>1, <2>6
    <3> QED BY <3>3, <3>5, <3>6 DEF IntentKept
  <2>8. CASE e \notin db.inbox
    <3>1. q.op = "event" /\ e = q.event /\ Effect(s, e, r)
      BY <2>1, <2>2, <2>4, <2>5, <2>8 DEF Effect, r
    <3>2. m \notin Active(db)
      <4> SUFFICES ASSUME m \in Active(db)
                   PROVE  FALSE
        OBVIOUS
      <4>1. PICK g \in db.inbox : g.aggregate = m /\ g.type # "deleted"
        BY DEF InvitationInv, Recorded
      <4>2. g.type \in {"created", "updated"}
        BY <1>0, <4>1, TablesParts, EventParts DEF EventTypes
      <4>3. PICK f \in db.inbox : f.type = "created" /\ f.aggregate = m
        BY <4>1, <4>2 DEF CreationsFirst
      <4>4. f \in db'.inbox
        BY <2>1, <2>4, <3>1 DEF Effect, r
      <4>5. f = e
        BY <2>5, <4>3, <4>4 DEF CreationsFirst
      <4> QED BY <2>8, <4>5
    <3>3. r.intents[i].status # "pending"
      BY <2>4, <2>5, <3>1, <3>2 DEF Effect
    <3> QED BY <2>1, <2>6, <3>3 DEF r
  <2> QED BY <2>7, <2>8
<1>3. CASE UNCHANGED db
  BY <1>3 DEF InvitationConsumed, Active
<1>4. ASSUME NEW p \in Processes, TakeLock(p)
      PROVE  UNCHANGED db
  BY <1>4 DEF TakeLock
<1>5. ASSUME NEW j \in Invitations, PruneIntents(j)
      PROVE  InvitationConsumed'
  <2>1. /\ db'.inbox = db.inbox /\ db'.members = db.members
        /\ \A i \in Invitations : db'.intents[i].status = "pending"
                                     => db.intents[i].status = "pending"
    BY <1>0, <1>5, TablesParts DEF PruneIntents, Tables, Intent
  <2>2. Active(db') = Active(db)
    BY <2>1 DEF Active
  <2>3. \A e \in db.inbox : e.invitation \in Invitations \union {None}
    BY <1>0, TablesParts, EventParts
  <2> QED BY <2>1, <2>2, <2>3 DEF InvitationConsumed
<1> QED BY <1>0, <1>2, <1>3, <1>4, <1>5, StepMoves

(* If Clerk's events of a membership begin with its one creation, an       *)
(* invited member who joins by the invitation consumes its intent          *)
(* (insertMembership, ConsumeInvitationIntent, createInvitationIntent).    *)
THEOREM InvitationsAlwaysConsumed ==
    Spec /\ []CreationsFirst => []InvitationConsumed
<1>1. Init => InvitationConsumed
  BY DEF Init, EmptyTables, InvitationConsumed
<1>2. InvitationInv /\ InvitationConsumed /\ CreationsFirst /\ CreationsFirst' /\ [Next]_vars
         => InvitationConsumed'
  BY InvitationConsumedKept
<1> QED BY <1>1, <1>2, InvitationInvariant, PTL DEF Spec

-----------------------------------------------------------------------------
(* The refinement of OrganizationMembers.  Two sets of tables show the     *)
(* same members:                                                           *)
Shows(d, s) ==
    /\ Statuses(d) = Statuses(s) /\ RolesOf(d) = RolesOf(s)
    /\ d.reserved = s.reserved /\ Offers(d) = Offers(s)
    /\ d.org.bootstrapped = s.org.bootstrapped

(* The tables r, whose members have the given roles but for a first owner: *)
(* MayFound of OrganizationMembers.                                        *)
Founds(d, r, roles) ==
    \/ RolesOf(r) = roles /\ r.org.bootstrapped = d.org.bootstrapped
    \/ /\ ~d.org.bootstrapped /\ r.org.bootstrapped
       /\ \E c \in Memberships :
             /\ r.members[c].status = "active" /\ c \notin r.reserved
             /\ \A m \in Of(UserOf[c]) : r.members[m].status # "deleted"
             /\ RolesOf(r) = [roles EXCEPT ![c] = "owner"]

(* The members in the abstract state and in the next one *)
LEMMA RosterSets ==
    ASSUME NEW d \in Tables, Shows(db, d)
    PROVE  /\ Roster!Active = Active(d) /\ Roster!Effective = Effective(d)
           /\ Roster!Owners = Owners(d)
           /\ \A user : Roster!Of(user) = Of(user)
<1>1. \A m \in Memberships : Statuses(db)[m] = d.members[m].status
                             /\ RolesOf(db)[m] = d.members[m].role
  BY DEF Shows, Statuses, RolesOf
<1>2. db.reserved = d.reserved
  BY DEF Shows
<1>3. Roster!Active = Active(d)
  BY <1>1 DEF Roster!Active, Active
<1>4. Roster!Effective = Effective(d)
  BY <1>2, <1>3 DEF Roster!Effective, Effective
<1>5. Roster!Owners = Owners(d)
  BY <1>1, <1>4 DEF Roster!Owners, Owners, Effective, Active
<1>6. \A user : Roster!Of(user) = Of(user)
  BY DEF Roster!Of, Of
<1> QED BY <1>3, <1>4, <1>5, <1>6

OnePerUser(d) == \A m, n \in Active(d) : UserOf[m] = UserOf[n] => m = n

(* A bootstrap crowns the creator's one effective member, or nobody *)
LEMMA BootstrapFounds ==
    ASSUME NEW d \in Tables, NEW k \in Tables,
           OnePerUser(k), k.org.bootstrapped = d.org.bootstrapped
    PROVE  LET r == Bootstrap(k)
           IN /\ Statuses(r) = Statuses(k) /\ r.reserved = k.reserved
              /\ Offers(r) = Offers(k)
              /\ Founds(d, r, RolesOf(k))
<1> DEFINE candidates == Of(k.org.creator) \intersect Effective(k)
           crowned == [m \in Memberships |->
                          IF m \in candidates THEN [k.members[m] EXCEPT !.role = "owner"]
                                              ELSE k.members[m]]
           lost == [k EXCEPT !.org.eligible = FALSE]
           won == [k EXCEPT !.members = crowned, !.org.bootstrapped = TRUE]
           r == Bootstrap(k)
<1>1. k.org \in OrgRow /\ k.members \in [Memberships -> Row]
  BY TablesParts
<1>2. \/ r \in {k, lost}
      \/ /\ r = won /\ ~k.org.bootstrapped /\ candidates # {}
         /\ Of(k.org.creator) \intersect Deleted(k) = {}
  BY DEF Bootstrap, AwaitsBootstrap
<1>3. /\ r.intents = k.intents /\ r.reserved = k.reserved
      /\ \A m \in Memberships : r.members[m].status = k.members[m].status
  BY BootstrapShape
<1>4. Statuses(r) = Statuses(k) /\ Offers(r) = Offers(k)
  BY <1>3 DEF Statuses, Offers
<1>5. CASE r \in {k, lost}
  <2>1. lost.members = k.members /\ lost.org.bootstrapped = k.org.bootstrapped
    BY <1>1 DEF Tables, OrgRow
  <2> HIDE DEF lost
  <2>2. RolesOf(r) = RolesOf(k) /\ r.org.bootstrapped = d.org.bootstrapped
    BY <1>5, <2>1 DEF RolesOf
  <2> QED BY <1>3, <1>4, <2>2 DEF Founds
<1>6. CASE /\ r = won /\ ~k.org.bootstrapped /\ candidates # {}
           /\ Of(k.org.creator) \intersect Deleted(k) = {}
  <2>1. PICK c \in candidates : TRUE
    BY <1>6
  <2>2. /\ c \in Memberships /\ UserOf[c] = k.org.creator
        /\ c \in Active(k) /\ c \notin k.reserved
    BY DEF Of, Effective
  <2>3. \A m \in candidates : m = c
    BY <2>2 DEF Of, Effective, OnePerUser
  <2>4. won.members = crowned /\ won.org.bootstrapped
    BY DEF Tables
  <2> HIDE DEF won
  <2>5. \A m \in Memberships :
           r.members[m].role = IF m = c THEN "owner" ELSE k.members[m].role
    BY <1>1, <1>6, <2>1, <2>3, <2>4 DEF Row
  <2>6. RolesOf(r) = [RolesOf(k) EXCEPT ![c] = "owner"]
    BY <2>5 DEF RolesOf
  <2>7. \A m \in Of(UserOf[c]) : r.members[m].status # "deleted"
    BY <1>3, <1>6, <2>2 DEF Of, Deleted
  <2>8. r.members[c].status = "active" /\ c \notin r.reserved
    BY <1>3, <2>2 DEF Active
  <2>9. ~d.org.bootstrapped /\ r.org.bootstrapped
    BY <1>6, <2>4
  <2>10. Founds(d, r, RolesOf(k))
    BY <2>2, <2>6, <2>7, <2>8, <2>9 DEF Founds
  <2> QED BY <1>3, <1>4, <2>10
<1> QED BY <1>2, <1>5, <1>6

(* What an event makes of the members, before and after the bootstrap that *)
(* ends it                                                                 *)
Entering(d, r, m) ==
    /\ m \in Memberships /\ d.members[m].status = "none"
    /\ Active(d) \intersect Of(UserOf[m]) = {}
    /\ Statuses(r) = [Statuses(d) EXCEPT ![m] = "active"]
    /\ r.reserved = d.reserved

Found(d, r) ==
    /\ Statuses(r) = Statuses(d) /\ r.reserved = d.reserved /\ Offers(r) = Offers(d)
    /\ Founds(d, r, RolesOf(d))

Joined(d, r, m) ==
    /\ Entering(d, r, m)
    /\ \/ \E role \in {"admin", "viewer"} :
             /\ Offers(r) = Offers(d)
             /\ Founds(d, r, [RolesOf(d) EXCEPT ![m] = role])
       \/ \E i \in Invitations :
             /\ Offers(d)[i] # "none" /\ Offers(r) = [Offers(d) EXCEPT ![i] = "none"]
             /\ Founds(d, r, [RolesOf(d) EXCEPT ![m] = Offers(d)[i]])

Left(d, r, m) ==
    /\ m \in Memberships
    /\ Statuses(r) = [Statuses(d) EXCEPT ![m] = "deleted"]
    /\ r.reserved = d.reserved \ {m} /\ Offers(r) = Offers(d)
    /\ Founds(d, r, RolesOf(d))

(* before it: the roles are exactly those of the members *)
Unfounded(d, r) == r.org.bootstrapped = d.org.bootstrapped

LEMMA BootstrapAfter ==
    ASSUME NEW d \in Tables, NEW k \in Tables, OnePerUser(k), Unfounded(d, k)
    PROVE  LET r == Bootstrap(k)
           IN /\ Found(d, k) => Found(d, r)
              /\ \A m \in Memberships : /\ Joined(d, k, m) => Joined(d, r, m)
                                        /\ Left(d, k, m) => Left(d, r, m)
<1> DEFINE r == Bootstrap(k)
<1>1. /\ Statuses(r) = Statuses(k) /\ r.reserved = k.reserved
      /\ Offers(r) = Offers(k) /\ Founds(d, r, RolesOf(k))
  BY BootstrapFounds DEF Unfounded
<1>2. \A roles : Founds(d, k, roles) => RolesOf(k) = roles
  BY DEF Founds, Unfounded
<1> HIDE DEF r
<1>3. Found(d, k) => Found(d, r)
  BY <1>1, <1>2 DEF Found
<1>4. \A m \in Memberships : Joined(d, k, m) => Joined(d, r, m)
  BY <1>1, <1>2 DEF Joined, Entering
<1>5. \A m \in Memberships : Left(d, k, m) => Left(d, r, m)
  BY <1>1, <1>2 DEF Left
<1> QED BY <1>3, <1>4, <1>5 DEF r

LEMMA OnePerUserKept ==
    ASSUME NEW d \in Tables, NEW r \in Tables, OnePerUser(d)
    PROVE  /\ Keeps(d, r) => OnePerUser(r)
           /\ \A m \in Memberships : Joins(d, r, m) \/ Deletes(d, r, m) => OnePerUser(r)
<1>1. Keeps(d, r) => Active(r) = Active(d)
  BY DEF Keeps, SameStatus, Active
<1>2. ASSUME NEW m \in Memberships, Joins(d, r, m)
      PROVE  OnePerUser(r)
  <2>1. Active(r) = Active(d) \union {m}
    BY <1>2 DEF Joins, SameStatus, Active
  <2>2. \A n \in Active(d) : UserOf[n] # UserOf[m]
    BY <1>2 DEF Joins, Of, Active
  <2> QED BY <2>1, <2>2 DEF OnePerUser
<1>3. ASSUME NEW m \in Memberships, Deletes(d, r, m)
      PROVE  OnePerUser(r)
  <2>1. Active(r) = Active(d) \ {m}
    BY <1>3 DEF Deletes, SameStatus, Active
  <2> QED BY <2>1 DEF OnePerUser
<1> QED BY <1>1, <1>2, <1>3 DEF OnePerUser

LEMMA WithDeletedLeft ==
    ASSUME NEW d \in Tables, NEW m \in Memberships
    PROVE  LET r == WithDeleted(d, m)
           IN /\ Left(d, r, m) /\ r.org = d.org /\ RolesOf(r) = RolesOf(d)
<1> DEFINE members == [d.members EXCEPT ![m].status = "deleted"]
           r == WithDeleted(d, m)
<1>1. d.members \in [Memberships -> Row]
  BY TablesParts
<1>2. /\ r.members = members /\ r.reserved = d.reserved \ {m}
      /\ r.intents = d.intents /\ r.org = d.org
  BY DEF WithDeleted, Tables
<1>3. \A n \in Memberships :
         /\ members[n].status = IF n = m THEN "deleted" ELSE d.members[n].status
         /\ members[n].role = d.members[n].role
  BY <1>1 DEF Row
<1> HIDE DEF r, members
<1>4. Statuses(r) = [Statuses(d) EXCEPT ![m] = "deleted"] /\ RolesOf(r) = RolesOf(d)
  BY <1>2, <1>3 DEF Statuses, RolesOf
<1>5. Offers(r) = Offers(d)
  BY <1>2 DEF Offers
<1> QED BY <1>2, <1>4, <1>5 DEF Left, Founds, r

LEMMA WithJoinedJoined ==
    ASSUME NEW d \in Tables, NEW e \in Events, e.aggregate \in Memberships,
           d.members[e.aggregate].status = "none",
           Active(d) \intersect Of(UserOf[e.aggregate]) = {}
    PROVE  Joined(d, WithJoined(d, e), e.aggregate) /\ Unfounded(d, WithJoined(d, e))
<1> DEFINE m == e.aggregate
           wasInvited == Invited(d, e)
           role == IF wasInvited THEN d.intents[e.invitation].role
                              ELSE InitialApplicationRole(e.clerkRole)
           renounces == wasInvited /\ AwaitsBootstrap(d) /\ d.org.creator = UserOf[m]
           members == [d.members EXCEPT ![m] = [status |-> "active", role |-> role]]
           intents == [i \in Invitations |->
                          IF wasInvited /\ i = e.invitation
                          THEN [d.intents[i] EXCEPT !.status = "consumed"]
                          ELSE d.intents[i]]
           org == [d.org EXCEPT !.eligible = @ /\ ~renounces]
           r == WithJoined(d, e)
<1>1. /\ d.members \in [Memberships -> Row] /\ d.intents \in [Invitations -> Intent]
      /\ d.org \in OrgRow /\ e.invitation \in Invitations \union {None}
  BY TablesParts, EventParts
<1>2. r.members = members /\ r.intents = intents /\ r.org = org /\ r.reserved = d.reserved
  BY DEF WithJoined, Tables
<1>3. org.bootstrapped = d.org.bootstrapped
  BY <1>1 DEF OrgRow
<1>4. wasInvited => e.invitation \in Invitations /\ d.intents[e.invitation].status = "pending"
  BY <1>1 DEF Invited
<1>5. \A i \in Invitations :
         IF wasInvited /\ i = e.invitation
         THEN intents[i].status = "consumed" ELSE intents[i] = d.intents[i]
  BY <1>1 DEF Intent
<1>6. ~wasInvited => role \in {"admin", "viewer"}
  BY DEF InitialApplicationRole
<1>7. \A n \in Memberships :
         /\ members[n].status = IF n = m THEN "active" ELSE d.members[n].status
         /\ members[n].role = IF n = m THEN role ELSE d.members[n].role
  BY <1>1
<1>8. wasInvited => role = d.intents[e.invitation].role
  OBVIOUS
<1>9. wasInvited => role \in AppRoles
  BY <1>1, <1>4, <1>8 DEF Intent
<1> HIDE DEF r, members, intents, org, role, wasInvited
<1>10. /\ Statuses(r) = [Statuses(d) EXCEPT ![m] = "active"]
       /\ RolesOf(r) = [RolesOf(d) EXCEPT ![m] = role]
  BY <1>2, <1>7 DEF Statuses, RolesOf
<1>11. Entering(d, r, m) /\ Unfounded(d, r)
  BY <1>2, <1>3, <1>10 DEF Entering, Unfounded
<1>12. \A roles : RolesOf(r) = roles => Founds(d, r, roles)
  BY <1>2, <1>3 DEF Founds
<1>13. CASE ~wasInvited
  <2>1. Offers(r) = Offers(d)
    BY <1>2, <1>5, <1>13 DEF Offers
  <2> QED BY <1>6, <1>10, <1>11, <1>12, <1>13, <2>1 DEF Joined, r
<1>14. CASE wasInvited
  <2> DEFINE i == e.invitation
  <2>1. i \in Invitations /\ Offers(d)[i] = role
    BY <1>4, <1>8, <1>14 DEF Offers
  <2>2. Offers(d)[i] # "none"
    BY <1>9, <1>14, <2>1 DEF AppRoles
  <2>3. Offers(r) = [Offers(d) EXCEPT ![i] = "none"]
    BY <1>2, <1>5, <1>14, <2>1 DEF Offers
  <2>4. Founds(d, r, [RolesOf(d) EXCEPT ![m] = Offers(d)[i]])
    BY <1>10, <1>12, <2>1
  <2> QED BY <1>11, <2>1, <2>2, <2>3, <2>4 DEF Joined, r
<1> QED BY <1>13, <1>14

(* Tables that differ from d in the inbox and the organization alone       *)
SameRoster(d, k) ==
    /\ k \in Tables /\ k.members = d.members /\ k.reserved = d.reserved
    /\ k.intents = d.intents /\ k.org.bootstrapped = d.org.bootstrapped

LEMMA SameRosterMoves ==
    ASSUME NEW d \in Tables, NEW k, SameRoster(d, k), NEW m \in Memberships, NEW r
    PROVE  /\ Found(d, k) /\ Unfounded(d, k)
           /\ OnePerUser(d) <=> OnePerUser(k)
           /\ Found(k, r) => Found(d, r)
           /\ Joined(k, r, m) => Joined(d, r, m)
           /\ Left(k, r, m) => Left(d, r, m)
           /\ Unfounded(k, r) => Unfounded(d, r)
<1>1. /\ Statuses(d) = Statuses(k) /\ RolesOf(d) = RolesOf(k) /\ Offers(d) = Offers(k)
      /\ Active(d) = Active(k) /\ d.members = k.members /\ d.reserved = k.reserved
      /\ k.org.bootstrapped = d.org.bootstrapped
  BY DEF SameRoster, Statuses, RolesOf, Offers, Active
<1>2. \A roles : Founds(k, r, roles) <=> Founds(d, r, roles)
  BY <1>1 DEF Founds
<1>3. Found(d, k) /\ Unfounded(d, k)
  BY <1>1 DEF Found, Founds, Unfounded
<1> QED BY <1>1, <1>2, <1>3 DEF OnePerUser, Found, Joined, Entering, Left, Unfounded

(* An event: nothing but perhaps a first owner, a joining or a leaving *)
LEMMA EventMoves ==
    ASSUME NEW d \in Tables, NEW e \in Events, EventAllowed(d, e), OnePerUser(d)
    PROVE  LET r == ApplyEvent(d, e)
           IN Found(d, r) \/ \E m \in Memberships : Joined(d, r, m) \/ Left(d, r, m)
<1> DEFINE k == [d EXCEPT !.inbox = @ \union {e}]
           m == e.aggregate
           r == ApplyEvent(d, e)
           Goal == Found(d, r) \/ \E n \in Memberships : Joined(d, r, n) \/ Left(d, r, n)
<1> SUFFICES Goal
  OBVIOUS
<1>0. d.org \in OrgRow /\ e.creator \in Users \union {None}
  BY TablesParts, EventParts
<1>1. SameRoster(d, k)
  <2>1. d.inbox \union {e} \in SUBSET Events
    BY TablesParts
  <2>2. k = [d EXCEPT !.inbox = d.inbox \union {e}]
    BY DEF Tables
  <2> QED BY <2>1, <2>2, TablesUpdated DEF SameRoster, Tables
<1>2. ASSUME NEW org \in OrgRow, org.bootstrapped = d.org.bootstrapped
      PROVE  SameRoster(d, [k EXCEPT !.org = org])
  <2>1. [k EXCEPT !.org = org] \in Tables
    BY <1>1, TablesUpdated DEF SameRoster
  <2>2. /\ [k EXCEPT !.org = org].members = k.members
        /\ [k EXCEPT !.org = org].reserved = k.reserved
        /\ [k EXCEPT !.org = org].intents = k.intents
        /\ [k EXCEPT !.org = org].org = org
    BY <1>1 DEF Tables, SameRoster
  <2> QED BY <1>1, <1>2, <2>1, <2>2 DEF SameRoster
<1>3. k.org = d.org /\ k.members = d.members
  BY DEF Tables
<1>4. ASSUME NEW x, SameRoster(d, x), r = x \/ r = Bootstrap(x)
      PROVE  Goal
  <2>1. Found(d, x) /\ Unfounded(d, x) /\ OnePerUser(x) /\ x \in Tables
    <3>1. CASE Memberships = {}
      BY <1>4, <3>1 DEF SameRoster, Found, Founds, Unfounded, OnePerUser, Active,
         Statuses, RolesOf, Offers
    <3>2. CASE Memberships # {}
      BY <1>4, <3>2, SameRosterMoves DEF SameRoster
    <3> QED BY <3>1, <3>2
  <2>2. Found(d, Bootstrap(x))
    BY <2>1, BootstrapAfter
  <2> QED BY <1>4, <2>1, <2>2
<1>5. CASE Superseded(e, d.inbox)
  BY <1>1, <1>4, <1>5 DEF ApplyEvent
<1>6. CASE ~Superseded(e, d.inbox) /\ m = Org
  <2> DEFINE gone == [d.org EXCEPT !.status = "deleted"]
             live == [d.org EXCEPT !.status = IF @ = "disabled" THEN @ ELSE "active",
                                   !.creator = IF @ = None THEN e.creator ELSE @]
             g == [k EXCEPT !.org = gone]
             l == [k EXCEPT !.org = live]
  <2>1. gone \in OrgRow /\ gone.bootstrapped = d.org.bootstrapped
    BY <1>0 DEF OrgRow
  <2>2. live \in OrgRow /\ live.bootstrapped = d.org.bootstrapped
    BY <1>0 DEF OrgRow
  <2>3. r = ApplyOrganizationEvent(k, e)
    BY <1>6 DEF ApplyEvent
  <2>4. g = [k EXCEPT !.org.status = "deleted"]
    BY <1>1, <1>3 DEF Tables, SameRoster
  <2>5. l = [k EXCEPT !.org.status = IF @ = "disabled" THEN @ ELSE "active",
                      !.org.creator = IF @ = None THEN e.creator ELSE @]
    BY <1>0, <1>1, <1>3 DEF Tables, OrgRow, SameRoster
  <2> HIDE DEF k, r, gone, live
  <2>6. r \in {g, k, Bootstrap(l)}
    BY <2>3, <2>4, <2>5 DEF ApplyOrganizationEvent
  <2>7. SameRoster(d, g) /\ SameRoster(d, l)
    BY <1>2, <2>1, <2>2
  <2> HIDE DEF g, l, Goal
  <2> QED BY <1>1, <1>4, <2>6, <2>7
<1>7. CASE ~Superseded(e, d.inbox) /\ m # Org
  <2> DEFINE org == [d.org EXCEPT !.status = IF @ = "none" THEN "pending" ELSE @]
             known == [k EXCEPT !.org = org]
  <2>1. org \in OrgRow /\ org.bootstrapped = d.org.bootstrapped
    BY <1>0 DEF OrgRow
  <2>2. known = [k EXCEPT !.org.status = IF @ = "none" THEN "pending" ELSE @]
    BY <1>1, <1>3 DEF Tables, SameRoster
  <2>3. r = ApplyMembershipEvent(k, e) /\ m \in Memberships /\ MembershipEventAllowed(d, e)
    BY <1>7, EventParts DEF ApplyEvent, EventAllowed
  <2> HIDE DEF k, r, org
  <2>4. SameRoster(d, known)
    BY <1>2, <2>1
  <2> HIDE DEF known, Goal
  <2>5. known \in Tables /\ OnePerUser(known)
    BY <2>3, <2>4, SameRosterMoves DEF SameRoster
  <2>6. CASE r = Bootstrap(known)
    BY <1>4, <2>4, <2>6
  <2>7. CASE r = Bootstrap(WithDeleted(known, m))
    <3> DEFINE w == WithDeleted(known, m)
    <3>1. w \in Tables /\ Left(known, w, m) /\ w.org = known.org /\ Deletes(known, w, m)
      BY <2>3, <2>5, WithDeletedLeft, WithDeletedShape
    <3> HIDE DEF w
    <3>2. Left(d, w, m) /\ Unfounded(d, w)
      BY <2>3, <2>4, <3>1, SameRosterMoves DEF Unfounded, SameRoster
    <3>3. OnePerUser(w)
      BY <2>3, <2>5, <3>1, OnePerUserKept
    <3>4. Left(d, Bootstrap(w), m)
      BY <2>3, <3>1, <3>2, <3>3, BootstrapAfter
    <3> QED BY <2>3, <2>7, <3>4 DEF w, Goal
  <2>8. CASE e.type # "deleted" /\ k.members[m].status = "none"
             /\ r = Bootstrap(WithJoined(known, e))
    <3> DEFINE w == WithJoined(known, e)
    <3>1. known.members[m].status = "none" /\ Active(known) \intersect Of(UserOf[m]) = {}
      BY <1>3, <2>3, <2>4, <2>8 DEF MembershipEventAllowed, Active, SameRoster
    <3>2. w \in Tables /\ Joined(known, w, m) /\ Unfounded(known, w) /\ Joins(known, w, m)
      BY <2>3, <2>5, <3>1, WithJoinedJoined, WithJoinedShape
    <3> HIDE DEF w
    <3>3. Joined(d, w, m) /\ Unfounded(d, w)
      BY <2>3, <2>4, <3>2, SameRosterMoves
    <3>4. OnePerUser(w)
      BY <2>3, <2>5, <3>2, OnePerUserKept
    <3>5. Joined(d, Bootstrap(w), m)
      BY <2>3, <3>2, <3>3, <3>4, BootstrapAfter
    <3> QED BY <2>3, <2>8, <3>5 DEF w, Goal
  <2> QED BY <2>2, <2>3, <2>6, <2>7, <2>8 DEF ApplyMembershipEvent
<1> QED BY <1>5, <1>6, <1>7

-----------------------------------------------------------------------------
(* From the tables s that a transaction read to the tables r it decided on, *)
(* the abstract members take a step.                                       *)
LEMMA RosterPrimed ==
    ASSUME NEW r, Shows(db', r)
    PROVE  /\ Statuses(db)' = Statuses(r) /\ RolesOf(db)' = RolesOf(r)
           /\ (db.reserved)' = r.reserved /\ Offers(db)' = Offers(r)
           /\ (db.org.bootstrapped)' = r.org.bootstrapped
  BY DEF Shows, Statuses, RolesOf, Offers

LEMMA FoundsMayFound ==
    ASSUME NEW s \in Tables, NEW r \in Tables, Shows(db, s), Shows(db', r),
           NEW roles, Founds(s, r, roles)
    PROVE  Roster!MayFound(roles)
<1>1. /\ Statuses(db)' = Statuses(r) /\ RolesOf(db)' = RolesOf(r)
      /\ (db.reserved)' = r.reserved /\ (db.org.bootstrapped)' = r.org.bootstrapped
      /\ db.org.bootstrapped = s.org.bootstrapped
  BY RosterPrimed DEF Shows
<1>2. \A m \in Memberships : Statuses(db)'[m] = r.members[m].status
  BY <1>1 DEF Statuses
<1>3. CASE RolesOf(r) = roles /\ r.org.bootstrapped = s.org.bootstrapped
  BY <1>1, <1>3 DEF Roster!MayFound
<1>4. ASSUME ~s.org.bootstrapped, r.org.bootstrapped, NEW c \in Memberships,
             r.members[c].status = "active", c \notin r.reserved,
             \A m \in Of(UserOf[c]) : r.members[m].status # "deleted",
             RolesOf(r) = [roles EXCEPT ![c] = "owner"]
      PROVE  Roster!MayFound(roles)
  <2>1. \A m \in Roster!Of(UserOf[c]) : Statuses(db)'[m] # "deleted"
    BY <1>2, <1>4 DEF Of, Roster!Of
  <2>2. Statuses(db)'[c] = "active" /\ c \notin (db.reserved)'
    BY <1>1, <1>2, <1>4
  <2> QED BY <1>1, <1>4, <2>1, <2>2 DEF Roster!MayFound
<1> QED BY <1>3, <1>4 DEF Founds

LEMMA EventRefines ==
    ASSUME NEW s \in Tables, NEW r \in Tables, Shows(db, s), Shows(db', r),
           NEW e \in Events, EventAllowed(s, e), OnePerUser(s), r = ApplyEvent(s, e)
    PROVE  Roster!MNext
<1>1. /\ Statuses(db)' = Statuses(r) /\ (db.reserved)' = r.reserved
      /\ Offers(db)' = Offers(r)
      /\ Statuses(db) = Statuses(s) /\ db.reserved = s.reserved
      /\ RolesOf(db) = RolesOf(s) /\ Offers(db) = Offers(s)
  BY RosterPrimed DEF Shows
<1>2. \A roles : Founds(s, r, roles) => Roster!MayFound(roles)
  BY FoundsMayFound
<1>3. CASE Found(s, r)
  <2>1. Roster!Found
    BY <1>1, <1>2, <1>3 DEF Found, Roster!Found
  <2> QED BY <2>1 DEF Roster!MNext
<1>4. ASSUME NEW m \in Memberships, Joined(s, r, m)
      PROVE  Roster!MNext
  <2>1. Roster!Active \intersect Roster!Of(UserOf[m]) = {}
    BY <1>4, RosterSets DEF Joined, Entering
  <2>2. Statuses(db)[m] = "none"
    BY <1>1, <1>4 DEF Joined, Entering, Statuses
  <2>3. Roster!Enters(m)
    BY <1>1, <1>4, <2>1, <2>2 DEF Joined, Entering, Roster!Enters
  <2>4. ASSUME NEW role \in {"admin", "viewer"}, Offers(r) = Offers(s),
               Founds(s, r, [RolesOf(s) EXCEPT ![m] = role])
        PROVE  Roster!MNext
    <3>1. Roster!Join(m, role)
      BY <1>1, <1>2, <2>3, <2>4 DEF Roster!Join
    <3> QED BY <3>1 DEF Roster!MNext, AppRoles
  <2>5. ASSUME NEW i \in Invitations, Offers(s)[i] # "none",
               Offers(r) = [Offers(s) EXCEPT ![i] = "none"],
               Founds(s, r, [RolesOf(s) EXCEPT ![m] = Offers(s)[i]])
        PROVE  Roster!MNext
    <3>1. Roster!JoinInvited(m, i)
      BY <1>1, <1>2, <2>3, <2>5 DEF Roster!JoinInvited
    <3> QED BY <3>1 DEF Roster!MNext
  <2> QED BY <1>4, <2>4, <2>5 DEF Joined
<1>5. ASSUME NEW m \in Memberships, Left(s, r, m)
      PROVE  Roster!MNext
  <2>1. Roster!Leave(m)
    BY <1>1, <1>2, <1>5 DEF Left, Roster!Leave
  <2> QED BY <2>1 DEF Roster!MNext
<1>6. Found(s, r) \/ \E m \in Memberships : Joined(s, r, m) \/ Left(s, r, m)
  BY EventMoves
<1> QED BY <1>3, <1>4, <1>5, <1>6

(* Roles change: setRole and transfer *)
SameButRoles(d, r) ==
    /\ Statuses(r) = Statuses(d) /\ r.reserved = d.reserved /\ Offers(r) = Offers(d)
    /\ r.org.bootstrapped = d.org.bootstrapped

WithRole(roles, m, role) == [roles EXCEPT ![m] = role]

LEMMA SetRoleRoster ==
    ASSUME NEW d \in Tables, NEW m \in Memberships, NEW role \in AppRoles
    PROVE  /\ SetRole(d, m, role) \in Tables
           /\ SameButRoles(d, SetRole(d, m, role))
           /\ RolesOf(SetRole(d, m, role)) = WithRole(RolesOf(d), m, role)
<1> DEFINE r == SetRole(d, m, role)
<1>1. r.intents = d.intents /\ r.org = d.org
  BY DEF SetRole, Tables
<1>2. /\ r \in Tables /\ Keeps(d, r) /\ r.members[m].role = role
      /\ \A n \in Memberships \ {m} : r.members[n] = d.members[n]
  BY SetRoleShape
<1> HIDE DEF r
<1>3. SameButRoles(d, r)
  BY <1>1, <1>2 DEF SameButRoles, Keeps, SameStatus, Statuses, Offers
<1>4. RolesOf(r) = WithRole(RolesOf(d), m, role)
  BY <1>2 DEF RolesOf, WithRole
<1> QED BY <1>2, <1>3, <1>4 DEF r

LEMMA RolesRefine ==
    ASSUME NEW s \in Tables, NEW r \in Tables, Shows(db, s), Shows(db', r),
           NEW q \in Requests, Allowed(s, q), r = Outcome(s, q),
           q.op \in {"setRole", "transfer"}
    PROVE  Roster!MNext
<1> DEFINE a == q.actor
           m == q.target
<1>0. a \in Memberships /\ m \in Memberships /\ "owner" \in AppRoles /\ "admin" \in AppRoles
  BY RequestParts DEF AppRoles
<1>1. /\ RolesOf(db)' = RolesOf(r) /\ RolesOf(db) = RolesOf(s)
      /\ SameButRoles(s, r)
            => UNCHANGED <<Statuses(db), db.reserved, Offers(db), db.org.bootstrapped>>
  BY RosterPrimed DEF Shows, SameButRoles
<1>2. Roster!Effective = Effective(s) /\ Roster!Owners = Owners(s)
  BY RosterSets
<1>3. \A n \in Memberships : RolesOf(db)[n] = s.members[n].role
  BY <1>1 DEF RolesOf
<1>4. CASE q.op = "setRole" /\ q.role \in AppRoles
  <2>1. r = SetRole(s, m, q.role) /\ SetRoleAllowed(s, a, m, q.role)
    BY <1>4 DEF Outcome, Allowed
  <2> DEFINE k == SetRole(s, m, q.role)
  <2>7. SameButRoles(s, k) /\ RolesOf(k) = WithRole(RolesOf(s), m, q.role)
    BY <1>0, <1>4, SetRoleRoster
  <2>8. r = k
    BY <2>1
  <2> HIDE DEF k
  <2>2. SameButRoles(s, r) /\ RolesOf(r) = [RolesOf(s) EXCEPT ![m] = q.role]
    BY <2>7, <2>8 DEF WithRole
  <2>3. /\ a \in Effective(s) /\ m \in Effective(s)
        /\ \/ s.members[a].role = "owner"
           \/ s.members[a].role = "admin" /\ s.members[m].role # "owner" /\ q.role # "owner"
        /\ s.members[m].role = "owner" /\ q.role # "owner" => ~LastOwner(s)
    BY <2>1 DEF SetRoleAllowed, Locked, Effective
  <2>4. Roster!MayManage(a, m) /\ m \in Roster!Effective
        /\ (q.role = "owner" => RolesOf(db)[a] = "owner")
    BY <1>0, <1>2, <1>3, <2>3 DEF Roster!MayManage
  <2>5. RolesOf(db)[m] = "owner" /\ q.role # "owner" => Roster!NotLastOwner(m)
    BY <1>0, <1>2, <1>3, <2>3, AnotherOwner DEF Roster!NotLastOwner
  <2>6. Roster!ChangeRole(a, m, q.role)
    BY <1>1, <2>2, <2>4, <2>5 DEF Roster!ChangeRole
  <2> QED BY <1>0, <1>4, <2>6 DEF Roster!MNext
<1>5. CASE q.op = "transfer"
  <2> DEFINE k == SetRole(s, m, "owner")
  <2>1. r = TransferOwnership(s, a, m) /\ TransferAllowed(s, a, m)
    BY <1>5 DEF Outcome, Allowed
  <2>2. r = SetRole(k, a, "admin")
    BY <2>1 DEF SetRole, TransferOwnership, Tables
  <2>3. k \in Tables /\ SameButRoles(s, k) /\ RolesOf(k) = WithRole(RolesOf(s), m, "owner")
    BY <1>0, SetRoleRoster
  <2> HIDE DEF k
  <2> DEFINE l == SetRole(k, a, "admin")
  <2>8. SameButRoles(k, l) /\ RolesOf(l) = WithRole(RolesOf(k), a, "admin")
    BY <1>0, <2>3, SetRoleRoster
  <2> HIDE DEF l
  <2>4. SameButRoles(k, r) /\ RolesOf(r) = WithRole(RolesOf(k), a, "admin")
    BY <2>2, <2>8 DEF l
  <2>5. SameButRoles(s, r) /\ RolesOf(r) = [RolesOf(s) EXCEPT ![m] = "owner", ![a] = "admin"]
    BY <2>3, <2>4 DEF SameButRoles, WithRole
  <2>6. a \in Owners(s) /\ m \in Effective(s) \ {a}
    BY <2>1 DEF TransferAllowed, Locked, Effective, Owners
  <2>7. Roster!Transfer(a, m)
    BY <1>1, <1>2, <2>5, <2>6 DEF Roster!Transfer
  <2> QED BY <1>0, <2>7 DEF Roster!MNext
<1> QED BY <1>4, <1>5, RequestParts

(* Reservations: remove, release and finalize *)
LEMMA RemovalRefines ==
    ASSUME NEW s \in Tables, NEW r \in Tables, Shows(db, s), Shows(db', r),
           NEW q \in Requests, Allowed(s, q), r = Outcome(s, q),
           q.op \in {"remove", "release", "finalize"}
    PROVE  Roster!MNext
<1> DEFINE m == q.target
<1>0. m \in Memberships
  BY RequestParts
<1>1. /\ Statuses(db)' = Statuses(r) /\ (db.reserved)' = r.reserved
      /\ Offers(db)' = Offers(r) /\ RolesOf(db)' = RolesOf(r)
      /\ (db.org.bootstrapped)' = r.org.bootstrapped
      /\ Statuses(db) = Statuses(s) /\ db.reserved = s.reserved
      /\ RolesOf(db) = RolesOf(s) /\ Offers(db) = Offers(s)
      /\ db.org.bootstrapped = s.org.bootstrapped
  BY RosterPrimed DEF Shows
<1>2. ASSUME r.members = s.members, r.intents = s.intents,
             r.org.bootstrapped = s.org.bootstrapped
      PROVE  UNCHANGED <<Statuses(db), RolesOf(db), Offers(db), db.org.bootstrapped>>
  <2>1. Statuses(r) = Statuses(s) /\ RolesOf(r) = RolesOf(s) /\ Offers(r) = Offers(s)
    BY <1>2 DEF Statuses, RolesOf, Offers
  <2> QED BY <1>1, <1>2, <2>1
<1>3. CASE r = Release(s, m)
  <2>1. /\ r.members = s.members /\ r.intents = s.intents /\ r.org = s.org
        /\ r.reserved = s.reserved \ {m}
    BY <1>3 DEF Release, Tables
  <2>2. Roster!Release(m)
    BY <1>1, <1>2, <2>1 DEF Roster!Release
  <2> QED BY <1>0, <2>2 DEF Roster!MNext
<1>4. CASE q.op = "finalize"
  <2>1. r = Finalize(s, m)
    BY <1>4 DEF Outcome
  <2>2. CASE m \notin s.reserved
    <3>1. r = s /\ s.reserved = s.reserved \ {m}
      BY <2>1, <2>2 DEF Finalize
    <3>2. Roster!Release(m)
      BY <1>1, <1>2, <3>1 DEF Roster!Release
    <3> QED BY <1>0, <3>2 DEF Roster!MNext
  <2>3. CASE m \in s.reserved /\ m \notin Active(s)
    BY <1>3, <2>1, <2>3 DEF Finalize, Release
  <2>4. CASE m \in s.reserved /\ m \in Active(s)
    <3>1. r = WithDeleted(s, m)
      BY <2>1, <2>4 DEF Finalize
    <3>2. Left(s, r, m) /\ RolesOf(r) = RolesOf(s) /\ r.org = s.org
      BY <1>0, <3>1, WithDeletedLeft
    <3>3. Roster!MayFound(RolesOf(db))
      BY <1>1, <3>2 DEF Roster!MayFound
    <3>4. Roster!Leave(m)
      BY <1>1, <3>2, <3>3 DEF Left, Roster!Leave
    <3> QED BY <1>0, <3>4 DEF Roster!MNext
  <2> QED BY <2>2, <2>3, <2>4
<1>5. CASE q.op = "release"
  BY <1>3, <1>5 DEF Outcome
<1>6. CASE q.op = "remove"
  <2> DEFINE a == q.actor
  <2>1. r = Reserve(s, m) /\ RemovalAllowed(s, a, m) /\ a \in Memberships
    BY <1>6, RequestParts DEF Outcome, Allowed
  <2>2. m \in Active(s) /\ a \in Effective(s)
    BY <2>1 DEF RemovalAllowed, Locked, Effective
  <2>3. r.members = s.members /\ r.reserved = s.reserved \union {m}
    BY <2>1, <2>2, ReserveShape
  <2>4. r.intents = s.intents /\ r.org.bootstrapped = s.org.bootstrapped
    <3>1. s.org \in OrgRow
      BY TablesParts
    <3> QED BY <2>1, <3>1 DEF Reserve, Tables, OrgRow
  <2>5. \A n \in Memberships : RolesOf(db)[n] = s.members[n].role
    BY <1>1 DEF RolesOf
  <2>6. /\ Roster!Active = Active(s) /\ Roster!Effective = Effective(s)
        /\ Roster!Owners = Owners(s)
    BY RosterSets
  <2>7. Roster!MayManage(a, m) \/ (a = m /\ a \in Roster!Effective)
    BY <1>0, <2>1, <2>2, <2>5, <2>6 DEF RemovalAllowed, Roster!MayManage
  <2>8. RolesOf(db)[m] = "owner" => Roster!NotLastOwner(m)
    BY <1>0, <2>1, <2>5, <2>6, AnotherOwner DEF RemovalAllowed, Roster!NotLastOwner
  <2>9. Roster!Reserve(a, m)
    BY <1>1, <1>2, <2>2, <2>3, <2>4, <2>6, <2>7, <2>8 DEF Roster!Reserve
  <2> QED BY <1>0, <2>1, <2>9 DEF Roster!MNext
<1> QED BY <1>4, <1>5, <1>6

(* Invitations: invite and withdraw *)
LEMMA IntentsRefine ==
    ASSUME NEW s \in Tables, NEW r \in Tables, Shows(db, s), Shows(db', r),
           NEW q \in Requests, Allowed(s, q), r = Outcome(s, q),
           q.op \in {"invite", "withdraw"},
           q.op = "invite" => Offers(db)[q.intent] = "none"
    PROVE  Roster!MNext
<1> DEFINE i == q.intent
<1>0. i \in Invitations /\ s.intents \in [Invitations -> Intent]
  BY RequestParts, TablesParts
<1>1. /\ Statuses(db)' = Statuses(r) /\ (db.reserved)' = r.reserved
      /\ Offers(db)' = Offers(r) /\ RolesOf(db)' = RolesOf(r)
      /\ (db.org.bootstrapped)' = r.org.bootstrapped
      /\ Statuses(db) = Statuses(s) /\ db.reserved = s.reserved
      /\ RolesOf(db) = RolesOf(s) /\ Offers(db) = Offers(s)
      /\ db.org.bootstrapped = s.org.bootstrapped
  BY RosterPrimed DEF Shows
<1>2. ASSUME NEW intents, r = [s EXCEPT !.intents = intents]
      PROVE  /\ r.intents = intents
             /\ UNCHANGED <<Statuses(db), RolesOf(db), db.reserved, db.org.bootstrapped>>
  <2>1. /\ r.members = s.members /\ r.intents = intents /\ r.org = s.org
        /\ r.reserved = s.reserved
    BY <1>2 DEF Tables
  <2>2. Statuses(r) = Statuses(s) /\ RolesOf(r) = RolesOf(s)
    BY <2>1 DEF Statuses, RolesOf
  <2> QED BY <1>1, <2>1, <2>2
<1>3. CASE q.op = "invite" /\ q.role \in AppRoles /\ q.actor \in Memberships
  <2> DEFINE intents == [s.intents EXCEPT ![i] = [status |-> "pending", role |-> q.role]]
             a == q.actor
  <2>1. r = [s EXCEPT !.intents = intents] /\ InviteAllowed(s, a, q.role)
    BY <1>3 DEF Outcome, Allowed, InsertIntent, Tables
  <2>0. /\ intents[i].status = "pending" /\ intents[i].role = q.role
        /\ \A j \in Invitations \ {i} : intents[j] = s.intents[j]
    BY <1>0
  <2>7. r.intents = intents
    BY <1>2, <2>1
  <2> HIDE DEF intents
  <2>2. Offers(r) = [Offers(s) EXCEPT ![i] = q.role]
    BY <1>0, <2>0, <2>7 DEF Offers
  <2>3. UNCHANGED <<Statuses(db), RolesOf(db), db.reserved, db.org.bootstrapped>>
    BY <1>2, <2>1
  <2>4. Roster!Effective = Effective(s)
    BY RosterSets
  <2>5. RolesOf(db)[a] = s.members[a].role
    BY <1>1, <1>3 DEF RolesOf
  <2>6. Roster!Invite(a, i, q.role)
    BY <1>1, <1>3, <2>1, <2>2, <2>3, <2>4, <2>5 DEF Roster!Invite, InviteAllowed
  <2> QED BY <1>0, <1>3, <2>6 DEF Roster!MNext
<1>4. CASE q.op = "withdraw"
  <2> DEFINE intents == [s.intents EXCEPT ![i].status =
                            IF @ = "pending" THEN "deleted" ELSE @]
  <2>1. r = [s EXCEPT !.intents = intents]
    BY <1>0, <1>4 DEF Outcome, DeleteIntent, Tables
  <2>2. \A j \in Invitations :
           \/ intents[j] = s.intents[j] /\ (j = i => s.intents[j].status # "pending")
           \/ j = i /\ intents[j].status = "deleted"
    BY <1>0 DEF Intent
  <2>3. r.intents = intents
    BY <1>2, <2>1
  <2> HIDE DEF intents
  <2>4. Offers(r) = [Offers(s) EXCEPT ![i] = "none"]
    BY <1>0, <2>2, <2>3 DEF Offers
  <2>5. UNCHANGED <<Statuses(db), RolesOf(db), db.reserved, db.org.bootstrapped>>
    BY <1>2, <2>1
  <2>6. Roster!Withdraw(i)
    BY <1>1, <2>4, <2>5 DEF Roster!Withdraw
  <2> QED BY <1>0, <2>6 DEF Roster!MNext
<1> QED BY <1>3, <1>4, RequestParts

(* What a transaction read shows the members as they are, and what it      *)
(* decided on shows them as they are after its commit: of the intents, the *)
(* maintenance job only takes away what is no longer offered.              *)
LEMMA CommitShows ==
    ASSUME IInv, PendingSeen, NEW p \in Processes, Commit(p)
    PROVE  \E s \in Tables, q \in Requests :
              /\ q = request[p] /\ Allowed(s, q) /\ Agree(s) /\ Outcome(s, q) \in Tables
              /\ Shows(db, s) /\ Shows(db', Outcome(s, q))
<1>1. PICK s \in Tables, q \in Requests :
         /\ s = seen[p] /\ q = request[p] /\ SameButIntents(db, s) /\ Allowed(s, q)
         /\ Outcome(s, q) \in Tables
         /\ db' \in Tables /\ SameMembers(db', Outcome(s, q))
  BY CommitOK
<1> DEFINE r == Outcome(s, q)
<1>2. pc[p] = "locked" /\ db' = Written(db, s, r)
  BY <1>1 DEF Commit
<1>3. /\ db.intents \in [Invitations -> Intent] /\ s.intents \in [Invitations -> Intent]
      /\ r.intents \in [Invitations -> Intent]
  BY <1>1, TablesParts DEF IInv, TypeParts
<1>4. \A i \in Invitations :
         db'.intents[i] = IF r.intents[i] = s.intents[i] THEN db.intents[i]
                                                         ELSE r.intents[i]
  BY <1>2, <1>3 DEF Written, Changed
<1>5. \A i \in Invitations :
         "pending" \in {s.intents[i].status, db.intents[i].status}
             => db.intents[i] = s.intents[i]
  BY <1>1, <1>2 DEF PendingSeen
<1> HIDE DEF r
<1>6. Offers(db) = Offers(s)
  <2>1. \A i \in Invitations :
           (IF db.intents[i].status = "pending" THEN db.intents[i].role ELSE "none")
              = (IF s.intents[i].status = "pending" THEN s.intents[i].role ELSE "none")
    BY <1>5
  <2> QED BY <2>1 DEF Offers
<1>7. Offers(db') = Offers(r)
  <2>1. \A i \in Invitations :
           (IF db'.intents[i].status = "pending" THEN db'.intents[i].role ELSE "none")
              = (IF r.intents[i].status = "pending" THEN r.intents[i].role ELSE "none")
    BY <1>4, <1>5
  <2> QED BY <2>1 DEF Offers
<1>8. Shows(db, s)
  BY <1>1, <1>6 DEF Shows, SameButIntents, SameMembers, Statuses, RolesOf
<1>9. Shows(db', r)
  BY <1>1, <1>7 DEF Shows, SameMembers, Statuses, RolesOf, r
<1>10. Agree(s)
  BY <1>1, SameMembersSame DEF IInv, TablesSound, SameButIntents
<1> QED BY <1>1, <1>8, <1>9, <1>10 DEF r

LEMMA CommitRefines ==
    ASSUME InvitationInv, NEW p \in Processes, Commit(p)
    PROVE  Roster!MNext
<1>1. PICK s \in Tables, q \in Requests :
         /\ q = request[p] /\ Allowed(s, q) /\ Agree(s) /\ Outcome(s, q) \in Tables
         /\ Shows(db, s) /\ Shows(db', Outcome(s, q))
  BY CommitShows DEF InvitationInv, AuthorityInv
<1>2. CASE q.op = "event" /\ q.event \in Events
  <2>1. EventAllowed(s, q.event) /\ Outcome(s, q) = ApplyEvent(s, q.event)
    BY <1>1, <1>2 DEF Allowed, Outcome
  <2>2. OnePerUser(s)
    BY <1>1 DEF Agree, OnePerUser
  <2> QED BY <1>1, <1>2, <2>1, <2>2, EventRefines
<1>3. CASE q.op \in {"setRole", "transfer"}
  BY <1>1, <1>3, RolesRefine
<1>4. CASE q.op \in {"remove", "release", "finalize"}
  BY <1>1, <1>4, RemovalRefines
<1>5. CASE q.op \in {"invite", "withdraw"} /\ q.intent \in Invitations
  <2>1. q.op = "invite" => Offers(db)[q.intent] = "none"
    <3> SUFFICES ASSUME q.op = "invite"
                 PROVE  Offers(db)[q.intent] = "none"
      OBVIOUS
    <3>1. pc[p] = "locked"
      BY DEF Commit
    <3>2. db.intents[q.intent].status = "none"
      BY <1>1, <3>1 DEF InvitationInv, Asked, Inviting
    <3> QED BY <1>5, <3>2 DEF Offers
  <2> QED BY <1>1, <1>5, <2>1, IntentsRefine
<1> QED BY <1>2, <1>3, <1>4, <1>5, RequestParts

(* Every run of the transactions, with their snapshots, the lock, Clerk    *)
(* and the maintenance job, is a run of OrganizationMembers: each commit   *)
(* does to the members at that moment one thing that a member who has the  *)
(* authority then, or Clerk, may do, and no other step does anything       *)
(* (membershipadmin, organizationsync and organizationmaintenance under    *)
(* AcquireOrganizationLock).                                               *)
THEOREM RefinesMembers == Spec => ImplementsMembers
<1>1. ASSUME Init
      PROVE  Roster!MInit
  BY <1>1 DEF Init, EmptyTables, Roster!MInit, Statuses, RolesOf, Offers
<1>2. ASSUME InvitationInv, [Next]_vars
      PROVE  [Roster!MNext]_(Roster!mvars)
  <2>0. IInv /\ db \in Tables
    BY <1>2 DEF InvitationInv, AuthorityInv, IInv, TypeParts
  <2>1. CASE UNCHANGED db
    BY <2>1 DEF Roster!mvars, Statuses, RolesOf, Offers
  <2>2. ASSUME NEW p \in Processes, Commit(p)
        PROVE  Roster!MNext
    BY <1>2, <2>2, CommitRefines
  <2>3. ASSUME NEW p \in Processes, TakeLock(p)
        PROVE  UNCHANGED db
    BY <2>3 DEF TakeLock
  <2>4. ASSUME NEW i \in Invitations, PruneIntents(i)
        PROVE  UNCHANGED Roster!mvars
    <3>1. /\ db'.members = db.members /\ db'.reserved = db.reserved /\ db'.org = db.org
          /\ db'.intents = [db.intents EXCEPT ![i].status = "deleted"]
          /\ db.intents[i].status = "consumed"
      BY <2>0, <2>4 DEF PruneIntents, Tables
    <3>2. \A j \in Invitations :
             \/ db'.intents[j] = db.intents[j]
             \/ /\ db'.intents[j].status = "deleted"
                /\ db.intents[j].status = "consumed"
      BY <2>0, <3>1, TablesParts DEF Intent
    <3>3. Offers(db') = Offers(db)
      BY <3>2 DEF Offers
    <3>4. UNCHANGED Offers(db)
      BY <3>3 DEF Offers
    <3> QED BY <3>1, <3>4 DEF Roster!mvars, Statuses, RolesOf
  <2> QED BY <1>2, <2>0, <2>1, <2>2, <2>3, <2>4, StepMoves
<1> QED BY <1>1, <1>2, InvitationInvariant, PTL DEF Spec, ImplementsMembers, Roster!MSpec

-----------------------------------------------------------------------------
(* What the recorded events mean.  The bootstrap is settled: a creator who *)
(* still awaits it has no membership that nobody asked to remove.          *)
Settled(d) ==
    AwaitsBootstrap(d) /\ d.org.status = "active" =>
        \A m \in Of(d.org.creator) \intersect Active(d) : d.requested[m] > 0

LEMMA BootstrapSettles ==
    ASSUME NEW d \in Tables, \A m \in Memberships : Accounted(d, m)
    PROVE  LET r == Bootstrap(d)
           IN /\ Settled(r)
              /\ r.org.status = d.org.status /\ r.org.creator = d.org.creator
<1> DEFINE candidates == Of(d.org.creator) \intersect Effective(d)
           crowned == [m \in Memberships |->
                          IF m \in candidates THEN [d.members[m] EXCEPT !.role = "owner"]
                                              ELSE d.members[m]]
           lost == [d EXCEPT !.org.eligible = FALSE]
           won == [d EXCEPT !.members = crowned, !.org.bootstrapped = TRUE]
           r == Bootstrap(d)
<1>1. /\ d.org \in OrgRow /\ d.requested \in [Memberships -> Nat]
      /\ d.completed \in [Memberships -> Nat]
  BY TablesParts
<1>2. \/ r = d /\ (AwaitsBootstrap(d) /\ d.org.status = "active" => candidates = {})
      \/ r = lost
      \/ r = won
  BY DEF Bootstrap
<1>3. CASE r = d /\ (AwaitsBootstrap(d) /\ d.org.status = "active" => candidates = {})
  <2>1. ASSUME candidates = {}, NEW m \in Of(d.org.creator) \intersect Active(d)
        PROVE  d.requested[m] > 0
    <3>1. m \in d.reserved /\ m \in Memberships
      BY <2>1 DEF Effective, Active
    <3>2. d.completed[m] + 1 <= d.requested[m]
      BY <3>1 DEF Accounted
    <3> QED BY <1>1, <3>1, <3>2
  <2> HIDE DEF candidates
  <2> QED BY <1>3, <2>1 DEF Settled
<1>4. CASE r = lost
  <2>1. /\ ~lost.org.eligible /\ lost.org.status = d.org.status
        /\ lost.org.creator = d.org.creator
    BY <1>1 DEF Tables, OrgRow
  <2> QED BY <1>4, <2>1 DEF Settled, AwaitsBootstrap
<1>5. CASE r = won
  <2>1. /\ won.org.bootstrapped /\ won.org.status = d.org.status
        /\ won.org.creator = d.org.creator
    BY <1>1 DEF Tables, OrgRow
  <2> QED BY <1>5, <2>1 DEF Settled, AwaitsBootstrap
<1> QED BY <1>2, <1>3, <1>4, <1>5

(* What an event tells of its aggregate when nothing supersedes it: a      *)
(* deletion ends it, and nothing else ends the organization.               *)
Tells(d, e, r) ==
    /\ e.aggregate \in Memberships /\ e.type = "deleted"
           => r.members[e.aggregate].status = "deleted"
    /\ r.org.status = "deleted" <=>
           \/ d.org.status = "deleted"
           \/ e.aggregate = Org /\ e.type = "deleted"
    /\ Settled(r)

LEMMA EventTells ==
    ASSUME NEW d \in Tables, NEW e \in Events, EventAllowed(d, e),
           ~Superseded(e, d.inbox), Agree(d), \A m \in Memberships : Accounted(d, m),
           Settled(d)
    PROVE  Tells(d, e, ApplyEvent(d, e))
<1> DEFINE k == [d EXCEPT !.inbox = @ \union {e}]
           m == e.aggregate
           r == ApplyEvent(d, e)
           q == [op |-> "event", event |-> e]
           Same(x) == /\ x \in Tables /\ x.members = d.members /\ x.reserved = d.reserved
                      /\ x.requested = d.requested /\ x.completed = d.completed
<1> SUFFICES Tells(d, e, r)
  OBVIOUS
<1>0. d.org \in OrgRow /\ e.creator \in Users \union {None} /\ m \in Memberships \union {Org}
  BY TablesParts, EventParts
<1>1. Same(k) /\ k.org = d.org
  <2>1. d.inbox \union {e} \in SUBSET Events
    BY TablesParts
  <2>2. k = [d EXCEPT !.inbox = d.inbox \union {e}]
    BY DEF Tables
  <2> QED BY <2>1, <2>2, TablesUpdated DEF Tables
<1>2. ASSUME NEW org \in OrgRow
      PROVE  Same([k EXCEPT !.org = org]) /\ [k EXCEPT !.org = org].org = org
  <2>1. [k EXCEPT !.org = org] \in Tables
    BY <1>1, TablesUpdated
  <2>2. /\ [k EXCEPT !.org = org].members = k.members
        /\ [k EXCEPT !.org = org].reserved = k.reserved
        /\ [k EXCEPT !.org = org].requested = k.requested
        /\ [k EXCEPT !.org = org].completed = k.completed
        /\ [k EXCEPT !.org = org].org = org
    BY <1>1 DEF Tables
  <2> QED BY <1>1, <2>1, <2>2
<1>3. ASSUME NEW x, Same(x)
      PROVE  \A n \in Memberships : Accounted(x, n)
  BY <1>3 DEF Accounted, Deleted
<1>4. CASE m = Org
  <2> DEFINE gone == [d.org EXCEPT !.status = "deleted"]
             live == [d.org EXCEPT !.status = IF @ = "disabled" THEN @ ELSE "active",
                                   !.creator = IF @ = None THEN e.creator ELSE @]
             g == [k EXCEPT !.org = gone]
             l == [k EXCEPT !.org = live]
  <2>1. /\ gone \in OrgRow /\ live \in OrgRow
        /\ gone.status = "deleted" /\ live.status # "deleted"
    BY <1>0 DEF OrgRow
  <2>2. r = ApplyOrganizationEvent(k, e)
    BY <1>4 DEF ApplyEvent
  <2>3. g = [k EXCEPT !.org.status = "deleted"]
    BY <1>1 DEF Tables
  <2>4. l = [k EXCEPT !.org.status = IF @ = "disabled" THEN @ ELSE "active",
                      !.org.creator = IF @ = None THEN e.creator ELSE @]
    BY <1>0, <1>1 DEF Tables, OrgRow
  <2>5. m \notin Memberships
    BY <1>4, OrganizationAssumption
  <2> HIDE DEF k, r, gone, live, Same
  <2>6. \/ e.type = "deleted" /\ r = g
        \/ e.type # "deleted" /\ k.org.status = "deleted" /\ r = k
        \/ e.type # "deleted" /\ k.org.status # "deleted" /\ r = Bootstrap(l)
    BY <2>2, <2>3, <2>4 DEF ApplyOrganizationEvent
  <2>7. g.org = gone /\ l.org = live /\ Same(l)
    BY <1>2, <2>1
  <2> HIDE DEF g, l
  <2>8. CASE e.type = "deleted" /\ r = g
    BY <1>4, <2>1, <2>5, <2>7, <2>8 DEF Tells, Settled
  <2>9. CASE e.type # "deleted" /\ k.org.status = "deleted" /\ r = k
    BY <1>1, <2>5, <2>9 DEF Tells, Settled
  <2>10. CASE e.type # "deleted" /\ k.org.status # "deleted" /\ r = Bootstrap(l)
    <3>1. l \in Tables
      BY <2>7 DEF Same
    <3>2. Settled(r) /\ r.org.status = l.org.status
      BY <1>3, <2>7, <2>10, <3>1, BootstrapSettles
    <3> QED BY <1>1, <2>1, <2>7, <2>10, <3>2 DEF Tells
  <2> QED BY <2>6, <2>8, <2>9, <2>10
<1>5. CASE m # Org
  <2> DEFINE org == [d.org EXCEPT !.status = IF @ = "none" THEN "pending" ELSE @]
             known == [k EXCEPT !.org = org]
  <2>1. /\ org \in OrgRow /\ (OrgSound(d.org) => OrgSound(org))
        /\ org.status = "deleted" <=> d.org.status = "deleted"
    BY <1>0 DEF OrgRow, OrgSound
  <2>2. known = [k EXCEPT !.org.status = IF @ = "none" THEN "pending" ELSE @]
    BY <1>1 DEF Tables
  <2>3. r = ApplyMembershipEvent(k, e) /\ m \in Memberships /\ MembershipEventAllowed(d, e)
    BY <1>0, <1>5 DEF ApplyEvent, EventAllowed
  <2>4. Same(known) /\ known.org = org
    BY <1>2, <2>1
  <2> HIDE DEF k, r, org, known
  <2>5. /\ known \in Tables /\ \A n \in Memberships : Accounted(known, n)
        /\ known.members = d.members
    BY <1>3, <2>4
  <2>6. Agree(known)
    BY <2>1, <2>4 DEF Agree, OrgSound, Active
  <2>7. q \in Requests /\ q.op = "event" /\ q.event = e
    BY DEF Requests, EventRequests
  <2> HIDE DEF q, Same
  <2>8. ASSUME NEW w \in Tables, \A n \in Memberships : Accounted(w, n),
               w.org.status = "deleted" <=> d.org.status = "deleted", r = Bootstrap(w),
               e.type = "deleted" => w.members[m].status = "deleted"
        PROVE  Tells(d, e, r)
    <3>1. Settled(r) /\ r.org.status = w.org.status
      BY <2>8, BootstrapSettles
    <3>2. r.members[m].status = w.members[m].status
      BY <2>3, <2>8, BootstrapShape
    <3>3. r.org.status = "deleted" <=>
              \/ d.org.status = "deleted"
              \/ m = Org /\ e.type = "deleted"
      BY <1>5, <2>8, <3>1
    <3>4. e.type = "deleted" => r.members[m].status = "deleted"
      BY <2>8, <3>2
    <3> QED BY <3>1, <3>3, <3>4 DEF Tells
  <2>9. CASE e.type = "deleted" /\ r = Bootstrap(WithDeleted(known, m))
    <3> DEFINE w == WithDeleted(known, m)
    <3>1. w \in Tables /\ Deletes(known, w, m) /\ w.org = known.org
      BY <2>3, <2>5, WithDeletedShape, WithDeletedLeft
    <3> HIDE DEF w
    <3>2. Shaped(known, q, w)
      BY <2>3, <2>7, <2>9, <3>1 DEF Shaped, Deleting
    <3>3. \A n \in Memberships : Accounted(w, n)
      BY <2>5, <2>6, <2>7, <3>1, <3>2, AccountedKept
    <3>4. w.members[m].status = "deleted"
      BY <3>1 DEF Deletes
    <3> QED BY <2>1, <2>4, <2>8, <2>9, <3>1, <3>3, <3>4 DEF w
  <2>10. CASE e.type # "deleted" /\ k.members[m].status # "none" /\ r = Bootstrap(known)
    BY <2>1, <2>4, <2>5, <2>8, <2>10
  <2>11. CASE e.type # "deleted" /\ k.members[m].status = "none"
              /\ r = Bootstrap(WithJoined(known, e))
    <3> DEFINE w == WithJoined(known, e)
    <3>1. known.members[m].status = "none" /\ Active(known) \intersect Of(UserOf[m]) = {}
      BY <1>1, <2>3, <2>5, <2>11 DEF MembershipEventAllowed, Active, Same
    <3>2. w \in Tables /\ Joins(known, w, m)
      BY <2>3, <2>5, <3>1, WithJoinedShape
    <3>3. w.org.status = known.org.status
      <4>1. known.org \in OrgRow
        BY <2>1, <2>4
      <4> QED BY <2>5, <4>1 DEF WithJoined, Tables, OrgRow
    <3> HIDE DEF w
    <3>4. Shaped(known, q, w)
      BY <2>3, <2>7, <3>2 DEF Shaped
    <3>5. \A n \in Memberships : Accounted(w, n)
      BY <2>5, <2>6, <2>7, <3>2, <3>4, AccountedKept
    <3> QED BY <2>1, <2>4, <2>8, <2>11, <3>2, <3>3, <3>5 DEF w
  <2> QED BY <2>2, <2>3, <2>9, <2>10, <2>11 DEF ApplyMembershipEvent
<1> QED BY <1>4, <1>5

LEMMA RecordedMore ==
    ASSUME NEW d \in Tables, NEW r \in Tables, NEW e \in Events,
           r.inbox = d.inbox \union {e}, NEW a
    PROVE  /\ RecordedOf(r, a) = RecordedOf(d, a) \union {f \in {e} : f.aggregate = a}
           /\ Deletions(d, a) \subseteq Deletions(r, a)
           /\ e.aggregate = a /\ e.type = "deleted" => e \in Deletions(r, a)
           /\ Ended(r, a) => \/ Ended(d, a)
                             \/ /\ e.aggregate = a /\ e.type = "deleted"
                                /\ ~Superseded(e, d.inbox)
<1>1. RecordedOf(r, a) = RecordedOf(d, a) \union {f \in {e} : f.aggregate = a}
  BY DEF RecordedOf
<1>2. \A f \in Events : Superseded(f, d.inbox) => Superseded(f, r.inbox)
  BY DEF Superseded
<1>3. d.inbox \subseteq Events
  BY TablesParts
<1>4. ASSUME NEW f \in Deletions(r, a), ~Superseded(f, r.inbox)
      PROVE  \/ Ended(d, a)
             \/ e.aggregate = a /\ e.type = "deleted" /\ ~Superseded(e, d.inbox)
  <2>1. f \in Events /\ ~Superseded(f, d.inbox) /\ f.aggregate = a /\ f.type = "deleted"
    BY <1>2, <1>3, <1>4 DEF Deletions, RecordedOf
  <2>2. f = e \/ f \in d.inbox
    BY <1>4 DEF Deletions, RecordedOf
  <2>3. f \in d.inbox => f \in Deletions(d, a)
    BY <2>1 DEF Deletions, RecordedOf
  <2> QED BY <2>1, <2>2, <2>3 DEF Ended
<1>5. Ended(r, a) => \/ Ended(d, a)
                     \/ e.aggregate = a /\ e.type = "deleted" /\ ~Superseded(e, d.inbox)
  BY <1>4 DEF Ended
<1>6. Deletions(d, a) \subseteq Deletions(r, a)
  BY <1>1 DEF Deletions
<1>7. e.aggregate = a /\ e.type = "deleted" => e \in Deletions(r, a)
  BY <1>1 DEF Deletions
<1> QED BY <1>1, <1>5, <1>6, <1>7

(* A stale event is recorded and not applied: it tells nothing new *)
LEMMA StaleReflects ==
    ASSUME NEW d \in Tables, NEW e \in Events, EventAllowed(d, e),
           Superseded(e, d.inbox), Reflects(d)
    PROVE  Reflects(ApplyEvent(d, e))
<1> DEFINE r == ApplyEvent(d, e)
<1>1. r \in Tables
  BY EventShape
<1>2. /\ r.inbox = d.inbox \union {e}
      /\ r.members = d.members /\ r.org = d.org
      /\ r.requested = d.requested /\ r.completed = d.completed
  BY DEF ApplyEvent, Tables
<1> SUFFICES Reflects(r)
  OBVIOUS
<1> HIDE DEF r
<1>3. Deleted(r) = Deleted(d) /\ Active(r) = Active(d)
  BY <1>2 DEF Deleted, Active
<1>4. RecordedOf(d, e.aggregate) # {}
  BY DEF Superseded, RecordedOf
<1>5. ASSUME NEW m \in Memberships
      PROVE  /\ r.members[m].status = "none" <=> RecordedOf(r, m) = {}
             /\ Ended(r, m) => m \in Deleted(r)
             /\ m \in Deleted(r) => r.completed[m] = 1 \/ Deletions(r, m) # {}
  <2>1. RecordedOf(r, m) = {} <=> RecordedOf(d, m) = {}
    BY <1>1, <1>2, <1>4, RecordedMore
  <2>2. (Ended(r, m) => Ended(d, m)) /\ Deletions(d, m) \subseteq Deletions(r, m)
    BY <1>1, <1>2, RecordedMore
  <2> QED BY <1>2, <1>3, <2>1, <2>2 DEF Reflects
<1>6. (Ended(r, Org) => Ended(d, Org)) /\ Deletions(d, Org) \subseteq Deletions(r, Org)
  BY <1>1, <1>2, RecordedMore
<1>7. AwaitsBootstrap(r) <=> AwaitsBootstrap(d)
  BY <1>2 DEF AwaitsBootstrap
<1> QED BY <1>2, <1>3, <1>5, <1>6, <1>7 DEF Reflects

LEMMA FreshReflects ==
    ASSUME NEW d \in Tables, NEW e \in Events, EventAllowed(d, e),
           ~Superseded(e, d.inbox), Agree(d), \A m \in Memberships : Accounted(d, m),
           Reflects(d)
    PROVE  Reflects(ApplyEvent(d, e))
<1> DEFINE r == ApplyEvent(d, e)
           m == e.aggregate
<1>1. /\ r \in Tables
      /\ \/ Keeps(d, r)
         \/ m \in Memberships /\ Joins(d, r, m)
         \/ m \in Memberships /\ e.type = "deleted" /\ Deletes(d, r, m)
  BY EventShape
<1>2. Effect(d, e, r)
  BY EventEffect
<1>3. Tells(d, e, r)
  <2>1. Settled(d)
    BY DEF Settled, Reflects
  <2> QED BY <2>1, EventTells
<1>4. m \in Memberships \union {Org}
  BY EventParts
<1> SUFFICES Reflects(r)
  OBVIOUS
<1> HIDE DEF r
<1>5. r.inbox = d.inbox \union {e}
  BY <1>2 DEF Effect
<1>6. \A n \in Memberships \ {m} : r.members[n].status = d.members[n].status
  BY <1>1 DEF Keeps, Joins, Deletes, SameStatus
<1>7. Deleted(d) \subseteq Deleted(r)
  BY <1>1, <1>6 DEF Keeps, Joins, Deletes, SameStatus, Deleted
<1>8. ASSUME NEW n \in Memberships, n \in Deleted(r), ~(n = m /\ e.type = "deleted")
      PROVE  n \in Deleted(d) /\ r.completed[n] = d.completed[n]
  BY <1>1, <1>8 DEF Keeps, Joins, Deletes, SameStatus, SameAudit, Deleted
<1>9. ASSUME NEW n \in Memberships
      PROVE  /\ r.members[n].status = "none" <=> RecordedOf(r, n) = {}
             /\ Ended(r, n) => n \in Deleted(r)
             /\ n \in Deleted(r) => r.completed[n] = 1 \/ Deletions(r, n) # {}
  <2>1. /\ RecordedOf(r, n) = RecordedOf(d, n) \union {f \in {e} : f.aggregate = n}
        /\ Deletions(d, n) \subseteq Deletions(r, n)
        /\ m = n /\ e.type = "deleted" => e \in Deletions(r, n)
        /\ Ended(r, n) => Ended(d, n) \/ (m = n /\ e.type = "deleted")
    BY <1>1, <1>5, RecordedMore
  <2>2. r.members[n].status = "none" <=> RecordedOf(r, n) = {}
    <3>1. CASE n = m
      BY <1>2, <2>1, <3>1 DEF Effect
    <3>2. CASE n # m
      BY <1>6, <2>1, <3>2 DEF Reflects
    <3> QED BY <3>1, <3>2
  <2>3. Ended(r, n) => n \in Deleted(r)
    <3>1. m = n /\ e.type = "deleted" => n \in Deleted(r)
      BY <1>3 DEF Tells, Deleted
    <3>2. Ended(d, n) => n \in Deleted(r)
      BY <1>7 DEF Reflects
    <3> QED BY <2>1, <3>1, <3>2
  <2>4. n \in Deleted(r) => r.completed[n] = 1 \/ Deletions(r, n) # {}
    BY <1>8, <2>1 DEF Reflects
  <2> QED BY <2>2, <2>3, <2>4
<1>10. /\ Deletions(d, Org) \subseteq Deletions(r, Org)
       /\ m = Org /\ e.type = "deleted" => e \in Deletions(r, Org)
       /\ Ended(r, Org) => Ended(d, Org) \/ (m = Org /\ e.type = "deleted")
  BY <1>1, <1>5, RecordedMore
<1>11. Ended(r, Org) => r.org.status = "deleted"
  BY <1>3, <1>10 DEF Tells, Reflects
<1>12. r.org.status = "deleted" => Deletions(r, Org) # {}
  BY <1>3, <1>10 DEF Tells, Reflects
<1>13. Settled(r)
  BY <1>3 DEF Tells
<1> QED BY <1>9, <1>11, <1>12, <1>13 DEF Reflects, Settled

(* What a command leaves alone of what the events told *)
Untold(d, r) ==
    /\ r.inbox = d.inbox
    /\ r.org.status = d.org.status /\ r.org.creator = d.org.creator
    /\ r.org.bootstrapped = d.org.bootstrapped
    /\ r.org.eligible => d.org.eligible
    /\ \A m \in Memberships :
          /\ r.members[m].status = "none" <=> d.members[m].status = "none"
          /\ m \in Active(r) => m \in Active(d)
          /\ r.requested[m] >= d.requested[m]
          /\ m \in Deleted(d) => m \in Deleted(r) /\ r.completed[m] = d.completed[m]
          /\ m \in Deleted(r) => m \in Deleted(d) \/ r.completed[m] = 1

LEMMA CommandUntold ==
    ASSUME NEW d \in Tables, NEW q \in Requests, Allowed(d, q), q.op # "event",
           Agree(d), \A m \in Memberships : Accounted(d, m)
    PROVE  Untold(d, Outcome(d, q))
<1> DEFINE r == Outcome(d, q)
<1>1. /\ r \in Tables /\ Shaped(d, q, r)
      /\ r.inbox = d.inbox
  BY OutcomeShape, OutcomeRecords
<1>0. /\ d.requested \in [Memberships -> Nat] /\ d.completed \in [Memberships -> Nat]
      /\ r.requested \in [Memberships -> Nat] /\ r.completed \in [Memberships -> Nat]
  BY <1>1, TablesParts
<1>2. r \in {SetRole(d, q.target, q.role), TransferOwnership(d, q.actor, q.target),
             Reserve(d, q.target), Release(d, q.target), InsertIntent(d, q.intent, q.role),
             DeleteIntent(d, q.intent), Finalize(d, q.target)}
  BY RequestParts DEF Outcome
<1>3. d.org \in OrgRow
  BY TablesParts
<1>4. ASSUME NEW o \in BOOLEAN
      PROVE  LET k == [d EXCEPT !.org.eligible = o]
             IN /\ k.org.status = d.org.status /\ k.org.creator = d.org.creator
                /\ k.org.bootstrapped = d.org.bootstrapped /\ k.org.eligible = o
  BY <1>3 DEF Tables, OrgRow
<1>5. /\ SetRole(d, q.target, q.role).org = d.org
      /\ TransferOwnership(d, q.actor, q.target).org = d.org
      /\ Release(d, q.target).org = d.org
      /\ InsertIntent(d, q.intent, q.role).org = d.org
      /\ DeleteIntent(d, q.intent).org = d.org
      /\ WithDeleted(d, q.target).org = d.org
  BY DEF Tables, SetRole, TransferOwnership, Release, InsertIntent, DeleteIntent, WithDeleted
<1>6. Finalize(d, q.target).org = d.org
  <2>1. Finalize(d, q.target) \in {d, Release(d, q.target), WithDeleted(d, q.target)}
    BY DEF Finalize, Release
  <2> QED BY <1>5, <2>1
<1>7. LET k == Reserve(d, q.target)
      IN /\ k.org.status = d.org.status /\ k.org.creator = d.org.creator
         /\ k.org.bootstrapped = d.org.bootstrapped
         /\ k.org.eligible => d.org.eligible
  BY <1>3 DEF Reserve, Tables, OrgRow
<1>8. /\ r.org.status = d.org.status /\ r.org.creator = d.org.creator
      /\ r.org.bootstrapped = d.org.bootstrapped
      /\ r.org.eligible => d.org.eligible
  BY <1>2, <1>5, <1>6, <1>7
<1>9. \/ Keeps(d, r)
      \/ \E m \in Memberships :
            \/ Reserves(d, r, m) \/ Unreserves(d, r, m)
            \/ m \in d.reserved /\ m \in Active(d) /\ Deletes(d, r, m)
  <2>1. CASE q.op = "finalize"
    <3>1. r = Finalize(d, q.target) /\ q.target \in Memberships
      BY <2>1, RequestParts DEF Outcome
    <3> QED BY <3>1, FinalizeShape
  <2>2. CASE q.op # "finalize"
    BY <1>1, <2>2 DEF Shaped, Deleting
  <2> QED BY <2>1, <2>2
<1> DEFINE UntoldOf(m) == /\ r.members[m].status = "none" <=> d.members[m].status = "none"
                          /\ m \in Active(r) => m \in Active(d)
                          /\ r.requested[m] >= d.requested[m]
                          /\ m \in Deleted(d) => m \in Deleted(r) /\ r.completed[m] = d.completed[m]
                          /\ m \in Deleted(r) => m \in Deleted(d) \/ r.completed[m] = 1
<1> SUFFICES ASSUME NEW n \in Memberships
             PROVE  UntoldOf(n)
  BY <1>1, <1>8 DEF Untold
<1> HIDE DEF r
<1>10. CASE Keeps(d, r)
  BY <1>0, <1>10 DEF Keeps, SameStatus, SameAudit, Active, Deleted
<1>11. ASSUME NEW m \in Memberships, Reserves(d, r, m)
       PROVE  UntoldOf(n)
  BY <1>0, <1>11 DEF Reserves, SameStatus, Active, Deleted
<1>12. ASSUME NEW m \in Memberships, Unreserves(d, r, m)
       PROVE  UntoldOf(n)
  BY <1>0, <1>12 DEF Unreserves, SameStatus, SameAudit, Active, Deleted
<1>13. ASSUME NEW m \in Memberships, m \in d.reserved, m \in Active(d), Deletes(d, r, m)
       PROVE  UntoldOf(n)
  <2>1. /\ r.requested = d.requested
        /\ n # m => r.members[n].status = d.members[n].status
                   /\ r.completed[n] = d.completed[n]
        /\ r.members[m].status = "deleted" /\ d.members[m].status = "active"
    BY <1>13 DEF Deletes, SameStatus, Active
  <2>2. r.completed[m] = 1
    <3>1. d.completed[m] = 0
      BY <1>0, <1>13 DEF Accounted, Active, Deleted
    <3> QED BY <1>13, <3>1 DEF Deletes
  <2>3. CASE n = m
    BY <1>0, <2>1, <2>2, <2>3 DEF Active, Deleted
  <2>4. CASE n # m
    BY <1>0, <2>1, <2>4 DEF Active, Deleted
  <2> QED BY <2>3, <2>4
<1> QED BY <1>9, <1>10, <1>11, <1>12, <1>13

(* An event makes the tables reflect it, a command leaves what they tell *)
LEMMA OutcomeReflects ==
    ASSUME NEW d \in Tables, NEW q \in Requests, Allowed(d, q),
           Agree(d), \A m \in Memberships : Accounted(d, m), Reflects(d)
    PROVE  Reflects(Outcome(d, q))
<1>1. CASE q.op = "event" /\ q.event \in Events
  <2>1. EventAllowed(d, q.event) /\ Outcome(d, q) = ApplyEvent(d, q.event)
    BY <1>1 DEF Allowed, Outcome
  <2> QED BY <1>1, <2>1, StaleReflects, FreshReflects
<1>2. CASE q.op # "event"
  <2> DEFINE r == Outcome(d, q)
  <2>1. Untold(d, r)
    BY <1>2, CommandUntold
  <2>2. d.requested \in [Memberships -> Nat] /\ r.requested \in [Memberships -> Nat]
    BY OutcomeShape, TablesParts
  <2> HIDE DEF r
  <2>3. \A a : /\ RecordedOf(r, a) = RecordedOf(d, a)
               /\ Deletions(r, a) = Deletions(d, a)
               /\ Ended(r, a) = Ended(d, a)
    BY <2>1 DEF Untold, RecordedOf, Deletions, Ended
  <2>4. ASSUME NEW m \in Memberships
        PROVE  /\ r.members[m].status = "none" <=> RecordedOf(r, m) = {}
               /\ Ended(r, m) => m \in Deleted(r)
               /\ m \in Deleted(r) => r.completed[m] = 1 \/ Deletions(r, m) # {}
    BY <2>1, <2>3 DEF Untold, Reflects
  <2>5. /\ Ended(r, Org) => r.org.status = "deleted"
        /\ r.org.status = "deleted" => Deletions(r, Org) # {}
    BY <2>1, <2>3 DEF Untold, Reflects
  <2>6. Settled(r)
    <3>1. SUFFICES ASSUME AwaitsBootstrap(r), r.org.status = "active",
                          NEW m \in Of(r.org.creator) \intersect Active(r)
                   PROVE  r.requested[m] > 0
      BY DEF Settled
    <3>2. AwaitsBootstrap(d) /\ d.org.status = "active"
      BY <2>1, <3>1 DEF AwaitsBootstrap, Untold
    <3>3. m \in Of(d.org.creator) \intersect Active(d) /\ m \in Memberships
      BY <2>1, <3>1 DEF Untold, Active
    <3>4. d.requested[m] > 0
      BY <3>2, <3>3 DEF Reflects
    <3>5. r.requested[m] >= d.requested[m]
      BY <2>1, <3>3 DEF Untold
    <3> QED BY <2>2, <3>3, <3>4, <3>5
  <2>7. Reflects(r)
    BY <2>4, <2>5, <2>6 DEF Reflects, Settled
  <2> QED BY <2>7 DEF r
<1> QED BY <1>1, <1>2, RequestParts

LEMMA SameReflects ==
    ASSUME NEW d, NEW s, d.inbox = s.inbox, SameMembers(d, s)
    PROVE  Reflects(d) <=> Reflects(s)
  BY DEF Reflects, SameMembers, Active, Deleted, RecordedOf, Deletions, Ended, AwaitsBootstrap

LEMMA ReflectsKept ==
    ASSUME IInv, PendingSeen, Reflects(db), [Next]_vars
    PROVE  Reflects(db')
<1>1. ASSUME NEW p \in Processes, Commit(p)
      PROVE  Reflects(db')
  <2>1. PICK s \in Tables, q \in Requests :
           /\ SameButIntents(db, s) /\ Allowed(s, q)
           /\ SameMembers(db', Outcome(s, q)) /\ db'.inbox = Outcome(s, q).inbox
    BY <1>1, CommitTables
  <2>2. Reflects(s)
    BY <2>1, SameReflects DEF SameButIntents
  <2>3. Agree(s) /\ \A m \in Memberships : Accounted(s, m)
    BY <2>1 DEF IInv, TablesSound, SameButIntents, SameMembers, Agree, Accounted, Active,
       Deleted
  <2>4. Reflects(Outcome(s, q))
    BY <2>1, <2>2, <2>3, OutcomeReflects
  <2> QED BY <2>1, <2>4, SameReflects
<1>2. CASE UNCHANGED db
  BY <1>2
<1>3. ASSUME NEW p \in Processes, TakeLock(p)
      PROVE  UNCHANGED db
  BY <1>3 DEF TakeLock
<1>4. ASSUME NEW i \in Invitations, PruneIntents(i)
      PROVE  Reflects(db')
  <2>1. db'.inbox = db.inbox /\ SameMembers(db', db)
    BY <1>4 DEF PruneIntents, SameMembers, IInv, TypeParts, Tables
  <2> QED BY <2>1, SameReflects
<1> QED BY <1>1, <1>2, <1>3, <1>4, StepMoves

(* Whatever order the events of an organization come in, and whatever      *)
(* commands, reconciliations and prunings commit between them, its tables  *)
(* tell what the recorded events mean: ProcessWithResult records and       *)
(* applies an event in one transaction, a stale one changes nothing, a     *)
(* deletion is final, and every event tries the bootstrap.                 *)
THEOREM EventsAlwaysReflected == Spec => []EventsReflected
<1>1. Init => Reflects(db)
  BY DEF Init, EmptyTables, Reflects, RecordedOf, Deletions, Ended, Deleted, AwaitsBootstrap
<1>2. InvitationInv /\ Reflects(db) /\ [Next]_vars => Reflects(db')
  BY ReflectsKept DEF InvitationInv, AuthorityInv
<1>3. Reflects(db) <=> EventsReflected
  BY DEF EventsReflected
<1>4. Reflects(db') <=> EventsReflected'
  BY DEF EventsReflected
<1>5. Init => EventsReflected
  BY <1>1, <1>3
<1>6. InvitationInv /\ EventsReflected /\ [Next]_vars => EventsReflected'
  BY <1>2, <1>3, <1>4
<1> QED BY <1>5, <1>6, InvitationInvariant, PTL DEF Spec

-----------------------------------------------------------------------------
(* A reservation ends with the deletion of the member, or by the release of *)
(* a removal that Clerk refused (deleteRemovalIntent).                        *)
ReleaseOf(q, m) == q.op = "release" /\ q.target = m

(* What a transaction does to the reservations it found *)
LEMMA OutcomeReleases ==
    ASSUME NEW d \in Tables, NEW q \in Requests, Allowed(d, q), Agree(d), NEW m \in d.reserved
    PROVE  LET r == Outcome(d, q)
           IN m \in r.reserved \union Deleted(r) \/ (q.op = "release" /\ q.target = m)
<1> DEFINE r == Outcome(d, q)
<1>0. m \in Memberships /\ m \in Active(d)
  BY DEF Agree, Active
<1> SUFFICES m \in r.reserved \union Deleted(r) \/ (q.op = "release" /\ q.target = m)
  OBVIOUS
<1>1. r \in Tables /\ Shaped(d, q, r)
  BY OutcomeShape
<1>2. CASE q.op = "release" /\ q.target \in Memberships
  <2>1. r = [d EXCEPT !.reserved = @ \ {q.target}]
    BY <1>2 DEF Outcome, Release
  <2>2. r.reserved = d.reserved \ {q.target}
    BY <2>1 DEF Tables
  <2> QED BY <1>2, <2>2
<1>3. CASE q.op = "finalize" /\ q.target \in Memberships
  <2>1. r = Finalize(d, q.target)
    BY <1>3 DEF Outcome
  <2>2. r = d \/ r = WithDeleted(d, q.target)
    BY <2>1 DEF Finalize, Agree
  <2>3. CASE r = d
    BY <2>3
  <2>4. CASE r = WithDeleted(d, q.target)
    <3>1. Deletes(d, r, q.target)
      BY <1>3, <2>4, WithDeletedShape
    <3> HIDE DEF r
    <3> QED BY <1>0, <1>3, <3>1 DEF Deletes, Deleted
  <2> QED BY <2>2, <2>3, <2>4
<1>4. CASE q.op = "event" /\ q.event \in Events
  <2>1. EventAllowed(d, q.event) /\ r = ApplyEvent(d, q.event)
    BY <1>4 DEF Allowed, Outcome
  <2>2. \/ Keeps(d, r) \/ Joins(d, r, q.event.aggregate)
        \/ q.event.aggregate \in Memberships /\ Deletes(d, r, q.event.aggregate)
    BY <1>4, <2>1, EventShape
  <2> HIDE DEF r
  <2> QED BY <1>0, <2>2 DEF Keeps, Joins, Deletes, Deleted
<1>5. CASE q.op \in {"setRole", "transfer", "remove", "invite", "withdraw"}
  <2>1. r \in {SetRole(d, q.target, q.role), TransferOwnership(d, q.actor, q.target),
               Reserve(d, q.target), InsertIntent(d, q.intent, q.role),
               DeleteIntent(d, q.intent)}
    BY <1>5 DEF Outcome
  <2>2. /\ SetRole(d, q.target, q.role).reserved = d.reserved
        /\ TransferOwnership(d, q.actor, q.target).reserved = d.reserved
        /\ InsertIntent(d, q.intent, q.role).reserved = d.reserved
        /\ DeleteIntent(d, q.intent).reserved = d.reserved
        /\ d.reserved \subseteq Reserve(d, q.target).reserved
    BY DEF SetRole, TransferOwnership, InsertIntent, DeleteIntent, Reserve, Tables
  <2> QED BY <2>1, <2>2
<1> QED BY <1>2, <1>3, <1>4, <1>5, RequestParts

(* A reservation ends with the deletion of the member or by a release *)
Kept(m) ==
    \/ m \in db'.reserved \union Deleted(db')
    \/ \E p \in Processes : /\ pc[p] = "locked" /\ pc'[p] # "locked"
                            /\ ReleaseOf(request[p], m)

(* So does every step, whatever the transaction had read *)
LEMMA StepReleases ==
    ASSUME IInv, PendingSeen, [Next]_vars, NEW m \in db.reserved
    PROVE  Kept(m)
<1>1. ASSUME NEW p \in Processes, Commit(p)
      PROVE  Kept(m)
  <2>1. PICK s \in Tables, q \in Requests :
           /\ q = request[p] /\ SameButIntents(db, s) /\ Allowed(s, q)
           /\ SameMembers(db', Outcome(s, q))
    BY <1>1, CommitTables
  <2>2. Agree(s) /\ m \in s.reserved
    BY <2>1 DEF IInv, TablesSound, SameButIntents, SameMembers, Agree, Active
  <2>3. m \in Outcome(s, q).reserved \union Deleted(Outcome(s, q)) \/ ReleaseOf(q, m)
    BY <2>1, <2>2, OutcomeReleases DEF ReleaseOf
  <2>4. m \in db'.reserved \union Deleted(db') \/ ReleaseOf(q, m)
    BY <2>1, <2>3 DEF SameMembers, Deleted
  <2>5. pc[p] = "locked" /\ pc'[p] # "locked"
    BY <1>1 DEF Commit, Becomes, IInv, TypeParts, ProcessesOK
  <2> QED BY <2>1, <2>4, <2>5 DEF Kept
<1>2. CASE UNCHANGED db
  BY <1>2 DEF Kept
<1>3. ASSUME NEW p \in Processes, TakeLock(p)
      PROVE  UNCHANGED db
  BY <1>3 DEF TakeLock
<1>4. ASSUME NEW i \in Invitations, PruneIntents(i)
      PROVE  db'.reserved = db.reserved
  BY <1>4 DEF PruneIntents, IInv, TypeParts, Tables
<1> QED BY <1>1, <1>2, <1>3, <1>4, StepMoves DEF Kept

(* A reservation is given up only by the compensation of a refused removal: *)
(* no other command, no event and no reconciliation gives a member that is  *)
(* about to be removed its authorization back without deleting it.          *)
OnlyCompensationReleases ==
    [][\A m \in db.reserved : Kept(m)]_vars

(* It holds in every behaviour: of all transactions only deleteRemovalIntent *)
(* takes a reservation and leaves its member.                                *)
THEOREM ReservationsLast == Spec => OnlyCompensationReleases
<1>1. AuthorityInv /\ [Next]_vars => [\A m \in db.reserved : Kept(m)]_vars
  BY StepReleases DEF AuthorityInv
<1> QED BY <1>1, AuthorityInvariant, PTL DEF Spec, OnlyCompensationReleases

(* What the README says of a provider's ambiguous result is so as long as   *)
(* no refused removal is compensated while Clerk has yet to carry out       *)
(* another one of the same user: the refusal of a retry is the only way     *)
(* around it (see the run in which one releases the reservation of both).   *)
NoRefusalWhileLate ==
    \A p \in Processes, m \in Memberships :
        pc[p] = "locked" /\ ReleaseOf(request[p], m) => UserOf[m] \notin late

(* Then a member whose removal Clerk did not answer, and may still carry    *)
(* out, stays reserved until it is deleted: neither another command nor an  *)
(* event nor ReconcileRemovals gives it its authorization back.             *)
THEOREM UnansweredStayReservedWithoutRefusals ==
    Spec /\ []NoRefusalWhileLate => UnansweredRemovalStaysReserved
<1> DEFINE Stays == \A m \in db.reserved : UserOf[m] \in late =>
                       m \in db'.reserved \union Deleted(db')
<1>1. ASSUME AuthorityInv, NoRefusalWhileLate, [Next]_vars
      PROVE  Stays
  <2> SUFFICES ASSUME NEW m \in db.reserved, UserOf[m] \in late
               PROVE  m \in db'.reserved \union Deleted(db')
    OBVIOUS
  <2>1. db.reserved \subseteq Memberships /\ ProcessesOK
    BY <1>1, TablesParts DEF AuthorityInv, IInv, TypeParts
  <2>2. Kept(m)
    BY <1>1, StepReleases DEF AuthorityInv
  <2> QED BY <1>1, <2>1, <2>2 DEF Kept, NoRefusalWhileLate
<1>2. AuthorityInv /\ NoRefusalWhileLate /\ [Next]_vars => [Stays]_vars
  BY <1>1
<1> QED BY <1>2, AuthorityInvariant, PTL DEF Spec, UnansweredRemovalStaysReserved
=============================================================================
