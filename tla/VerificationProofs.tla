------------------------- MODULE VerificationProofs -------------------------
(***************************************************************************)
(* Proofs about VerificationReview, for every set of sessions, members,    *)
(* accounts and edits.                                                     *)
(*                                                                         *)
(* The properties rest on Locking: the row that a transaction read under   *)
(* the row lock is still the committed one, and the author of a proof that *)
(* holds the advisory lock is still an administrator.  The last section is *)
(* about who waits for whom.                                               *)
(***************************************************************************)
EXTENDS VerificationReview, SequenceTheorems, TLAPS

Locking ==
    \A s \in Sessions :
        pc[s] = "locked" =>
            /\ request[s].op # "prove" => rowLock = s /\ seen[s] = org
            /\ request[s].op = "prove" =>
                  advisory = s /\ request[s].by \in administrators

(* What each statement of the authorization found stays in the history;    *)
(* and an organization that was found active is not pending again.         *)
First(r) == IF r.op = "decide" THEN "account" ELSE "organization"
Witnessed ==
    \A s \in Sessions :
        pc[s] \in {"inside", "authorized", "locked"} =>
            /\ First(request[s]) \in witnessed[s]
            /\ pc[s] # "inside" => Needed(request[s]) \subseteq witnessed[s]
            /\ request[s].op # "decide" => org.lifecycle # "pending"

IInv ==
    /\ TypeOK
    /\ Locking
    /\ Witnessed
    /\ TrailAccounts
    /\ AnswersStand
    /\ ProofAccounted

-----------------------------------------------------------------------------
(* A sequence that an element is appended to keeps its elements.           *)
LEMMA Appended ==
    ASSUME NEW S, NEW q \in Seq(S), NEW e \in S
    PROVE  /\ Append(q, e) \in Seq(S)
           /\ Len(Append(q, e)) = Len(q) + 1
           /\ Append(q, e) # << >>
           /\ \A i \in 1 .. Len(q) : Append(q, e)[i] = q[i]
           /\ Append(q, e)[Len(q) + 1] = e
  BY AppendProperties, LenProperties, EmptySeq

(* What a request of each kind says *)
LEMMA RequestShape ==
    ASSUME NEW r \in Requests
    PROVE  /\ r.op \in {"request", "edit", "prove", "decide"}
           /\ r.op = "decide" => r.by \in Accounts /\ r.decision \in Decisions
           /\ r.op # "decide" => r.by \in Members
           /\ r.op = "edit" => r.patch \in Patches
           /\ r # NoRequest
  BY ReviewAssumption DEF Requests

LEMMA TargetIsStatus ==
    ASSUME NEW r \in Requests, r.op # "edit"
    PROVE  Target(r) \in L!Statuses
  BY RequestShape DEF Target, Decisions, L!Statuses

LEMMA MergedIsProfile ==
    ASSUME NEW p \in [Fields -> Values], NEW d \in Patches
    PROVE  L!Merged(p, d) \in [Fields -> Values]
  <1>1. DOMAIN d \subseteq Fields /\ d \in [DOMAIN d -> Values]
    BY ReviewAssumption
  <1>2. \A f \in Fields : (IF f \in DOMAIN d THEN d[f] ELSE p[f]) \in Values
    BY <1>1
  <1> QED  BY <1>2 DEF L!Merged

(* The kinds of request a session in a transaction can have *)
LEMMA InTransaction ==
    ASSUME TypeOK, NEW s \in Sessions, pc[s] \in InProgress
    PROVE  /\ request[s] \in Requests
           /\ pc[s] = "locked" /\ request[s].op # "prove" => seen[s] \in Rows
  BY DEF TypeOK, InProgress

-----------------------------------------------------------------------------
(* Type correctness is inductive alone. *)
THEOREM InitTyped == Init => TypeOK
  <1> SUFFICES ASSUME Init PROVE TypeOK
    OBVIOUS
  <1>1. PlatformTypeOK
    BY DEF Init, PlatformInit, PlatformTypeOK, AccountStatuses
  <1>2. org \in Rows
    BY ReviewAssumption DEF Init, Rows, L!Lifecycles, L!Statuses
  <1>3. trail \in Seq([from: L!Statuses, to: L!Statuses]) /\ proofs \in Seq(Members)
    BY DEF Init
  <1> QED
    BY <1>1, <1>2, <1>3, ReviewAssumption DEF Init, TypeOK, Ended, InProgress

LEMMA WitnessTyped ==
    ASSUME TypeOK, Witness
    PROVE  witnessed' \in [Sessions -> SUBSET {"account", "role", "organization",
                                               "standing"}]
  <1> SUFFICES ASSUME NEW s \in Sessions
               PROVE  witnessed'[s] \subseteq {"account", "role", "organization",
                                               "standing"}
    BY DEF Witness
  <1>1. Facts(request[s])' \subseteq {"account", "role", "organization", "standing"}
    BY DEF Facts
  <1>2. witnessed[s] \subseteq {"account", "role", "organization", "standing"}
    BY DEF TypeOK
  <1> QED  BY <1>1, <1>2 DEF Witness

(* What End leaves is well typed, whatever the answer. *)
LEMMA EndTyped ==
    ASSUME TypeOK, NEW s \in Sessions, NEW how \in Ended, pc[s] \in InProgress,
           End(s, how)
    PROVE  /\ pc' \in [Sessions -> Ended \union InProgress]
           /\ request' \in [Sessions -> Requests \union {NoRequest}]
           /\ seen' \in [Sessions -> Rows \union {NoRow}]
           /\ rowLock' \in Sessions \union {Nobody}
           /\ advisory' \in Sessions \union {Nobody}
           /\ \A t \in Sessions :
                 /\ request'[t] = NoRequest <=> pc'[t] = "idle"
                 /\ seen'[t] # NoRow <=> pc'[t] = "locked" /\ request'[t].op # "prove"
           /\ requests' \in 0 .. MaxRequests
  BY DEF TypeOK, End, Ended, InProgress

(* A step that ends a session's request and leaves well-typed tables *)
LEMMA EndingTyped ==
    ASSUME TypeOK, NEW s \in Sessions, pc[s] \in InProgress,
           Answered(s) \/ End(s, "idle"),
           org' \in Rows, trail' \in Seq([from: L!Statuses, to: L!Statuses]),
           edits' \in Nat, proofs' \in Seq(Members),
           UNCHANGED <<platform, administrators, changes>>, Witness
    PROVE  TypeOK'
  <1>1. PICK how \in Ended : End(s, how)
    BY DEF Answered, Ended
  <1> QED
    BY <1>1, EndTyped, WitnessTyped DEF TypeOK, PlatformTypeOK, platform

LEMMA CommitsTyped ==
    ASSUME TypeOK, NEW s \in Sessions, Witness,
           CommitStatus(s) \/ CommitEdit(s) \/ CommitProof(s),
           UNCHANGED <<platform, administrators, changes>>
    PROVE  TypeOK'
  <1> DEFINE r == request[s]
  <1>1. pc[s] \in InProgress /\ r \in Requests /\ Answered(s)
    BY InTransaction DEF CommitStatus, CommitEdit, CommitProof, InProgress
  <1>2. r.op # "prove" /\ pc[s] = "locked" => seen[s] \in Rows
    BY <1>1, InTransaction
  <1>3. CASE CommitStatus(s)
    <2>1. r.op # "edit" /\ r.op # "prove"
      BY <1>3 DEF CommitStatus
    <2>2. Target(r) \in L!Statuses /\ seen[s].verification \in L!Statuses
      <3>1. Target(r) \in L!Statuses
        BY <1>1, <2>1, TargetIsStatus
      <3>2. seen[s] \in Rows
        BY <1>2, <1>3, <2>1 DEF CommitStatus
      <3> QED  BY <3>1, <3>2 DEF Rows
    <2>3. [from |-> seen[s].verification, to |-> Target(r)]
              \in [from: L!Statuses, to: L!Statuses]
      BY <2>2
    <2>4. org' \in Rows
      BY <1>3, <2>2 DEF CommitStatus, WriteStatus, TypeOK, Rows
    <2>5. trail' \in Seq([from: L!Statuses, to: L!Statuses])
      <3> DEFINE S == [from: L!Statuses, to: L!Statuses]
                 e == [from |-> seen[s].verification, to |-> Target(r)]
      <3>1. trail \in Seq(S)
        BY DEF TypeOK
      <3>2. Append(trail, e) \in Seq(S)
        BY <2>3, <3>1, Appended
      <3>3. trail' = trail \/ trail' = Append(trail, e)
        BY <1>3 DEF CommitStatus, WriteStatus
      <3> QED  BY <3>1, <3>2, <3>3
    <2>6. proofs' \in Seq(Members)
      BY <1>3 DEF CommitStatus, TypeOK
    <2>7. edits' \in Nat
      BY <1>3 DEF CommitStatus, TypeOK
    <2> QED  BY <1>1, <2>4, <2>5, <2>6, <2>7, EndingTyped
  <1>4. CASE CommitEdit(s)
    <2>1. L!Merged(seen[s].profile, r.patch) \in [Fields -> Values]
      BY <1>1, <1>2, <1>4, RequestShape, MergedIsProfile DEF CommitEdit, Rows
    <2>2. org' \in Rows
      BY <1>4, <2>1 DEF CommitEdit, TypeOK, Rows
    <2>3. trail' \in Seq([from: L!Statuses, to: L!Statuses])
          /\ proofs' \in Seq(Members)
      BY <1>4 DEF CommitEdit, TypeOK
    <2>4. edits' \in Nat
      BY <1>4 DEF CommitEdit, TypeOK
    <2> QED  BY <1>1, <2>2, <2>3, <2>4, EndingTyped
  <1>5. CASE CommitProof(s)
    <2>1. r.by \in Members
      BY <1>1, <1>5, RequestShape DEF CommitProof
    <2>2. org' \in Rows
      BY <1>5, <2>1 DEF CommitProof, TypeOK, Rows
    <2>3. proofs' \in Seq(Members)
      BY <1>5, <2>1, Appended DEF CommitProof, TypeOK
    <2>4. edits' \in Nat /\ trail' \in Seq([from: L!Statuses, to: L!Statuses])
      BY <1>5 DEF CommitProof, TypeOK
    <2> QED  BY <1>1, <2>2, <2>3, <2>4, EndingTyped
  <1> QED  BY <1>3, <1>4, <1>5

LEMMA SessionsTyped ==
    ASSUME TypeOK, NEW s \in Sessions, SessionStep(s), Witness
    PROVE  TypeOK'
  <1>1. ASSUME NEW r \in Requests, Begin(s, r),
               UNCHANGED <<platform, tables, administrators, changes>>
        PROVE  TypeOK'
    BY <1>1, RequestShape, WitnessTyped, ReviewAssumption
    DEF Begin, TypeOK, PlatformTypeOK, platform, tables, locks, Ended, InProgress
  <1>2. ASSUME Read(s), UNCHANGED <<platform, tables, administrators, changes>>
        PROVE  TypeOK'
    BY <1>2, WitnessTyped
    DEF Read, TypeOK, PlatformTypeOK, platform, tables, locks, Ended, InProgress
  <1>3. ASSUME LockRow(s), UNCHANGED <<platform, tables, administrators, changes>>
        PROVE  TypeOK'
    BY <1>3, WitnessTyped, ReviewAssumption
    DEF LockRow, TypeOK, PlatformTypeOK, platform, tables, locks, Ended, InProgress
  <1>4. ASSUME LockAdvisory(s), UNCHANGED <<platform, tables, administrators, changes>>
        PROVE  TypeOK'
    BY <1>4, WitnessTyped
    DEF LockAdvisory, TypeOK, PlatformTypeOK, platform, tables, locks, Ended, InProgress
  <1>5. ASSUME Refuse(s) \/ Abort(s), UNCHANGED <<platform, administrators, changes>>
        PROVE  TypeOK'
    BY <1>5, EndingTyped DEF Refuse, Refused, Abort, TypeOK, tables, InProgress
  <1> QED
    BY <1>1, <1>2, <1>3, <1>4, <1>5, CommitsTyped
    DEF SessionStep, Proceed, platform, tables

LEMMA ChangesTyped ==
    ASSUME TypeOK, Change, Witness
    PROVE  TypeOK'
  <1>1. PlatformTypeOK'
    <2>1. CASE UNCHANGED platform
      BY <2>1 DEF TypeOK, PlatformTypeOK, platform
    <2>2. CASE PlatformStep
      BY <2>2 DEF TypeOK, PlatformTypeOK, PlatformStep, BeginGrant, FinishGrant, Revoke,
                  CloseAccount, AccountStatuses, AssignmentStatuses
    <2> QED  BY <2>1, <2>2 DEF Change, Synchronize, ChangeStanding
  <1>2. org' \in Rows
    BY DEF Change, Synchronize, ChangeStanding, TypeOK, Rows, L!Lifecycles, tables
  <1>3. /\ trail' \in Seq([from: L!Statuses, to: L!Statuses])
        /\ edits' \in Nat
        /\ proofs' \in Seq(Members)
    BY DEF Change, Synchronize, ChangeStanding, TypeOK, tables
  <1>4. administrators' \in SUBSET Members
    BY DEF Change, Synchronize, ChangeStanding, TypeOK
  <1>5. changes' \in 0 .. MaxChanges
    BY ReviewAssumption DEF Change, TypeOK
  <1> QED
    BY <1>1, <1>2, <1>3, <1>4, <1>5, WitnessTyped DEF TypeOK, Change, locks, session

THEOREM StepTyped == TypeOK /\ [Next]_vars => TypeOK'
  <1> SUFFICES ASSUME TypeOK, [Next]_vars PROVE TypeOK'
    OBVIOUS
  <1>1. CASE Next
    <2>1. ASSUME ReadOnly, Witness PROVE TypeOK'
      BY <2>1, WitnessTyped
      DEF ReadOnly, TypeOK, PlatformTypeOK, platform, tables, locks, session
    <2> QED  BY <1>1, <2>1, SessionsTyped, ChangesTyped DEF Next
  <1>2. CASE UNCHANGED vars
    BY <1>2 DEF vars, TypeOK, PlatformTypeOK
  <1> QED  BY <1>1, <1>2

(* Every reachable state of the model is well typed: a session has a       *)
(* request until it is answered, and a row only while it holds its lock.   *)
THEOREM TypeCorrect == Spec => []TypeOK
  BY InitTyped, StepTyped, PTL DEF Spec
-----------------------------------------------------------------------------
(* Locking *)

(* A session that ends leaves the others, and their locks, as they are. *)
LEMMA OthersKept ==
    ASSUME TypeOK, NEW s \in Sessions, pc[s] \in InProgress,
           Answered(s) \/ End(s, "idle"),
           NEW t \in Sessions, pc'[t] \in InProgress
    PROVE  /\ t # s
           /\ pc'[t] = pc[t] /\ request'[t] = request[t] /\ seen'[t] = seen[t]
           /\ rowLock = t => rowLock' = t
           /\ advisory = t => advisory' = t
  <1>1. PICK how \in Ended : End(s, how)
    BY DEF Answered, Ended
  <1> QED  BY <1>1 DEF End, TypeOK, Ended, InProgress

LEMMA EndingLocking ==
    ASSUME TypeOK, Locking, NEW s \in Sessions, pc[s] \in InProgress,
           Answered(s) \/ End(s, "idle"), UNCHANGED administrators,
           rowLock \in Sessions \ {s} => UNCHANGED org
    PROVE  Locking'
  BY OthersKept DEF Locking, InProgress

LEMMA SessionsLocking ==
    ASSUME TypeOK, Locking, NEW s \in Sessions, SessionStep(s)
    PROVE  Locking'
  <1>1. ASSUME NEW r \in Requests, Begin(s, r), UNCHANGED <<tables, administrators>>
        PROVE  Locking'
    BY <1>1 DEF Begin, Locking, TypeOK, tables, locks, Ended
  <1>2. ASSUME Read(s), UNCHANGED <<tables, administrators>> PROVE Locking'
    BY <1>2 DEF Read, Locking, TypeOK, tables, locks
  <1>3. ASSUME LockRow(s), UNCHANGED <<tables, administrators>> PROVE Locking'
    BY <1>3, ReviewAssumption DEF LockRow, RowFree, Locking, TypeOK, tables
  <1>4. ASSUME LockAdvisory(s), UNCHANGED <<tables, administrators>> PROVE Locking'
    BY <1>4, ReviewAssumption DEF LockAdvisory, AdvisoryFree, Locking, TypeOK, tables
  <1>5. ASSUME CommitStatus(s) \/ CommitEdit(s) \/ CommitProof(s),
               UNCHANGED administrators
        PROVE  Locking'
    <2>1. pc[s] \in InProgress /\ Answered(s)
      BY <1>5 DEF CommitStatus, CommitEdit, CommitProof, InProgress
    <2>2. rowLock \in {s, Nobody}
      BY <1>5 DEF CommitStatus, CommitEdit, CommitProof, Locking, RowFree
    <2> QED  BY <1>5, <2>1, <2>2, EndingLocking, ReviewAssumption
  <1>6. ASSUME Refuse(s) \/ Abort(s), UNCHANGED administrators PROVE Locking'
    BY <1>6, EndingLocking DEF Refuse, Refused, Abort, tables, InProgress
  <1> QED
    BY <1>1, <1>2, <1>3, <1>4, <1>5, <1>6 DEF SessionStep, Proceed

LEMMA ChangesLocking ==
    ASSUME TypeOK, Locking, Change
    PROVE  Locking'
  BY ReviewAssumption
  DEF Change, Synchronize, ChangeStanding, AdvisoryFree, RowFree, Locking, TypeOK,
      tables, locks, session

-----------------------------------------------------------------------------
(* What authorizes a request was witnessed during it. *)
LEMMA HistoryGrows ==
    ASSUME TypeOK, Witness, NEW t \in Sessions, pc[t] \in InProgress, pc'[t] \in InProgress
    PROVE  witnessed'[t] = Facts(request[t])' \union witnessed[t]
  BY DEF Witness, Ended, InProgress

(* Nothing is forgotten of a request that goes on, or that does not move. *)
LEMMA WitnessedStays ==
    ASSUME TypeOK, Witnessed, Witness, NEW t \in Sessions,
           pc[t] \in {"inside", "authorized", "locked"}, pc'[t] = pc[t],
           request'[t] = request[t],
           org.lifecycle # "pending" => org.lifecycle' # "pending"
    PROVE  /\ First(request[t])' \in witnessed'[t]
           /\ pc'[t] # "inside" => Needed(request[t])' \subseteq witnessed'[t]
           /\ request'[t].op # "decide" => org.lifecycle' # "pending"
  BY HistoryGrows DEF Witnessed, First, Needed, InProgress

LEMMA LifecycleOpens ==
    ASSUME TypeOK, Next, org.lifecycle # "pending"
    PROVE  org.lifecycle' # "pending"
  <1>1. ASSUME NEW s \in Sessions, SessionStep(s) PROVE org.lifecycle' = org.lifecycle
    BY <1>1
    DEF SessionStep, Proceed, CommitStatus, WriteStatus, CommitEdit, CommitProof,
        Refuse, Abort, tables, TypeOK, Rows
  <1>2. ASSUME Change PROVE org.lifecycle' # "pending"
    BY <1>2 DEF Change, Synchronize, ChangeStanding, tables, TypeOK, Rows
  <1> QED  BY <1>1, <1>2 DEF Next, ReadOnly, tables

LEMMA WitnessedKept ==
    ASSUME TypeOK, Witnessed, Next
    PROVE  Witnessed'
  <1> SUFFICES ASSUME NEW t \in Sessions, pc'[t] \in {"inside", "authorized", "locked"}
               PROVE  /\ First(request[t])' \in witnessed'[t]
                      /\ pc'[t] # "inside" => Needed(request[t])' \subseteq witnessed'[t]
                      /\ request'[t].op # "decide" => org.lifecycle' # "pending"
    BY DEF Witnessed
  <1> USE DEF Next
  <1>0. Witness /\ (org.lifecycle # "pending" => org.lifecycle' # "pending")
    BY LifecycleOpens
  <1>1. ASSUME pc'[t] = pc[t], request'[t] = request[t]
        PROVE  /\ First(request[t])' \in witnessed'[t]
               /\ pc'[t] # "inside" => Needed(request[t])' \subseteq witnessed'[t]
               /\ request'[t].op # "decide" => org.lifecycle' # "pending"
    BY <1>0, <1>1, WitnessedStays
  <1>2. ASSUME Read(t), UNCHANGED <<platform, tables, administrators>>
        PROVE  /\ First(request[t])' \in witnessed'[t]
               /\ pc'[t] # "inside" => Needed(request[t])' \subseteq witnessed'[t]
               /\ request'[t].op # "decide" => org.lifecycle' # "pending"
    <2>1. witnessed'[t] = Facts(request[t]) \union witnessed[t]
      <3>1. pc[t] \in InProgress /\ pc'[t] \in InProgress
        BY <1>2 DEF Read, InProgress
      <3>2. Facts(request[t])' = Facts(request[t])
        BY <1>2 DEF Read, Facts, platform, tables
      <3> QED  BY <1>0, <3>1, <3>2, HistoryGrows
    <2>2. CASE pc[t] = "begun" /\ FirstRead(request[t])
      BY <1>2, <2>1, <2>2 DEF Read, FirstRead, AccountAdmitted, Facts, First, TypeOK, tables
    <2>3. CASE pc[t] = "inside" /\ SecondRead(request[t])
      BY <1>2, <2>1, <2>3
      DEF Read, SecondRead, RoleListed, Facts, First, Needed, Witnessed, tables
    <2> QED  BY <1>2, <2>2, <2>3 DEF Read
  <1>3. ASSUME LockRow(t) \/ LockAdvisory(t), UNCHANGED <<tables, administrators>>
        PROVE  /\ First(request[t])' \in witnessed'[t]
               /\ pc'[t] # "inside" => Needed(request[t])' \subseteq witnessed'[t]
               /\ request'[t].op # "decide" => org.lifecycle' # "pending"
    <2>1. pc[t] = "authorized" /\ pc'[t] = "locked" /\ request'[t] = request[t]
      BY <1>3 DEF LockRow, LockAdvisory, TypeOK
    <2> QED
      BY <1>0, <1>3, <2>1, HistoryGrows DEF Witnessed, First, Needed, InProgress, tables
  <1>4. ASSUME NEW s \in Sessions, SessionStep(s)
        PROVE  \/ pc'[t] = pc[t] /\ request'[t] = request[t]
               \/ Read(t) /\ UNCHANGED <<platform, tables, administrators>>
               \/ LockRow(t) /\ UNCHANGED <<tables, administrators>>
               \/ LockAdvisory(t) /\ UNCHANGED <<tables, administrators>>
    <2>1. ASSUME Answered(s) \/ End(s, "idle"), pc[s] \in InProgress
          PROVE  pc'[t] = pc[t] /\ request'[t] = request[t]
      BY <2>1, OthersKept DEF InProgress
    <2>2. ASSUME NEW r \in Requests, Begin(s, r) PROVE pc'[t] = pc[t] /\ request'[t] = request[t]
      BY <2>2 DEF Begin, TypeOK
    <2>3. ASSUME t # s, Read(s) \/ LockRow(s) \/ LockAdvisory(s)
          PROVE  pc'[t] = pc[t] /\ request'[t] = request[t]
      BY <2>3 DEF Read, LockRow, LockAdvisory, TypeOK
    <2>4. ASSUME CommitStatus(s) \/ CommitEdit(s) \/ CommitProof(s) \/ Refuse(s) \/ Abort(s)
          PROVE  pc[s] \in InProgress /\ (Answered(s) \/ End(s, "idle"))
      BY <2>4 DEF CommitStatus, CommitEdit, CommitProof, Refuse, Refused, Abort, InProgress
    <2> QED  BY <1>4, <2>1, <2>2, <2>3, <2>4 DEF SessionStep, Proceed
  <1>5. ASSUME Change \/ ReadOnly PROVE pc'[t] = pc[t] /\ request'[t] = request[t]
    BY <1>5 DEF Change, ReadOnly, session
  <1> QED  BY <1>1, <1>2, <1>3, <1>4, <1>5

-----------------------------------------------------------------------------
(* The audit trail *)

(* Who writes the status and the trail read the committed row. *)
LEMMA StatusWritten ==
    ASSUME TypeOK, Locking, NEW s \in Sessions, CommitStatus(s)
    PROVE  /\ \/ UNCHANGED <<org, trail>>
                 /\ org.verification = Target(request[s])
              \/ /\ org.lifecycle = "active"
                 /\ <<org.verification, Target(request[s])>> \in L!Transitions
                 /\ org' = [org EXCEPT !.verification = Target(request[s])]
                 /\ trail' = Append(trail, [from |-> org.verification,
                                            to |-> Target(request[s])])
  BY DEF CommitStatus, Locking, Allowed, WriteStatus

(* A step writes the status by CommitStatus, or leaves it and the trail. *)
LEMMA StatusKept ==
    ASSUME TypeOK, Next
    PROVE  \/ \E s \in Sessions : CommitStatus(s)
           \/ trail' = trail /\ org'.verification = org.verification
  <1>1. ASSUME NEW s \in Sessions, SessionStep(s), ~CommitStatus(s)
        PROVE  trail' = trail /\ org'.verification = org.verification
    BY <1>1
    DEF SessionStep, Proceed, CommitEdit, CommitProof, Refuse, Abort, tables, TypeOK, Rows
  <1>2. ASSUME Change PROVE trail' = trail /\ org'.verification = org.verification
    BY <1>2 DEF Change, Synchronize, ChangeStanding, tables, TypeOK, Rows
  <1> QED  BY <1>1, <1>2 DEF Next, ReadOnly, tables

LEMMA TrailKept ==
    ASSUME TypeOK, Locking, TrailAccounts, Next
    PROVE  TrailAccounts'
  <1> DEFINE S == [from: L!Statuses, to: L!Statuses]
  <1>0. trail \in Seq(S)
    BY DEF TypeOK
  <1>1. CASE trail' = trail /\ org'.verification = org.verification
    BY <1>1 DEF TrailAccounts
  <1>2. ASSUME NEW s \in Sessions, CommitStatus(s) PROVE TrailAccounts'
    <2> DEFINE to == Target(request[s])
               e == [from |-> org.verification, to |-> to]
    <2>1. CASE UNCHANGED <<org, trail>>
      BY <2>1 DEF TrailAccounts
    <2>2. CASE /\ <<org.verification, to>> \in L!Transitions
               /\ org' = [org EXCEPT !.verification = to]
               /\ trail' = Append(trail, e)
      <3>1. e \in S
        BY <2>2 DEF L!Transitions, L!Statuses
      <3>2. /\ Len(trail') = Len(trail) + 1 /\ trail' # << >>
            /\ \A i \in 1 .. Len(trail) : trail'[i] = trail[i]
            /\ trail'[Len(trail) + 1] = e
        <4>1. trail' = Append(trail, e)
          BY <2>2
        <4> HIDE DEF S, e
        <4> QED  BY <1>0, <3>1, <4>1, Appended
      <3>3. Len(trail) \in Nat /\ (trail = << >> <=> Len(trail) = 0)
        BY <1>0, EmptySeq, LenProperties
      <3>4. org'.verification = to
        BY <2>2 DEF TypeOK, Rows
      <3>5. ASSUME NEW i \in 1 .. Len(trail) PROVE
                /\ <<trail'[i].from, trail'[i].to>> \in L!Transitions
                /\ trail'[i].from = IF i = 1 THEN "unverified" ELSE trail'[i - 1].to
        BY <3>2, <3>3 DEF TrailAccounts
      <3>6. /\ <<e.from, e.to>> \in L!Transitions
            /\ e.from = IF Len(trail) + 1 = 1 THEN "unverified" ELSE trail'[Len(trail)].to
        BY <2>2, <3>2, <3>3 DEF TrailAccounts
      <3> QED  BY <3>2, <3>3, <3>4, <3>5, <3>6 DEF TrailAccounts
    <2> QED  BY <1>2, <2>1, <2>2, StatusWritten
  <1> QED  BY <1>1, <1>2, StatusKept

-----------------------------------------------------------------------------
(* The answers *)

(* The trail only grows, and what is verified stays verified. *)
LEMMA TrailGrows ==
    ASSUME TypeOK, Locking, Next
    PROVE  /\ \A i \in 1 .. Len(trail) : i \in 1 .. Len(trail') /\ trail'[i] = trail[i]
           /\ org.verification = "verified" => org'.verification = "verified"
  <1> DEFINE S == [from: L!Statuses, to: L!Statuses]
  <1>0. trail \in Seq(S) /\ Len(trail) \in Nat
    BY LenProperties DEF TypeOK
  <1>1. CASE trail' = trail /\ org'.verification = org.verification
    BY <1>1
  <1>2. ASSUME NEW s \in Sessions, CommitStatus(s)
        PROVE  /\ \A i \in 1 .. Len(trail) : i \in 1 .. Len(trail') /\ trail'[i] = trail[i]
               /\ org.verification = "verified" => org'.verification = "verified"
    <2> DEFINE e == [from |-> org.verification, to |-> Target(request[s])]
    <2>1. CASE UNCHANGED <<org, trail>>
      BY <2>1
    <2>2. CASE /\ <<org.verification, Target(request[s])>> \in L!Transitions
               /\ trail' = Append(trail, e)
      <3>1. e \in S /\ org.verification # "verified"
        BY <2>2 DEF L!Transitions, L!Statuses
      <3>2. Len(trail') = Len(trail) + 1 /\ \A i \in 1 .. Len(trail) : trail'[i] = trail[i]
        <4>1. trail' = Append(trail, e)
          BY <2>2
        <4> HIDE DEF S, e
        <4> QED  BY <1>0, <3>1, <4>1, Appended
      <3> QED  BY <1>0, <3>1, <3>2
    <2> QED  BY <1>2, <2>1, <2>2, StatusWritten
  <1> QED  BY <1>1, <1>2, StatusKept

(* Decisions are made of pending organizations. *)
LEMMA DecidedFrom ==
    ASSUME NEW a, NEW d \in Decisions, <<a, d>> \in L!Transitions
    PROVE  a = "pending"
  BY DEF L!Transitions, Decisions

(* A decision that finds its status in place finds who made it so. *)
LEMMA DecisionFound ==
    ASSUME TypeOK, TrailAccounts, NEW d \in Decisions, org.verification = d
    PROVE  \E i \in 1 .. Len(trail) : trail[i] = [from |-> "pending", to |-> d]
  <1> DEFINE S == [from: L!Statuses, to: L!Statuses]
             n == Len(trail)
  <1>1. trail \in Seq(S) /\ trail # << >>
    BY DEF TypeOK, TrailAccounts, Decisions
  <1>2. n \in 1 .. n /\ trail[n] \in S
    <2> HIDE DEF S
    <2>1. Len(trail) \in Nat /\ Len(trail) # 0
      BY <1>1, EmptySeq, LenProperties
    <2> QED  BY <1>1, <2>1, ElementOfSeq
  <1>3. trail[n].to = d /\ <<trail[n].from, d>> \in L!Transitions
    BY <1>1, <1>2 DEF TrailAccounts
  <1>4. trail[n].from = "pending"
    <2> DEFINE a == trail[n].from
    <2>1. <<a, d>> \in L!Transitions
      BY <1>3
    <2> HIDE DEF a
    <2>2. a = "pending"
      BY <2>1, DecidedFrom
    <2> QED  BY <2>2 DEF a
  <1>5. trail[n] = [from |-> "pending", to |-> d]
    BY <1>2, <1>3, <1>4
  <1> QED  BY <1>2, <1>5

(* A decision that succeeds is in the trail. *)
LEMMA DecisionRecorded ==
    ASSUME TypeOK, Locking, TrailAccounts, NEW s \in Sessions, CommitStatus(s),
           request[s].op = "decide"
    PROVE  /\ \E i \in 1 .. Len(trail') :
                 trail'[i] = [from |-> "pending", to |-> request[s].decision]
           /\ org'.verification = request[s].decision
  <1> DEFINE S == [from: L!Statuses, to: L!Statuses]
             d == request[s].decision
             e == [from |-> org.verification, to |-> d]
  <1>1. d \in Decisions /\ Target(request[s]) = d
    BY InTransaction, RequestShape DEF CommitStatus, InProgress, Target
  <1>2. CASE UNCHANGED <<org, trail>> /\ org.verification = d
    BY <1>1, <1>2, DecisionFound
  <1>3. CASE /\ <<org.verification, d>> \in L!Transitions
             /\ org' = [org EXCEPT !.verification = d]
             /\ trail' = Append(trail, e)
    <2>1. trail \in Seq(S) /\ Len(trail) \in Nat /\ e \in S
      BY <1>3, LenProperties DEF TypeOK, L!Transitions, L!Statuses
    <2>2. Len(trail') = Len(trail) + 1 /\ trail'[Len(trail) + 1] = e
      <3>1. trail' = Append(trail, e)
        BY <1>3
      <3> HIDE DEF S, e
      <3> QED  BY <2>1, <3>1, Appended
    <2>3. org.verification = "pending"
      BY <1>1, <1>3, DecidedFrom
    <2>4. Len(trail) + 1 \in 1 .. Len(trail')
      BY <2>1, <2>2
    <2>5. org'.verification = d
      BY <1>3 DEF TypeOK, Rows
    <2> QED  BY <2>2, <2>3, <2>4, <2>5
  <1> QED  BY <1>1, <1>2, <1>3, StatusWritten

(* Only CommitStatus answers a decision with success. *)
LEMMA WhoSucceeds ==
    ASSUME TypeOK, Next, NEW t \in Sessions, pc'[t] = "succeeded",
           request'[t].op = "decide"
    PROVE  /\ request'[t] = request[t]
           /\ pc[t] = "succeeded" \/ CommitStatus(t)
  <1>1. ASSUME NEW s \in Sessions, SessionStep(s), t # s
        PROVE  pc'[t] = pc[t] /\ request'[t] = request[t]
    BY <1>1
    DEF SessionStep, Begin, Proceed, Read, LockRow, LockAdvisory, CommitStatus,
        CommitEdit, CommitProof, Refuse, Abort, Answered, End, TypeOK
  <1>2. ASSUME SessionStep(t)
        PROVE  request'[t] = request[t] /\ CommitStatus(t)
    <2>1. ASSUME End(t, "idle") PROVE FALSE
      BY <2>1 DEF End, TypeOK
    <2>2. ASSUME Answered(t) PROVE request'[t] = request[t]
      BY <2>2 DEF Answered, End, TypeOK
    <2>3. CommitStatus(t)
      BY <1>2, <2>1, <2>2
      DEF SessionStep, Begin, Proceed, Read, LockRow, LockAdvisory, CommitEdit,
          CommitProof, Refuse, Abort, TypeOK
    <2> QED  BY <2>2, <2>3 DEF CommitStatus
  <1>3. ASSUME Change \/ ReadOnly PROVE pc'[t] = pc[t] /\ request'[t] = request[t]
    BY <1>3 DEF Change, ReadOnly, session
  <1> QED  BY <1>1, <1>2, <1>3 DEF Next

LEMMA AnswersKept ==
    ASSUME TypeOK, Locking, TrailAccounts, AnswersStand, Next
    PROVE  AnswersStand'
  <1> SUFFICES ASSUME NEW t \in Sessions, pc'[t] = "succeeded", request'[t].op = "decide"
               PROVE  /\ \E i \in 1 .. Len(trail') :
                            trail'[i] = [from |-> "pending", to |-> request'[t].decision]
                      /\ request'[t].decision = "verified" => org'.verification = "verified"
    BY DEF AnswersStand
  <1>1. request'[t] = request[t]
    BY WhoSucceeds
  <1>2. CASE pc[t] = "succeeded"
    BY <1>1, <1>2, TrailGrows DEF AnswersStand
  <1>3. CASE CommitStatus(t)
    BY <1>1, <1>3, DecisionRecorded
  <1> QED  BY <1>2, <1>3, WhoSucceeds

-----------------------------------------------------------------------------
(* The business e-mail proofs *)

(* A step writes the proof and its audit event by CommitProof, or neither; *)
(* nothing restores an organization that was deleted.                      *)
LEMMA ProofWritten ==
    ASSUME TypeOK, Next
    PROVE  /\ \/ \E s \in Sessions : CommitProof(s)
              \/ proofs' = proofs /\ org'.proof = org.proof
           /\ org.lifecycle = "deleted" => org'.lifecycle = "deleted"
  <1>1. ASSUME NEW s \in Sessions, SessionStep(s)
        PROVE  /\ CommitProof(s) \/ (proofs' = proofs /\ org'.proof = org.proof)
               /\ org'.lifecycle = org.lifecycle
    BY <1>1
    DEF SessionStep, Proceed, CommitStatus, WriteStatus, CommitEdit, CommitProof,
        Refuse, Abort, tables, TypeOK, Rows
  <1>2. ASSUME Change
        PROVE  /\ proofs' = proofs /\ org'.proof = org.proof
               /\ org.lifecycle = "deleted" => org'.lifecycle = "deleted"
    BY <1>2 DEF Change, Synchronize, ChangeStanding, tables, TypeOK, Rows
  <1> QED  BY <1>1, <1>2 DEF Next, ReadOnly, tables

LEMMA ProofKept ==
    ASSUME TypeOK, Witnessed, ProofAccounted, Next
    PROVE  ProofAccounted'
  <1> SUFFICES ASSUME org'.lifecycle # "deleted" PROVE org'.proof = LastProof'
    BY DEF ProofAccounted
  <1>1. org.lifecycle # "deleted"
    BY ProofWritten
  <1>2. CASE proofs' = proofs /\ org'.proof = org.proof
    BY <1>1, <1>2 DEF ProofAccounted, LastProof
  <1>3. ASSUME NEW s \in Sessions, CommitProof(s) PROVE org'.proof = LastProof'
    <2> DEFINE m == request[s].by
    <2>1. m \in Members /\ org.lifecycle # "pending"
      BY <1>3, InTransaction, RequestShape DEF CommitProof, InProgress, Witnessed
    <2>2. org.lifecycle = "active"
      BY <1>1, <2>1 DEF TypeOK, Rows, L!Lifecycles
    <2>3. org'.proof = m
      BY <1>3, <2>2 DEF CommitProof, TypeOK, Rows
    <2>4. proofs' # << >> /\ proofs'[Len(proofs')] = m
      <3>1. proofs \in Seq(Members) /\ proofs' = Append(proofs, m)
        BY <1>3 DEF CommitProof, TypeOK
      <3> HIDE DEF m
      <3> QED  BY <2>1, <3>1, Appended
    <2> QED  BY <2>3, <2>4 DEF LastProof
  <1> QED  BY <1>2, <1>3, ProofWritten

-----------------------------------------------------------------------------
(* The inductive invariant *)
THEOREM InitInvariant == Init => IInv
  <1> SUFFICES ASSUME Init PROVE IInv
    OBVIOUS
  <1>1. TypeOK
    BY InitTyped
  <1>2. \A s \in Sessions : pc[s] = "idle"
    BY DEF Init
  <1>3. Len(trail) = 0 /\ trail = << >> /\ proofs = << >>
    BY EmptySeq DEF Init
  <1>4. org.verification = "unverified" /\ org.proof = Nobody
    BY DEF Init
  <1>5. Locking /\ Witnessed /\ AnswersStand
    BY <1>2 DEF Locking, Witnessed, AnswersStand
  <1>6. TrailAccounts /\ ProofAccounted
    BY <1>3, <1>4 DEF TrailAccounts, ProofAccounted, LastProof
  <1> QED  BY <1>1, <1>5, <1>6 DEF IInv

THEOREM StepInvariant == IInv /\ [Next]_vars => IInv'
  <1> SUFFICES ASSUME IInv, [Next]_vars PROVE IInv'
    OBVIOUS
  <1>1. TypeOK'
    BY StepTyped DEF IInv
  <1>2. CASE Next
    <2>1. Locking'
      <3>1. ASSUME ReadOnly PROVE Locking'
        BY <3>1 DEF ReadOnly, IInv, Locking, tables, locks, session
      <3> QED  BY <1>2, <3>1, SessionsLocking, ChangesLocking DEF Next, IInv
    <2> QED
      BY <1>1, <1>2, <2>1, WitnessedKept, TrailKept, AnswersKept, ProofKept DEF IInv
  <1>3. CASE UNCHANGED vars
    BY <1>1, <1>3
    DEF vars, IInv, Locking, Witnessed, First, Needed, TrailAccounts, AnswersStand,
        ProofAccounted, LastProof
  <1> QED  BY <1>2, <1>3

LEMMA AlwaysInvariant == Spec => []IInv
  BY InitInvariant, StepInvariant, PTL DEF Spec

(* The audit trail of requests and decisions accounts for the status that  *)
(* UpdateVerificationStatus left, however many sessions interleave.        *)
THEOREM TrailAlwaysAccounts == Spec => []TrailAccounts
  <1>1. IInv => TrailAccounts
    BY DEF IInv
  <1> QED  BY <1>1, AlwaysInvariant, PTL

(* A reviewer whom Decide answered with success finds that decision in the *)
(* trail, and a verified organization is verified for ever.                *)
THEOREM AnswersAlwaysStand == Spec => []AnswersStand
  <1>1. IInv => AnswersStand
    BY DEF IInv
  <1> QED  BY <1>1, AlwaysInvariant, PTL

(* The business e-mail proof of an organization that is not deleted is the *)
(* last one of the audit trail: UpdateBusinessEmailVerification matches    *)
(* the row, because an organization once found active never waits for its  *)
(* activation again.                                                       *)
THEOREM ProofAlwaysAccounted == Spec => []ProofAccounted
  <1>1. IInv => ProofAccounted
    BY DEF IInv
  <1> QED  BY <1>1, AlwaysInvariant, PTL

(* A request comes to its transaction only with facts (an active account   *)
(* and role, or an active organization and the standing) that each held at *)
(* some moment since it began.                                             *)
THEOREM AlwaysAuthorized == Spec => []AuthorizedDuringRequest
  <1>1. IInv => AuthorizedDuringRequest
    BY DEF IInv, Witnessed, AuthorizedDuringRequest
  <1> QED  BY <1>1, AlwaysInvariant, PTL

(* Verify writes its audit event only for a member who is an administrator *)
(* when it commits: the advisory lock keeps the standing that              *)
(* LockMembership looked at.                                               *)
THEOREM ProofsByAdministrators == Spec => ProofByAdministrator
  <1> DEFINE A == \A m \in Members : proofs' = Append(proofs, m) => m \in administrators
  <1>1. IInv /\ [Next]_vars => [A]_vars
    <2> SUFFICES ASSUME IInv, Next, NEW m \in Members, proofs' = Append(proofs, m)
                 PROVE  m \in administrators
      BY DEF vars
    <2>1. proofs \in Seq(Members) /\ proofs' # proofs
      <3>1. proofs \in Seq(Members)
        BY DEF IInv, TypeOK
      <3> QED  BY <3>1, Appended, LenProperties
    <2>2. PICK s \in Sessions : CommitProof(s)
      BY <2>1, ProofWritten DEF IInv
    <2>3. request[s].by \in Members /\ request[s].by \in administrators
      BY <2>2, InTransaction, RequestShape DEF IInv, CommitProof, InProgress, Locking
    <2>4. m = request[s].by
      <3> DEFINE n == request[s].by
      <3>1. Append(proofs, m) = Append(proofs, n)
        BY <2>2 DEF CommitProof
      <3>2. n \in Members
        BY <2>3
      <3> HIDE DEF n
      <3>3. m = n
        BY <2>1, <3>1, <3>2, Appended
      <3> QED  BY <3>3 DEF n
    <2> QED  BY <2>3, <2>4
  <1> QED  BY <1>1, AlwaysInvariant, PTL DEF Spec, ProofByAdministrator

-----------------------------------------------------------------------------
(* The refinement: what a transaction computes from the row it read is     *)
(* computed from the committed row, by Locking.                            *)
LEMMA StatusMoves ==
    ASSUME TypeOK, Locking, NEW s \in Sessions, CommitStatus(s)
    PROVE  [L!Next]_(L!vars)
  <1> DEFINE to == Target(request[s])
  <1>0. edits' = edits
    BY DEF CommitStatus
  <1>1. CASE UNCHANGED <<org, trail>>
    BY <1>0, <1>1 DEF L!vars
  <1>2. CASE /\ org.lifecycle = "active"
             /\ <<org.verification, to>> \in L!Transitions
             /\ org' = [org EXCEPT !.verification = to]
             /\ trail' = Append(trail, [from |-> org.verification, to |-> to])
    <2>1. to \in L!Statuses
      BY InTransaction, TargetIsStatus DEF CommitStatus, InProgress
    <2>2. /\ org'.verification = to /\ org'.lifecycle = org.lifecycle
          /\ org'.profile = org.profile
      BY <1>2 DEF TypeOK, Rows
    <2>3. L!Move(to)
      BY <1>0, <1>2, <2>2 DEF L!Move
    <2> QED  BY <2>1, <2>3 DEF L!Next
  <1> QED  BY <1>1, <1>2, StatusWritten

LEMMA EditMerges ==
    ASSUME TypeOK, Locking, NEW s \in Sessions, CommitEdit(s)
    PROVE  L!Next
  <1> DEFINE p == request[s].patch
  <1>1. p \in Patches
    BY InTransaction, RequestShape DEF CommitEdit, InProgress
  <1>2. seen[s] = org /\ org.lifecycle = "active"
    BY DEF CommitEdit, Locking, Allowed
  <1>3. /\ org'.profile = L!Merged(org.profile, p)
        /\ org'.lifecycle = org.lifecycle /\ org'.verification = org.verification
    BY <1>2 DEF CommitEdit, TypeOK, Rows
  <1>4. edits' = IF org'.profile = org.profile THEN edits ELSE edits + 1
    BY <1>2, <1>3 DEF CommitEdit
  <1>5. L!Edit(p)
    BY <1>2, <1>3, <1>4 DEF CommitEdit, L!Edit
  <1> QED  BY <1>1, <1>5 DEF L!Next

LEMMA StepRefines ==
    ASSUME TypeOK, Locking, Next
    PROVE  [L!Next]_(L!vars)
  <1>1. ASSUME NEW s \in Sessions, CommitProof(s) PROVE UNCHANGED L!vars
    BY <1>1 DEF CommitProof, TypeOK, Rows, L!vars
  <1>2. ASSUME NEW s \in Sessions, SessionStep(s) PROVE [L!Next]_(L!vars)
    <2>1. \/ CommitStatus(s) \/ CommitEdit(s) \/ CommitProof(s) \/ UNCHANGED tables
      BY <1>2 DEF SessionStep, Proceed, Refuse, Abort
    <2>2. CASE UNCHANGED tables
      BY <2>2 DEF tables, L!vars
    <2> QED  BY <1>1, <2>1, <2>2, StatusMoves, EditMerges
  <1>3. ASSUME NEW to \in {"active", "deleted"}, Synchronize(to) PROVE L!Next
    <2>1. /\ org'.lifecycle = to /\ org'.verification = org.verification
          /\ org'.profile = org.profile
      BY <1>3 DEF Synchronize, TypeOK, Rows
    <2>2. L!Synchronize(to) /\ to \in L!Lifecycles
      BY <1>3, <2>1 DEF Synchronize, L!Synchronize, L!Lifecycles
    <2> QED  BY <2>2 DEF L!Next
  <1>4. CASE Change
    <2>1. CASE UNCHANGED tables
      BY <2>1 DEF tables, L!vars
    <2> QED  BY <1>3, <1>4, <2>1 DEF Change, ChangeStanding
  <1>5. CASE ReadOnly
    BY <1>5 DEF ReadOnly, tables, L!vars
  <1> QED  BY <1>2, <1>4, <1>5 DEF Next

(* Requests, edits, proofs and decisions of concurrent sessions change the *)
(* organization as VerificationLifecycle says: every commit is one of its  *)
(* steps on the committed row, or changes nothing it knows of.             *)
THEOREM RefinesLifecycle == Spec => ImplementsLifecycle
  <1>1. Init => L!Init
    BY DEF Init, L!Init
  <1>2. IInv /\ [Next]_vars => [L!Next]_(L!vars)
    <2> SUFFICES ASSUME IInv, [Next]_vars PROVE [L!Next]_(L!vars)
      OBVIOUS
    <2>1. CASE UNCHANGED vars
      BY <2>1 DEF vars, L!vars
    <2> QED  BY <2>1, StepRefines DEF IInv
  <1> QED
    BY <1>1, <1>2, AlwaysInvariant, PTL DEF Spec, ImplementsLifecycle, L!Spec

-----------------------------------------------------------------------------
(* What the documents say of every proof holds of those that are committed *)
(* before the organization is deleted.                                     *)
ProvesBeforeDeletion ==
    [][\A s \in Sessions : CommitProof(s) => org.lifecycle # "deleted"]_vars

(* Every business_email.verified event of the audit trail has its column,  *)
(* also after the organization's deletion, unless Verify commits after it: *)
(* the transaction that does not look at the organization again is the     *)
(* only way to an audit event without its mutation.                        *)
THEOREM ProofsStoredUnlessDeletedFirst ==
    Spec /\ ProvesBeforeDeletion => []EveryProofStored
  <1> DEFINE B == \A s \in Sessions : CommitProof(s) => org.lifecycle # "deleted"
  <1>1. Init => EveryProofStored
    BY DEF Init, EveryProofStored, LastProof
  <1>2. IInv /\ IInv' /\ EveryProofStored /\ [Next]_vars /\ [B]_vars => EveryProofStored'
    <2> SUFFICES ASSUME IInv, IInv', EveryProofStored, [Next]_vars, [B]_vars
                 PROVE  EveryProofStored'
      OBVIOUS
    <2>1. CASE UNCHANGED vars
      BY <2>1 DEF vars, EveryProofStored, LastProof
    <2>2. CASE Next /\ B
      <3>1. CASE proofs' = proofs /\ org'.proof = org.proof
        BY <3>1 DEF EveryProofStored, LastProof
      <3>2. ASSUME NEW s \in Sessions, CommitProof(s) PROVE EveryProofStored'
        <4>1. org'.lifecycle = org.lifecycle /\ org.lifecycle # "deleted"
          BY <2>2, <3>2 DEF CommitProof, IInv, TypeOK, Rows
        <4> QED  BY <4>1 DEF IInv, ProofAccounted, EveryProofStored
      <3> QED  BY <2>2, <3>1, <3>2, ProofWritten DEF IInv
    <2> QED  BY <2>1, <2>2
  <1> QED
    BY <1>1, <1>2, AlwaysInvariant, PTL DEF Spec, ProvesBeforeDeletion

-----------------------------------------------------------------------------
(* Waiting for locks *)

(* Proofs take the advisory lock and wait for the row; the others take the *)
(* row and wait for nothing.                                               *)
Waits(s) ==
    \/ pc[s] = "authorized" /\ request[s].op # "prove" /\ rowLock # Nobody
    \/ pc[s] = "authorized" /\ request[s].op = "prove" /\ advisory # Nobody
    \/ pc[s] = "locked" /\ request[s].op = "prove" /\ rowLock # Nobody

(* A lock is held by a session in its transaction, and by no other. *)
LocksOwned ==
    /\ rowLock # Nobody => pc[rowLock] = "locked" /\ request[rowLock].op # "prove"
    /\ advisory # Nobody => pc[advisory] = "locked" /\ request[advisory].op = "prove"

(* While a request is in progress, some request waits for nobody. *)
SomeoneRuns ==
    \A s \in Sessions : pc[s] \in InProgress =>
        \E t \in Sessions : pc[t] \in InProgress /\ ~Waits(t)

(* A session that ends gives its locks up, and no other's. *)
LEMMA EndingOwned ==
    ASSUME TypeOK, LocksOwned, NEW s \in Sessions, pc[s] \in InProgress,
           Answered(s) \/ End(s, "idle")
    PROVE  LocksOwned'
  <1>1. PICK how \in Ended : End(s, how)
    BY DEF Answered, Ended
  <1> QED  BY <1>1, ReviewAssumption DEF End, TypeOK, LocksOwned

(* Every step leaves each lock with a session in its transaction. *)
LEMMA OwnedKept ==
    ASSUME TypeOK, LocksOwned, Next
    PROVE  LocksOwned'
  <1>1. ASSUME NEW s \in Sessions, SessionStep(s) PROVE LocksOwned'
    <2>1. ASSUME NEW r \in Requests, Begin(s, r) PROVE LocksOwned'
      BY <2>1 DEF Begin, LocksOwned, TypeOK, locks, Ended
    <2>2. CASE Read(s)
      BY <2>2 DEF Read, LocksOwned, TypeOK, locks
    <2>3. CASE LockRow(s)
      BY <2>3, ReviewAssumption DEF LockRow, LocksOwned, TypeOK
    <2>4. CASE LockAdvisory(s)
      BY <2>4, ReviewAssumption DEF LockAdvisory, LocksOwned, TypeOK
    <2>5. CASE CommitStatus(s) \/ CommitEdit(s) \/ CommitProof(s) \/ Refuse(s) \/ Abort(s)
      BY <2>5, EndingOwned
      DEF CommitStatus, CommitEdit, CommitProof, Refuse, Refused, Abort, InProgress
    <2> QED  BY <1>1, <2>1, <2>2, <2>3, <2>4, <2>5 DEF SessionStep, Proceed
  <1>2. ASSUME Change \/ ReadOnly PROVE LocksOwned'
    BY <1>2 DEF Change, ReadOnly, locks, session, LocksOwned
  <1> QED  BY <1>1, <1>2 DEF Next

(* No circle of sessions that wait for each other's locks: while a request *)
(* is in progress, some request is that waits for nobody.  It is why every *)
(* request ends once the sessions are scheduled fairly.                    *)
THEOREM LocksNeverCircular == Spec => []SomeoneRuns
  <1>1. Init => LocksOwned
    BY DEF Init, LocksOwned
  <1>2. IInv /\ LocksOwned /\ [Next]_vars => LocksOwned'
    <2>1. CASE UNCHANGED vars
      BY <2>1 DEF vars, LocksOwned
    <2> QED  BY <2>1, OwnedKept DEF IInv
  <1>3. IInv /\ LocksOwned => SomeoneRuns
    <2> SUFFICES ASSUME IInv, LocksOwned, NEW s \in Sessions, pc[s] \in InProgress
                 PROVE  \E t \in Sessions : pc[t] \in InProgress /\ ~Waits(t)
      BY DEF SomeoneRuns
    <2>1. rowLock \in Sessions \union {Nobody} /\ advisory \in Sessions \union {Nobody}
      BY DEF IInv, TypeOK
    <2>2. CASE rowLock # Nobody
      BY <2>1, <2>2 DEF LocksOwned, Waits, InProgress
    <2>3. CASE rowLock = Nobody /\ advisory # Nobody
      BY <2>1, <2>3 DEF LocksOwned, Waits, InProgress
    <2>4. CASE rowLock = Nobody /\ advisory = Nobody
      BY <2>4 DEF Waits
    <2> QED  BY <2>2, <2>3, <2>4
  <1> QED  BY <1>1, <1>2, <1>3, AlwaysInvariant, PTL DEF Spec
=============================================================================
