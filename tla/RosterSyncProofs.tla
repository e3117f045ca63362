-------------------------- MODULE RosterSyncProofs --------------------------
(* Proofs about RosterSync, for any deployments, events and page size.     *)
EXTENDS RosterSync, FiniteSetTheorems, WellFoundedInduction, TLAPS

(* The rows of the loaded exam, its receipts and its participants.  Every  *)
(* revision up to the exam's has a receipt, and who is in the roster is    *)
(* listed by the bundle or was added by an event of this deployment.       *)
RowsOK ==
  LET d == exam.deployment IN
  /\ HashAgrees
  /\ d = None => DOMAIN roster = {}
  /\ d # None => /\ exam.revision <= Last[d]
                 /\ \A k \in 1..exam.revision : receipts[<<d, k>>] # "none"
                 /\ Listed[d] \subseteq DOMAIN roster
                 /\ \A e \in DOMAIN roster \ Listed[d] : Dep(e) = d
  /\ \A e \in DOMAIN roster :
       /\ roster[e] # 0 => receipts[e] = "applied"
       /\ Dep(e) = d => receipts[e] = "applied" /\ roster[e] = Rev(e)

(* The batch the worker is working off.                                    *)
Batch == IF worker.pc = "page" THEN worker.page ELSE worker.pulled

(* An outcome to report is that of the receipt of the event at hand.       *)
AnswerOK ==
  worker.outcome # "none" =>
    /\ worker.pc \in {"group", "page"}
    /\ Todo(Batch) # {}
    /\ LET e == Least(Todo(Batch))[1] IN
         receipts[e] # "none" /\ worker.outcome = Outcome(receipts[e])

WorkerOK ==
  /\ worker.pc = "idle" => worker = Idle
  /\ worker.pc # "page" => worker.page = {}
  /\ worker.pc \in {"fetch", "page"} =>
       worker.deployment # None /\ exam.deployment # None
  /\ AnswerOK

(* What Central answered about an event without a receipt is what Central  *)
(* still holds, once it has been told an outcome.                          *)
AnswersOK ==
  /\ \A p \in worker.pulled : p[2] = "pending"
  /\ \A p \in worker.page :
       /\ Dep(p[1]) = worker.deployment
       /\ p[2] = "applied" => central[p[1]] = "applied"
  /\ \A p \in worker.pulled \cup worker.page :
       receipts[p[1]] = "none" /\ central[p[1]] \in {"applied", "rejected"} =>
         p[2] = central[p[1]]

CentralOK ==
  \A e \in Event :
    /\ receipts[e] = "applied" => e \notin Conflicting
    /\ central[e] = "applied" => e \notin Conflicting
    /\ central[e] = "rejected" => receipts[e] # "applied"

IInv == /\ TypeOK
        /\ RowsOK
        /\ WorkerOK
        /\ AnswersOK
        /\ CentralOK

(* A node whose operators load bundles of one deployment only, be it after *)
(* the one it holds at first.  A load of another bundle and then of the    *)
(* first again takes rows away and leaves their receipts.                  *)
OneIsPushed == \A d, e \in Pushed : d = e

(* The node has a receipt for everyone whom Central counts as applied.     *)
Kept == \A e \in Event : central[e] = "applied" => receipts[e] # "none"

OneInv ==
  /\ AppliedIsPresent
  /\ \A e \in Event : receipts[e] = "applied" =>
       /\ Undisturbed /\ Dep(e) = exam.deployment => Rev(e) <= exam.revision
       /\ Dep(e) \in Pushed => Dep(e) = exam.deployment
  /\ exam.deployment \notin Pushed \cup {None} => Kept
  /\ worker.pc \in {"fetch", "page"} /\ exam.deployment # worker.deployment => Kept
  /\ OutcomeAgrees

-----------------------------------------------------------------------------
(* Events, and the order in which a batch is worked off.                   *)
LEMMA EventFacts ==
  ASSUME NEW e \in Event
  PROVE  /\ Dep(e) \in Deployment
         /\ Rev(e) \in 1..Last[Dep(e)] /\ Rev(e) \in Nat /\ Rev(e) > 0
         /\ e = <<Dep(e), Rev(e)>>
<1>1. PICK d \in Deployment : e \in {d} \X (1..Last[d])
  BY DEF Event
<1>2. Last[d] \in Nat
  BY RosterAssumption
<1>. QED BY <1>1, <1>2 DEF Dep, Rev

LEMMA EventOf ==
  ASSUME NEW d \in Deployment, NEW k \in 1..Last[d]
  PROVE  <<d, k>> \in Event /\ Dep(<<d, k>>) = d /\ Rev(<<d, k>>) = k
BY DEF Event, Dep, Rev

LEMMA ListedFacts ==
  ASSUME NEW d \in Deployment
  PROVE  /\ Listed[d] \subseteq Event
         /\ \A e \in Listed[d] : Dep(e) # d
         /\ IsFiniteSet(Listed[d])
BY RosterAssumption

LEMMA SmallestOf ==
  ASSUME NEW T, T \subseteq Nat, T # {}
  PROVE  \E x \in T : \A y \in T : x <= y
<1>1. \E x \in T : \A y \in T : ~(<<y, x>> \in OpToRel(<, Nat))
  BY WFMin, NatLessThanWellFounded
<1>2. PICK x \in T : \A y \in T : ~(<<y, x>> \in OpToRel(<, Nat))
  BY <1>1
<1>3. \A y \in T : ~(y < x)
  BY <1>2 DEF OpToRel
<1>. QED BY <1>3

LEMMA LeastIn ==
  ASSUME NEW batch, batch \subseteq Snapshot, batch # {}
  PROVE  Least(batch) \in batch
<1>1. \A p \in batch : p[1] \in Event
  BY DEF Snapshot
<1>2. \A p \in batch : Dep(p[1]) \in Nat /\ Rev(p[1]) \in Nat
  BY <1>1, EventFacts, RosterAssumption
<1>. DEFINE deps == {Dep(p[1]) : p \in batch}
<1>3. PICK d \in deps : \A c \in deps : d <= c
  BY <1>2, SmallestOf
<1>. DEFINE revs == {Rev(p[1]) : p \in {q \in batch : Dep(q[1]) = d}}
<1>4. PICK r \in revs : \A c \in revs : r <= c
  BY <1>2, <1>3, SmallestOf
<1>5. PICK p \in batch : Dep(p[1]) = d /\ Rev(p[1]) = r
  BY <1>4
<1>6. ASSUME NEW q \in batch PROVE Before(p, q)
  <2>1. d <= Dep(q[1])
    BY <1>3
  <2>2. Dep(q[1]) = d => r <= Rev(q[1])
    BY <1>4
  <2>. QED BY <1>2, <1>5, <2>1, <2>2 DEF Before
<1>. QED BY <1>6 DEF Least

LEMMA SnapshotFacts ==
  ASSUME NEW p \in Snapshot
  PROVE  /\ p[1] \in Event
         /\ p[2] \in {"pending", "applied", "rejected", "cancelled", "expired"}
         /\ p = <<p[1], p[2]>>
BY DEF Snapshot, CentralStatus, Decided

(* The event at hand is one of the batch.                                  *)
LEMMA AtHand ==
  ASSUME NEW batch, batch \subseteq Snapshot, Todo(batch) # {}
  PROVE  /\ Least(Todo(batch)) \in batch
         /\ Least(Todo(batch)) \in Snapshot
         /\ Least(Todo(batch))[1] \in Event
<1>1. Todo(batch) \subseteq batch
  BY DEF Todo
<1>. QED BY <1>1, LeastIn, SnapshotFacts

WorkerType ==
  [pc : {"idle", "group", "fetch", "page"},
   pulled : SUBSET Snapshot, page : SUBSET Snapshot,
   more : BOOLEAN, deployment : Deployment \cup {None},
   after : Nat, gap : SUBSET Event, done : SUBSET Event,
   outcome : {"none", "applied", "rejected"}]

LEMMA IdleType == Idle \in WorkerType
BY DEF Idle, WorkerType

LEMMA DeploymentType ==
  ASSUME TypeOK, exam.deployment # None
  PROVE  exam.deployment \in Deployment
BY RosterAssumption DEF TypeOK

LEMMA Initial == Init => IInv
<1>. SUFFICES ASSUME Init PROVE IInv
  OBVIOUS
<1>. USE RosterAssumption
<1>1. /\ ListedFirst \subseteq Event /\ (First = None => ListedFirst = {})
      /\ First # None => ListedFirst = Listed[First]
      /\ \A e \in ListedFirst : Dep(e) # First
  BY DEF ListedFirst
<1>2. /\ exam = [deployment |-> First, revision |-> 0, fenced |-> FALSE,
                 hash |-> ListedFirst]
      /\ roster = [e \in ListedFirst |-> 0] /\ receipts = [e \in Event |-> "none"]
      /\ central = [e \in Event |-> "none"]
      /\ over = FALSE /\ worker = Idle /\ faults = 0
      /\ loading = {} /\ overrun = FALSE
  BY DEF Init, NoExam, NoReceipts
<1>3. TypeOK
  <2>1. exam \in [deployment : Pushed \cup {First, None}, revision : Nat,
                  fenced : BOOLEAN, hash : SUBSET Event]
    BY <1>1, <1>2
  <2>2. receipts \in [Event -> Decided \cup {"none"}] /\ central \in [Event -> CentralStatus]
    BY <1>2 DEF CentralStatus
  <2>3. DOMAIN roster \subseteq Event /\ \A e \in DOMAIN roster : roster[e] \in {0, Rev(e)}
    BY <1>1, <1>2
  <2>4. faults \in 0..MaxFaults
    BY <1>2
  <2>. QED BY <1>2, <2>1, <2>2, <2>3, <2>4, IdleType DEF TypeOK, WorkerType
<1>4. RowsOK
  BY <1>1, <1>2 DEF RowsOK, HashAgrees
<1>5. WorkerOK /\ AnswersOK /\ CentralOK
  BY <1>2 DEF WorkerOK, AnswerOK, AnswersOK, CentralOK, Idle
<1>. QED BY <1>3, <1>4, <1>5 DEF IInv

-----------------------------------------------------------------------------
(* RosterService.Apply.                                                    *)
LEMMA ApplyFacts ==
  ASSUME IInv, NEW p \in Snapshot, Apply(p[1], p[2])
  PROVE  /\ exam' \in [deployment : Pushed \cup {First, None}, revision : Nat,
                       fenced : BOOLEAN, hash : SUBSET Event]
         /\ DOMAIN roster' \subseteq Event
         /\ \A f \in DOMAIN roster' : roster'[f] \in {0, Rev(f)}
         /\ receipts' \in [Event -> Decided \cup {"none"}]
         /\ exam.deployment # None
         /\ exam'.deployment = exam.deployment /\ exam'.fenced = exam.fenced
         /\ exam.revision <= exam'.revision
         /\ DOMAIN roster \subseteq DOMAIN roster'
         /\ \A f \in DOMAIN roster' \ DOMAIN roster :
              f = p[1] /\ receipts[f] = "none" /\ receipts'[f] = "applied"
         /\ receipts'[p[1]] # "none"
         /\ \A f \in Event : receipts[f] # "none" \/ f # p[1] =>
                               receipts'[f] = receipts[f]
         /\ receipts[p[1]] = "none" /\ receipts'[p[1]] = "applied" =>
              /\ p[1] \notin Conflicting /\ Dep(p[1]) = exam.deployment
              /\ p[2] \in {"pending", "applied"}
              /\ p[2] = "pending" => ~exam.fenced
              /\ p[1] \in DOMAIN roster' /\ exam'.revision = Rev(p[1])
         /\ receipts[p[1]] = "none" /\ Dep(p[1]) = exam.deployment
              /\ p[2] = "applied" /\ p[1] \notin Conflicting =>
              receipts'[p[1]] = "applied"
         /\ RowsOK'
<1>. USE RosterAssumption
<1>. DEFINE e == p[1]
            s == p[2]
            d == exam.deployment
<1>1. /\ e \in Event /\ Dep(e) \in Deployment /\ e = <<Dep(e), Rev(e)>>
      /\ Rev(e) \in 1..Last[Dep(e)] /\ Rev(e) \in Nat /\ Rev(e) > 0
      /\ s \in {"pending", "applied", "rejected", "cancelled", "expired"}
  BY SnapshotFacts, EventFacts
<1>2. /\ exam \in [deployment : Pushed \cup {First, None}, revision : Nat,
                   fenced : BOOLEAN, hash : SUBSET Event]
      /\ DOMAIN roster \subseteq Event
      /\ \A f \in DOMAIN roster : roster[f] \in {0, Rev(f)}
      /\ receipts \in [Event -> Decided \cup {"none"}]
      /\ RowsOK
  BY DEF IInv, TypeOK
<1>3. d # None /\ d \in Deployment /\ Last[d] \in Nat
  BY DeploymentType DEF Apply, Fails, NotLoaded, IInv
<1>4. RefusalReceipt(s) \in Decided /\ RefusalReceipt(s) \notin {"none", "applied"}
  BY DEF RefusalReceipt, Decided
<1>. HIDE DEF e, s
<1>5. CASE Known(e)
  <2>1. UNCHANGED database
    BY <1>5 DEF Apply, e
  <2>2. UNCHANGED <<exam, roster, receipts>>
    BY <2>1 DEF database
  <2>3. RowsOK'
    BY <1>2, <2>2 DEF RowsOK, HashAgrees
  <2>. QED BY <1>2, <1>3, <1>5, <2>2, <2>3 DEF Known, e
<1>6. CASE ~Known(e) /\ Foreign(e)
  <2>1. /\ receipts' = [receipts EXCEPT ![e] = RefusalReceipt(s)]
        /\ exam' = exam /\ roster' = roster
    BY <1>6 DEF Apply, e, s
  <2>2. receipts' \in [Event -> Decided \cup {"none"}]
    BY <1>1, <1>2, <1>4, <2>1
  <2>3. /\ receipts'[e] \notin {"none", "applied"} /\ receipts[e] = "none"
        /\ \A f \in Event \ {e} : receipts'[f] = receipts[f]
    BY <1>1, <1>2, <1>4, <1>6, <2>1 DEF Known
  <2>4. Dep(e) # d
    BY <1>6 DEF Foreign
  <2>5. RowsOK'
    <3>1. \A k \in 1..exam.revision : receipts'[<<d, k>>] # "none"
      <4>1. \A k \in 1..exam.revision : <<d, k>> \in Event
        <5>1. 1..exam.revision \subseteq 1..Last[d]
          BY <1>2, <1>3 DEF RowsOK
        <5>. QED BY <1>3, <5>1, EventOf
      <4>. QED BY <1>2, <1>3, <2>3, <4>1 DEF RowsOK
    <3>2. \A f \in DOMAIN roster : /\ roster[f] # 0 => receipts'[f] = "applied"
                                   /\ Dep(f) = d => receipts'[f] = "applied"
      BY <1>2, <2>3 DEF RowsOK
    <3>. QED BY <1>2, <2>1, <3>1, <3>2 DEF RowsOK, HashAgrees
  <2>. QED BY <1>2, <1>3, <2>1, <2>2, <2>3, <2>4, <2>5 DEF e
<1>7. CASE ~Known(e) /\ ~Foreign(e) /\ Refused(e, s)
  <2>1. /\ receipts' = [receipts EXCEPT ![e] = RefusalReceipt(s)]
        /\ exam' = [exam EXCEPT !.revision = Rev(e)] /\ roster' = roster
        /\ Rev(e) = exam.revision + 1
    BY <1>7 DEF Apply, RefusedRevision, Gap, e, s
  <2>2. receipts' \in [Event -> Decided \cup {"none"}]
    BY <1>1, <1>2, <1>4, <2>1
  <2>3. /\ receipts'[e] \notin {"none", "applied"} /\ receipts[e] = "none"
        /\ \A f \in Event \ {e} : receipts'[f] = receipts[f]
    BY <1>1, <1>2, <1>4, <1>7, <2>1 DEF Known
  <2>4. /\ exam' \in [deployment : Pushed \cup {First, None}, revision : Nat,
                      fenced : BOOLEAN, hash : SUBSET Event]
        /\ exam'.deployment = d /\ exam'.fenced = exam.fenced /\ exam'.revision = Rev(e)
        /\ exam'.hash = exam.hash /\ exam.revision <= exam'.revision
    BY <1>1, <1>2, <2>1
  <2>5. Dep(e) = d
    BY <1>7 DEF Foreign
  <2>6. RowsOK'
    <3>1. Rev(e) <= Last[d]
      BY <1>1, <1>3, <2>5
    <3>2. \A k \in 1..Rev(e) : receipts'[<<d, k>>] # "none"
      <4>. SUFFICES ASSUME NEW k \in 1..Rev(e) PROVE receipts'[<<d, k>>] # "none"
        OBVIOUS
      <4>1. CASE k = Rev(e)
        BY <1>1, <2>3, <2>5, <4>1
      <4>2. CASE k # Rev(e)
        <5>1. k \in 1..exam.revision
          BY <1>1, <1>2, <2>1, <4>2
        <5>2. <<d, k>> \in Event /\ Rev(<<d, k>>) = k
          BY <1>1, <1>3, <2>5, EventOf
        <5>3. <<d, k>> # e
          BY <4>2, <5>2
        <5>. QED BY <1>2, <1>3, <2>3, <5>1, <5>2, <5>3 DEF RowsOK
      <4>. QED BY <4>1, <4>2
    <3>3. \A f \in DOMAIN roster : /\ roster[f] # 0 => receipts'[f] = "applied"
                                   /\ Dep(f) = d => receipts'[f] = "applied"
      BY <1>2, <2>3 DEF RowsOK
    <3>. QED BY <1>2, <1>3, <2>1, <2>4, <3>1, <3>2, <3>3 DEF RowsOK, HashAgrees
  <2>7. ~(s = "applied" /\ e \notin Conflicting)
    BY <1>7 DEF Refused, TooLate
  <2>. QED BY <1>2, <1>3, <2>1, <2>2, <2>3, <2>4, <2>6, <2>7 DEF e, s
<1>8. CASE ~Known(e) /\ ~Foreign(e) /\ ~Refused(e, s)
  <2>1. /\ receipts' = [receipts EXCEPT ![e] = "applied"]
        /\ roster' = Inserted(e) /\ exam' = Rehashed(e)
        /\ Rev(e) = exam.revision + 1
    BY <1>8 DEF Apply, Gap, e, s
  <2>2. receipts' \in [Event -> Decided \cup {"none"}]
    BY <1>1, <1>2, <2>1 DEF Decided
  <2>3. /\ receipts'[e] = "applied" /\ receipts[e] = "none"
        /\ \A f \in Event \ {e} : receipts'[f] = receipts[f]
    BY <1>1, <1>2, <1>8, <2>1 DEF Known
  <2>4. Dep(e) = d
    BY <1>8 DEF Foreign
  <2>5. e \notin DOMAIN roster
    BY <1>2, <2>3, <2>4 DEF RowsOK
  <2>6. /\ DOMAIN roster' = DOMAIN roster \cup {e} /\ roster'[e] = Rev(e)
        /\ \A f \in DOMAIN roster : roster'[f] = roster[f]
    BY <2>1, <2>5 DEF Inserted
  <2>7. /\ exam' \in [deployment : Pushed \cup {First, None}, revision : Nat,
                      fenced : BOOLEAN, hash : SUBSET Event]
        /\ exam'.deployment = d /\ exam'.fenced = exam.fenced /\ exam'.revision = Rev(e)
        /\ exam'.hash = DOMAIN roster' /\ exam.revision <= exam'.revision
    <3>1. exam' = [exam EXCEPT !.revision = Rev(e), !.hash = DOMAIN roster']
      BY <2>1 DEF Rehashed
    <3>2. DOMAIN roster' \subseteq Event
      BY <1>1, <1>2, <2>6
    <3>. DEFINE hash == DOMAIN roster'
    <3>3. \A h \in SUBSET Event :
            [exam EXCEPT !.revision = Rev(e), !.hash = h]
              \in [deployment : Pushed \cup {First, None}, revision : Nat,
                   fenced : BOOLEAN, hash : SUBSET Event]
      BY <1>1, <1>2
    <3>4. exam' = [exam EXCEPT !.revision = Rev(e), !.hash = hash] /\ hash \in SUBSET Event
      BY <3>1, <3>2
    <3>. HIDE DEF hash
    <3>5. /\ exam'.deployment = d /\ exam'.fenced = exam.fenced
          /\ exam'.revision = Rev(e) /\ exam'.hash = hash
      BY <1>2, <3>4
    <3>6. exam' \in [deployment : Pushed \cup {First, None}, revision : Nat,
                     fenced : BOOLEAN, hash : SUBSET Event]
      BY <3>3, <3>4
    <3>7. exam.revision <= exam'.revision
      BY <1>2, <2>1, <3>5
    <3>. QED BY <3>5, <3>6, <3>7 DEF hash
  <2>8. \A f \in DOMAIN roster' : roster'[f] \in {0, Rev(f)}
    BY <1>2, <2>6
  <2>9. RowsOK'
    <3>1. Rev(e) <= Last[d]
      BY <1>1, <1>3, <2>4
    <3>2. \A k \in 1..Rev(e) : receipts'[<<d, k>>] # "none"
      <4>. SUFFICES ASSUME NEW k \in 1..Rev(e) PROVE receipts'[<<d, k>>] # "none"
        OBVIOUS
      <4>1. CASE k = Rev(e)
        BY <1>1, <2>3, <2>4, <4>1
      <4>2. CASE k # Rev(e)
        <5>1. k \in 1..exam.revision
          BY <1>1, <1>2, <2>1, <4>2
        <5>2. <<d, k>> \in Event /\ Rev(<<d, k>>) = k
          BY <1>1, <1>3, <2>4, EventOf
        <5>3. <<d, k>> # e
          BY <4>2, <5>2
        <5>. QED BY <1>2, <1>3, <2>3, <5>1, <5>2, <5>3 DEF RowsOK
      <4>. QED BY <4>1, <4>2
    <3>3. \A f \in DOMAIN roster' :
            /\ roster'[f] # 0 => receipts'[f] = "applied"
            /\ Dep(f) = d => receipts'[f] = "applied" /\ roster'[f] = Rev(f)
      BY <1>2, <2>3, <2>6 DEF RowsOK
    <3>4. /\ Listed[d] \subseteq DOMAIN roster'
          /\ \A f \in DOMAIN roster' \ Listed[d] : Dep(f) = d
      BY <1>2, <1>3, <2>4, <2>6 DEF RowsOK
    <3>. QED BY <1>3, <2>7, <3>1, <3>2, <3>3, <3>4 DEF RowsOK, HashAgrees
  <2>10. /\ e \notin Conflicting /\ s \in {"pending", "applied"}
         /\ s = "pending" => ~exam.fenced
    BY <1>1, <1>8 DEF Refused, TooLate
  <2>. QED BY <1>2, <1>3, <2>2, <2>3, <2>4, <2>5, <2>6, <2>7, <2>8, <2>9, <2>10
         DEF e, s
<1>. QED BY <1>5, <1>6, <1>7, <1>8

-----------------------------------------------------------------------------
(* RosterWorker.PollOnce.                                                  *)
LEMMA WorkerFields ==
  ASSUME TypeOK
  PROVE  /\ worker \in WorkerType
         /\ worker.pulled \subseteq Snapshot /\ worker.page \subseteq Snapshot
         /\ worker.deployment \in Deployment \cup {None}
         /\ worker.after \in Nat /\ worker.more \in BOOLEAN
         /\ worker.gap \subseteq Event /\ worker.done \subseteq Event
         /\ worker.pc \in {"idle", "group", "fetch", "page"}
         /\ worker.outcome \in {"none", "applied", "rejected"}
<1>1. worker \in WorkerType
  BY DEF TypeOK, WorkerType
<1>. QED BY <1>1 DEF WorkerType

LEMMA BatchType == TypeOK => Batch \subseteq Snapshot
BY WorkerFields DEF Batch

(* A step that leaves the rows alone.                                      *)
LEMMA SameRows ==
  ASSUME IInv, UNCHANGED database
  PROVE  /\ RowsOK'
         /\ exam' = exam /\ roster' = roster /\ receipts' = receipts
         /\ exam' \in [deployment : Pushed \cup {First, None}, revision : Nat,
                       fenced : BOOLEAN, hash : SUBSET Event]
         /\ DOMAIN roster' \subseteq Event
         /\ \A e \in DOMAIN roster' : roster'[e] \in {0, Rev(e)}
         /\ receipts' \in [Event -> Decided \cup {"none"}]
<1>1. exam' = exam /\ roster' = roster /\ receipts' = receipts
  BY DEF database
<1>2. RowsOK'
  BY <1>1 DEF IInv, RowsOK, HashAgrees
<1>. QED BY <1>1, <1>2 DEF IInv, TypeOK

(* A step of the worker that leaves both the rows and Central alone.       *)
LEMMA LocalStep ==
  ASSUME IInv, UNCHANGED <<database, central, over, tool>>, faults' \in 0..MaxFaults,
         worker' \in WorkerType, WorkerOK',
         worker'.pulled \subseteq worker.pulled, worker'.page \subseteq worker.page,
         worker'.page = {} \/ worker'.deployment = worker.deployment
  PROVE  IInv'
<1>1. UNCHANGED database /\ central' = central /\ over' = over /\ UNCHANGED tool
  OBVIOUS
<1>2. TypeOK'
  BY <1>1, SameRows DEF IInv, TypeOK, WorkerType, tool
<1>3. receipts' = receipts
  BY <1>1, SameRows
<1>4. AnswersOK'
  BY <1>1, <1>3 DEF IInv, AnswersOK
<1>5. CentralOK'
  BY <1>1, <1>3 DEF IInv, CentralOK
<1>. QED BY <1>1, <1>2, <1>4, <1>5, SameRows DEF IInv

LEMMA FaultType ==
  ASSUME TypeOK, Fault \/ UNCHANGED faults
  PROVE  faults' \in 0..MaxFaults
BY RosterAssumption DEF TypeOK, Fault

LEMMA OutcomeType == \A r : Outcome(r) \in {"applied", "rejected"}
BY DEF Outcome

LEMMA AnsweredFacts ==
  ASSUME IInv, NEW e \in Event, NEW s, worker' = Answered(e, s)
  PROVE  /\ worker' \in WorkerType
         /\ worker'.pc = worker.pc /\ worker'.deployment = worker.deployment
         /\ worker'.pulled = worker.pulled /\ worker'.page = worker.page
         /\ Acknowledged(s) => /\ worker'.outcome = Outcome(receipts'[e])
                               /\ worker'.done = worker.done
         /\ ~Acknowledged(s) => worker'.outcome = worker.outcome
<1>1. worker \in WorkerType /\ worker.done \subseteq Event
  BY WorkerFields DEF IInv
<1>. DEFINE o == Outcome(receipts'[e])
            all == worker.done \cup {e}
<1>2. o \in {"applied", "rejected"} /\ all \subseteq Event
  BY <1>1, OutcomeType
<1>3. CASE Acknowledged(s)
  <2>1. worker' = [worker EXCEPT !.outcome = o]
    BY <1>3 DEF Answered
  <2>. HIDE DEF o
  <2>2. /\ worker' \in WorkerType
        /\ worker'.pc = worker.pc /\ worker'.deployment = worker.deployment
        /\ worker'.pulled = worker.pulled /\ worker'.page = worker.page
        /\ worker'.outcome = o /\ worker'.done = worker.done
    BY <1>1, <1>2, <2>1 DEF WorkerType
  <2>. QED BY <1>3, <2>2 DEF o
<1>4. CASE ~Acknowledged(s)
  <2>1. worker' = [worker EXCEPT !.done = all]
    BY <1>4 DEF Answered
  <2>. HIDE DEF all
  <2>. QED BY <1>1, <1>2, <1>4, <2>1 DEF WorkerType
<1>. QED BY <1>3, <1>4

(* The event at hand is applied, be it of the pull or of a page.           *)
LEMMA ApplyStep ==
  ASSUME IInv, worker.pc \in {"group", "page"}, worker.outcome = "none",
         Todo(Batch) # {}, NEW p, p = Least(Todo(Batch)), Apply(p[1], p[2]),
         worker' = Answered(p[1], p[2]), UNCHANGED <<central, over, tool, faults>>
  PROVE  IInv'
<1>1. p \in Snapshot /\ p \in Batch /\ p[1] \in Event
  BY BatchType, AtHand DEF IInv
<1>2. p \in worker.pulled \cup worker.page
  BY <1>1 DEF Batch
<1>3. TypeOK' /\ RowsOK'
  BY <1>1, ApplyFacts, AnsweredFacts DEF IInv, TypeOK, WorkerType, tool
<1>4. /\ worker'.pc = worker.pc /\ worker'.deployment = worker.deployment
      /\ worker'.pulled = worker.pulled /\ worker'.page = worker.page
      /\ Acknowledged(p[2]) => /\ worker'.outcome = Outcome(receipts'[p[1]])
                               /\ worker'.done = worker.done
      /\ ~Acknowledged(p[2]) => worker'.outcome = "none"
  BY <1>1, AnsweredFacts
<1>5. /\ receipts'[p[1]] # "none" /\ exam'.deployment = exam.deployment
      /\ \A f \in Event : receipts[f] # "none" \/ f # p[1] => receipts'[f] = receipts[f]
      /\ receipts[p[1]] = "none" /\ receipts'[p[1]] = "applied" =>
           p[1] \notin Conflicting /\ p[2] \in {"pending", "applied"}
  BY <1>1, ApplyFacts
<1>6. WorkerOK'
  <2>1. AnswerOK'
    <3>. SUFFICES ASSUME worker'.outcome # "none" PROVE AnswerOK'
      BY DEF AnswerOK
    <3>1. worker'.done = worker.done /\ worker'.outcome = Outcome(receipts'[p[1]])
      BY <1>4
    <3>2. Todo(Batch)' = Todo(Batch)
      BY <1>4, <3>1 DEF Todo, Batch
    <3>3. Least(Todo(Batch))' = p
      BY <3>2 DEF Least
    <3>. QED BY <1>4, <1>5, <3>1, <3>2, <3>3 DEF AnswerOK
  <2>2. worker'.pc # "idle" /\ (worker'.pc # "page" => worker'.page = {})
    BY <1>4 DEF IInv, WorkerOK
  <2>3. worker'.pc \in {"fetch", "page"} =>
          worker'.deployment # None /\ exam'.deployment # None
    BY <1>4, <1>5 DEF IInv, WorkerOK
  <2>. QED BY <2>1, <2>2, <2>3 DEF WorkerOK
<1>7. AnswersOK'
  <2>1. \A q \in worker.pulled \cup worker.page :
          receipts'[q[1]] = "none" => receipts[q[1]] = "none"
    BY <1>5, SnapshotFacts, WorkerFields DEF IInv
  <2>. QED BY <1>4, <2>1 DEF IInv, AnswersOK
<1>8. CentralOK'
  <2>1. receipts[p[1]] = "none" /\ central[p[1]] \in {"applied", "rejected"} =>
          p[2] = central[p[1]]
    BY <1>2 DEF IInv, AnswersOK
  <2>2. ASSUME NEW e \in Event, receipts'[e] = "applied"
        PROVE  e \notin Conflicting /\ central[e] # "rejected"
    <3>1. CASE receipts[e] = "applied"
      BY <3>1 DEF IInv, CentralOK
    <3>2. CASE receipts[e] # "applied"
      <4>1. e = p[1] /\ receipts[e] = "none"
        BY <1>5, <2>2, <3>2
      <4>. QED BY <1>5, <2>1, <2>2, <4>1
    <3>. QED BY <3>1, <3>2
  <2>. QED BY <2>2 DEF IInv, CentralOK
<1>. QED BY <1>3, <1>6, <1>7, <1>8 DEF IInv

(* What a report to Central changes, whether or not it is heard of again.  *)
LEMMA AckFacts ==
  ASSUME IInv, worker.outcome # "none", NEW e, e = Least(Todo(Batch))[1],
         central' \in {central, Acked(e)}, UNCHANGED database
  PROVE  /\ central' \in [Event -> CentralStatus]
         /\ e \in Event /\ receipts[e] # "none"
         /\ \A f \in Event :
              \/ central'[f] = central[f]
              \/ /\ f = e /\ central[f] = "pending"
                 /\ central'[f] = Outcome(receipts[f])
         /\ CentralOK'
<1>1. Todo(Batch) # {} /\ receipts[e] # "none" /\ worker.outcome = Outcome(receipts[e])
  BY DEF IInv, WorkerOK, AnswerOK
<1>2. e \in Event
  BY <1>1, BatchType, AtHand DEF IInv
<1>3. central \in [Event -> CentralStatus] /\ receipts' = receipts
  BY DEF IInv, TypeOK, database
<1>4. \/ central' = central
      \/ /\ central' = [central EXCEPT ![e] = Outcome(receipts[e])]
         /\ central[e] = "pending"
  BY <1>1 DEF Acked
<1>5. central' \in [Event -> CentralStatus]
  BY <1>2, <1>3, <1>4, OutcomeType DEF CentralStatus, Decided
<1>6. \A f \in Event :
        \/ central'[f] = central[f]
        \/ /\ f = e /\ central[f] = "pending"
           /\ central'[f] = Outcome(receipts[f])
  BY <1>3, <1>4
<1>7. CentralOK'
  <2>1. \A f \in Event : /\ Outcome(receipts[f]) = "applied" => receipts[f] = "applied"
                         /\ Outcome(receipts[f]) = "rejected" => receipts[f] # "applied"
    BY DEF Outcome
  <2>. QED BY <1>3, <1>6, <2>1 DEF IInv, CentralOK
<1>. QED BY <1>1, <1>2, <1>5, <1>6, <1>7

LEMMA AckStep ==
  ASSUME IInv, worker.outcome # "none", NEW e, e = Least(Todo(Batch))[1],
         central' \in {central, Acked(e)}, UNCHANGED <<database, over, tool>>,
         faults' \in 0..MaxFaults, worker' \in WorkerType, WorkerOK',
         worker'.pulled \subseteq worker.pulled, worker'.page \subseteq worker.page,
         worker'.page = {} \/ worker'.deployment = worker.deployment
  PROVE  IInv'
<1>1. UNCHANGED database /\ over' = over /\ UNCHANGED tool
  OBVIOUS
<1>2. /\ central' \in [Event -> CentralStatus]
      /\ receipts[e] # "none" /\ CentralOK'
      /\ \A f \in Event : central'[f] = central[f] \/ (f = e /\ central[f] = "pending")
  BY <1>1, AckFacts
<1>3. TypeOK'
  BY <1>1, <1>2, SameRows DEF IInv, TypeOK, WorkerType, tool
<1>4. receipts' = receipts
  BY <1>1, SameRows
<1>5. AnswersOK'
  <2>1. \A p \in worker.pulled \cup worker.page : p[1] \in Event
    BY SnapshotFacts, WorkerFields DEF IInv
  <2>2. \A p \in worker'.page : p[2] = "applied" => central'[p[1]] = "applied"
    BY <1>2, <2>1 DEF IInv, AnswersOK
  <2>3. \A p \in worker'.pulled \cup worker'.page :
          receipts[p[1]] = "none" => central'[p[1]] = central[p[1]]
    BY <1>2, <2>1
  <2>. QED BY <1>4, <2>2, <2>3 DEF IInv, AnswersOK
<1>. QED BY <1>1, <1>2, <1>3, <1>5, SameRows DEF IInv

(* The end of a replay, to the group or to the end of the poll.            *)
LEMMA ReplayEnds ==
  ASSUME IInv, \/ worker.outcome = "none" /\ worker' = ReplayDone
               \/ worker' = ReplayAborted
  PROVE  /\ worker' \in WorkerType /\ WorkerOK'
         /\ worker'.pulled \subseteq worker.pulled /\ worker'.page = {}
<1>1. /\ worker \in WorkerType /\ worker.pulled \subseteq Snapshot
      /\ worker.gap \subseteq Event /\ worker.done \subseteq Event
  BY WorkerFields DEF IInv
<1>2. CASE worker' = Idle
  <2>1. worker' \in WorkerType
    BY <1>2, IdleType
  <2>. QED BY <1>2, <2>1 DEF Idle, WorkerOK, AnswerOK
<1>3. ASSUME NEW w \in WorkerType, worker' = w, w.pc = "group", w.outcome = "none",
             w.page = {}, w.pulled \subseteq worker.pulled
      PROVE  /\ worker' \in WorkerType /\ WorkerOK'
             /\ worker'.pulled \subseteq worker.pulled /\ worker'.page = {}
  BY <1>3 DEF WorkerOK, AnswerOK
<1>4. CASE worker' = ReplayDone /\ worker' # Idle /\ worker.outcome = "none"
  <2>. DEFINE w == [worker EXCEPT !.pc = "group", !.page = {}, !.more = FALSE,
                      !.deployment = None, !.after = 0, !.gap = {},
                      !.done = @ \cup worker.gap]
  <2>1. worker' = w
    BY <1>4 DEF ReplayDone
  <2>2. /\ w \in WorkerType /\ w.pc = "group" /\ w.outcome = "none"
        /\ w.page = {} /\ w.pulled = worker.pulled
    BY <1>1, <1>4 DEF WorkerType
  <2>. HIDE DEF w
  <2>. QED BY <1>3, <2>1, <2>2
<1>5. CASE worker' = ReplayAborted /\ worker' # Idle
  <2>. DEFINE rest == {p \in worker.pulled : Dep(p[1]) # worker.deployment}
              w == [worker EXCEPT !.pc = "group", !.page = {}, !.more = FALSE,
                      !.deployment = None, !.after = 0, !.gap = {},
                      !.outcome = "none", !.pulled = rest]
  <2>1. worker' = w
    BY <1>5 DEF ReplayAborted
  <2>2. rest \subseteq worker.pulled /\ rest \subseteq Snapshot
    BY <1>1
  <2>. HIDE DEF rest
  <2>3. /\ w \in WorkerType /\ w.pc = "group" /\ w.outcome = "none"
        /\ w.page = {} /\ w.pulled = rest
    BY <1>1, <2>2 DEF WorkerType
  <2>. HIDE DEF w
  <2>. QED BY <1>3, <2>1, <2>2, <2>3
<1>. QED BY <1>2, <1>4, <1>5

LEMMA PullStep == IInv /\ Pull => IInv'
<1>. SUFFICES ASSUME IInv, Pull PROVE IInv'
  OBVIOUS
<1>1. PICK sent \in SUBSET Pending :
        worker' = [Idle EXCEPT !.pc = "group", !.pulled = sent \X {"pending"}]
  BY DEF Pull
<1>. DEFINE all == sent \X {"pending"}
<1>2. all \subseteq Snapshot /\ \A p \in all : p[2] = "pending" /\ central[p[1]] = "pending"
  BY DEF Pending, Snapshot, CentralStatus
<1>3. worker' = [Idle EXCEPT !.pc = "group", !.pulled = all]
  BY <1>1
<1>. HIDE DEF all
<1>4. /\ worker' \in WorkerType /\ worker'.pc = "group" /\ worker'.page = {}
      /\ worker'.outcome = "none" /\ worker'.pulled = all
  BY <1>2, <1>3, IdleType DEF WorkerType, Idle
<1>5. UNCHANGED database /\ central' = central /\ over' = over /\ UNCHANGED tool /\ faults' = faults
  BY DEF Pull
<1>6. TypeOK'
  BY <1>4, <1>5, SameRows DEF IInv, TypeOK, WorkerType, tool
<1>7. WorkerOK'
  BY <1>4 DEF WorkerOK, AnswerOK
<1>8. AnswersOK'
  BY <1>2, <1>4, <1>5 DEF AnswersOK
<1>9. CentralOK'
  BY <1>5, SameRows DEF IInv, CentralOK
<1>. QED BY <1>5, <1>6, <1>7, <1>8, <1>9, SameRows DEF IInv

LEMMA ApplyPulledStep == IInv /\ ApplyPulled => IInv'
<1>. SUFFICES ASSUME IInv, ApplyPulled PROVE IInv'
  OBVIOUS
<1>1. /\ worker.pc = "group" /\ worker.outcome = "none" /\ Batch = worker.pulled
      /\ Todo(Batch) # {} /\ central' = central /\ over' = over /\ UNCHANGED tool /\ worker.page = {}
  BY DEF ApplyPulled, Batch, IInv, WorkerOK
<1>. DEFINE p == Least(Todo(Batch))
<1>2. p \in Snapshot /\ p[1] \in Event
  BY <1>1, BatchType, AtHand DEF IInv
<1>3. worker \in WorkerType /\ worker.pulled \subseteq Snapshot
  BY WorkerFields DEF IInv
<1>4. \/ /\ Apply(p[1], p[2])
         /\ worker' = Answered(p[1], p[2])
         /\ UNCHANGED faults
      \/ /\ RevisionGap(p[1])
         /\ worker' = [worker EXCEPT !.pc = "fetch", !.after = 0,
                                     !.deployment = Dep(p[1]),
                                     !.gap = {p[1]}]
         /\ UNCHANGED <<database, faults>>
      \/ /\ Fault \/ UNCHANGED faults
         /\ worker' = [worker EXCEPT !.pulled = @ \ {p}]
         /\ UNCHANGED database
  BY <1>1 DEF ApplyPulled
<1>. HIDE DEF p
<1>5. CASE Apply(p[1], p[2]) /\ worker' = Answered(p[1], p[2]) /\ UNCHANGED faults
  BY <1>1, <1>5, ApplyStep DEF p
<1>6. CASE /\ RevisionGap(p[1])
           /\ worker' = [worker EXCEPT !.pc = "fetch", !.after = 0,
                                       !.deployment = Dep(p[1]),
                                       !.gap = {p[1]}]
           /\ UNCHANGED <<database, faults>>
  <2>. DEFINE d == Dep(p[1])
              gap == {p[1]}
  <2>1. d \in Deployment /\ d # None /\ gap \subseteq Event
    BY <1>2, EventFacts, RosterAssumption
  <2>2. worker' = [worker EXCEPT !.pc = "fetch", !.after = 0,
                                 !.deployment = d, !.gap = gap]
    BY <1>6
  <2>. HIDE DEF d, gap
  <2>3. /\ worker' \in WorkerType /\ worker'.pc = "fetch" /\ worker'.deployment = d
        /\ worker'.outcome = "none"
        /\ worker'.pulled = worker.pulled /\ worker'.page = {}
    BY <1>1, <1>3, <2>1, <2>2 DEF WorkerType
  <2>4. exam' = exam /\ exam.deployment # None
    BY <1>6 DEF RevisionGap, Fails, NotLoaded, database
  <2>5. WorkerOK'
    BY <2>1, <2>3, <2>4 DEF WorkerOK, AnswerOK
  <2>6. faults' \in 0..MaxFaults
    BY <1>6, FaultType DEF IInv
  <2>. QED BY <1>1, <1>6, <2>3, <2>5, <2>6, LocalStep
<1>7. CASE /\ Fault \/ UNCHANGED faults
           /\ worker' = [worker EXCEPT !.pulled = @ \ {p}]
           /\ UNCHANGED database
  <2>. DEFINE rest == worker.pulled \ {p}
  <2>1. rest \subseteq Snapshot /\ rest \subseteq worker.pulled
    BY <1>3
  <2>2. worker' = [worker EXCEPT !.pulled = rest]
    BY <1>7
  <2>. HIDE DEF rest
  <2>3. /\ worker' \in WorkerType /\ worker'.pc = "group"
        /\ worker'.outcome = "none"
        /\ worker'.pulled = rest /\ worker'.page = {}
    BY <1>1, <1>3, <2>1, <2>2 DEF WorkerType
  <2>4. WorkerOK'
    BY <2>3 DEF WorkerOK, AnswerOK
  <2>5. faults' \in 0..MaxFaults
    BY <1>7, FaultType DEF IInv
  <2>. QED BY <1>1, <1>7, <2>1, <2>3, <2>4, <2>5, LocalStep
<1>. QED BY <1>4, <1>5, <1>6, <1>7

LEMMA ReportedFacts ==
  ASSUME IInv, NEW e \in Event, worker' = Reported(e)
  PROVE  /\ worker' \in WorkerType
         /\ worker'.pc = worker.pc /\ worker'.deployment = worker.deployment
         /\ worker'.pulled = worker.pulled /\ worker'.page = worker.page
         /\ worker'.outcome = "none"
<1>. DEFINE all == worker.done \cup {e}
<1>1. worker \in WorkerType /\ all \subseteq Event
  BY WorkerFields DEF IInv
<1>2. worker' = [worker EXCEPT !.outcome = "none", !.done = all]
  BY DEF Reported
<1>. HIDE DEF all
<1>. QED BY <1>1, <1>2 DEF WorkerType

LEMMA AckPulledStep == IInv /\ AckPulled => IInv'
<1>. SUFFICES ASSUME IInv, AckPulled PROVE IInv'
  OBVIOUS
<1>1. /\ worker.pc = "group" /\ worker.outcome # "none" /\ Batch = worker.pulled
      /\ UNCHANGED database /\ over' = over /\ UNCHANGED tool
  BY DEF AckPulled, Batch
<1>. DEFINE e == Least(Todo(Batch))[1]
<1>2. central' \in {central, Acked(e)} /\ (Fault \/ UNCHANGED faults) /\ worker' = Reported(e)
  BY <1>1 DEF AckPulled
<1>3. e \in Event
  BY <1>1, BatchType, AtHand DEF IInv, WorkerOK, AnswerOK
<1>. HIDE DEF e
<1>4. /\ worker' \in WorkerType
      /\ worker'.pc = "group" /\ worker'.deployment = worker.deployment
      /\ worker'.pulled = worker.pulled /\ worker'.page = worker.page
      /\ worker'.outcome = "none"
  BY <1>1, <1>2, <1>3, ReportedFacts
<1>5. WorkerOK'
  BY <1>1, <1>4 DEF IInv, WorkerOK, AnswerOK
<1>6. faults' \in 0..MaxFaults
  BY <1>2, FaultType DEF IInv
<1>. QED BY <1>1, <1>2, <1>4, <1>5, <1>6, AckStep DEF e

LEMMA ListExamsStep == IInv /\ ListExams => IInv'
<1>. SUFFICES ASSUME IInv, ListExams PROVE IInv'
  OBVIOUS
<1>1. /\ UNCHANGED <<database, central, over, tool>> /\ faults' = faults
      /\ worker.outcome = "none" /\ worker.pc = "group" /\ worker.page = {}
  BY DEF ListExams, IInv, WorkerOK
<1>2. faults' \in 0..MaxFaults
  BY <1>1, FaultType DEF IInv
<1>3. CASE worker' = Idle
  <2>1. worker' \in WorkerType /\ WorkerOK'
    BY <1>3, IdleType DEF Idle, WorkerOK, AnswerOK
  <2>2. worker'.pulled = {} /\ worker'.page = {}
    BY <1>3 DEF Idle
  <2>. QED BY <1>1, <1>2, <2>1, <2>2, LocalStep
<1>4. CASE Recoverable
  <2>. DEFINE d == exam.deployment
              n == exam.revision
  <2>1. d # None /\ d \in Deployment /\ n \in Nat
    BY <1>4, DeploymentType DEF Recoverable, IInv, TypeOK
  <2>2. worker' = [worker EXCEPT !.pc = "fetch", !.after = n,
                                 !.deployment = d, !.pulled = {}]
    BY <1>4 DEF ListExams
  <2>3. exam'.deployment = d
    BY <1>1 DEF database
  <2>4. worker \in WorkerType
    BY WorkerFields DEF IInv
  <2>. HIDE DEF d, n
  <2>5. /\ worker' \in WorkerType /\ worker'.pc = "fetch" /\ worker'.deployment = d
        /\ worker'.outcome = "none" /\ worker'.pulled = {} /\ worker'.page = {}
    BY <1>1, <2>1, <2>2, <2>4 DEF WorkerType
  <2>6. WorkerOK'
    BY <2>1, <2>3, <2>5 DEF WorkerOK, AnswerOK
  <2>. QED BY <1>1, <1>2, <2>5, <2>6, LocalStep
<1>. QED BY <1>3, <1>4 DEF ListExams

LEMMA HistoryFacts ==
  ASSUME TypeOK, NEW d \in Deployment, NEW n \in Nat
  PROVE  /\ History(d, n) \subseteq Snapshot
         /\ \A p \in History(d, n) : Dep(p[1]) = d /\ p[2] = central[p[1]]
         /\ Cardinality(History(d, n)) \in Nat
<1>. DEFINE from == {f \in Event : /\ Dep(f) = d /\ Rev(f) \in n + 1..n + Page
                                   /\ central[f] # "none"}
            all == ({d} \X (n + 1..n + Page)) \X CentralStatus
<1>1. central \in [Event -> CentralStatus]
  BY DEF TypeOK
<1>2. \A p \in History(d, n) : /\ p[1] \in from /\ p[2] = central[p[1]]
                               /\ p = <<p[1], p[2]>>
  BY DEF History
<1>3. History(d, n) \subseteq Snapshot
  BY <1>1, <1>2 DEF Snapshot
<1>4. IsFiniteSet({d} \X (n + 1..n + Page))
  <2>1. n + 1 \in Int /\ n + Page \in Int
    BY RosterAssumption
  <2>2. IsFiniteSet(n + 1..n + Page)
    BY <2>1, FS_Interval
  <2>3. IsFiniteSet({d})
    BY FS_Singleton
  <2>. QED BY <2>2, <2>3, FS_Product
<1>5. IsFiniteSet(CentralStatus)
  <2>1. CentralStatus = ((((({"none"} \cup {"pending"}) \cup {"applied"})
                           \cup {"rejected"}) \cup {"cancelled"}) \cup {"expired"})
    BY DEF CentralStatus, Decided
  <2>2. IsFiniteSet((({"none"} \cup {"pending"}) \cup {"applied"}))
    BY FS_Singleton, FS_AddElement
  <2>3. IsFiniteSet((((({"none"} \cup {"pending"}) \cup {"applied"})
                           \cup {"rejected"}) \cup {"cancelled"}) \cup {"expired"})
    BY <2>2, FS_AddElement
  <2>. QED BY <2>1, <2>3
<1>6. IsFiniteSet(all)
  BY <1>4, <1>5, FS_Product
<1>7. History(d, n) \subseteq all
  <2>1. \A f \in from : f \in {d} \X (n + 1..n + Page)
    BY EventFacts
  <2>. QED BY <1>1, <1>2, <2>1
<1>8. Cardinality(History(d, n)) \in Nat
  BY <1>6, <1>7, FS_Subset, FS_CardinalityType
<1>. QED BY <1>2, <1>3, <1>8

LEMMA FetchStep == IInv /\ Fetch => IInv'
<1>. SUFFICES ASSUME IInv, Fetch PROVE IInv'
  OBVIOUS
<1>. DEFINE d == worker.deployment
            sent == History(d, worker.after)
<1>1. /\ UNCHANGED <<database, central, over, tool>> /\ faults' \in 0..MaxFaults
      /\ worker.pc = "fetch" /\ worker.outcome = "none" /\ worker.page = {}
      /\ d # None /\ exam.deployment # None
  <2>1. worker.outcome = "none"
    BY DEF Fetch, IInv, WorkerOK, AnswerOK
  <2>2. faults' \in 0..MaxFaults
    BY FaultType DEF Fetch, IInv
  <2>. QED BY <2>1, <2>2 DEF Fetch, IInv, WorkerOK
<1>2. /\ worker \in WorkerType /\ d \in Deployment /\ worker.after \in Nat
  BY <1>1, WorkerFields DEF IInv
<1>3. /\ sent \subseteq Snapshot /\ Cardinality(sent) \in Nat
      /\ \A p \in sent : Dep(p[1]) = d /\ p[2] = central[p[1]]
  BY <1>2, HistoryFacts DEF IInv
<1>4. CASE worker' \in {ReplayDone, ReplayAborted}
  BY <1>1, <1>4, ReplayEnds, LocalStep
<1>5. CASE /\ sent # {}
           /\ worker' = [worker EXCEPT !.pc = "page", !.page = sent,
                                       !.after = @ + Cardinality(sent),
                                       !.more = Cardinality(sent) = Page]
  <2>. DEFINE n == worker.after + Cardinality(sent)
              full == (Cardinality(sent) = Page)
  <2>1. n \in Nat /\ full \in BOOLEAN
    BY <1>2, <1>3
  <2>2. worker' = [worker EXCEPT !.pc = "page", !.page = sent, !.after = n,
                                 !.more = full]
    BY <1>5
  <2>. HIDE DEF n, full, sent
  <2>3. /\ worker' \in WorkerType /\ worker'.pc = "page" /\ worker'.page = sent
        /\ worker'.deployment = d /\ worker'.pulled = worker.pulled
        /\ worker'.outcome = "none"
    BY <1>1, <1>2, <1>3, <2>1, <2>2 DEF WorkerType
  <2>4. UNCHANGED database /\ central' = central /\ over' = over /\ UNCHANGED tool
    BY <1>1
  <2>5. exam' = exam /\ receipts' = receipts
    BY <2>4 DEF database
  <2>6. TypeOK'
    BY <1>1, <2>3, <2>4, SameRows DEF IInv, TypeOK, WorkerType, tool
  <2>7. WorkerOK'
    BY <1>1, <2>3, <2>5 DEF WorkerOK, AnswerOK
  <2>8. AnswersOK'
    BY <1>3, <2>3, <2>4, <2>5 DEF IInv, AnswersOK
  <2>9. CentralOK'
    BY <2>4, <2>5 DEF IInv, CentralOK
  <2>. QED BY <2>4, <2>6, <2>7, <2>8, <2>9, SameRows DEF IInv
<1>. QED BY <1>4, <1>5 DEF Fetch

LEMMA ApplyReplayedStep == IInv /\ ApplyReplayed => IInv'
<1>. SUFFICES ASSUME IInv, ApplyReplayed PROVE IInv'
  OBVIOUS
<1>1. /\ worker.pc = "page" /\ worker.outcome = "none" /\ Batch = worker.page
      /\ Todo(Batch) # {} /\ central' = central /\ over' = over /\ UNCHANGED tool
  BY DEF ApplyReplayed, Batch
<1>. DEFINE p == Least(Todo(Batch))
<1>2. \/ /\ Apply(p[1], p[2])
         /\ worker' = Answered(p[1], p[2])
         /\ UNCHANGED faults
      \/ /\ Fault \/ UNCHANGED faults
         /\ worker' = ReplayAborted
         /\ UNCHANGED database
  BY <1>1 DEF ApplyReplayed
<1>3. CASE /\ Fault \/ UNCHANGED faults
           /\ worker' = ReplayAborted
           /\ UNCHANGED database
  <2>1. faults' \in 0..MaxFaults
    BY <1>3, FaultType DEF IInv
  <2>. QED BY <1>1, <1>3, <2>1, ReplayEnds, LocalStep
<1>. QED BY <1>1, <1>2, <1>3, ApplyStep

LEMMA AckReplayedStep == IInv /\ AckReplayed => IInv'
<1>. SUFFICES ASSUME IInv, AckReplayed PROVE IInv'
  OBVIOUS
<1>1. /\ worker.pc = "page" /\ worker.outcome # "none" /\ Batch = worker.page
      /\ UNCHANGED database /\ over' = over /\ UNCHANGED tool
  BY DEF AckReplayed, Batch
<1>. DEFINE e == Least(Todo(Batch))[1]
<1>2. /\ central' \in {central, Acked(e)} /\ (Fault \/ UNCHANGED faults)
      /\ worker' \in {Reported(e), ReplayAborted}
  BY <1>1 DEF AckReplayed
<1>3. e \in Event
  BY <1>1, BatchType, AtHand DEF IInv, WorkerOK, AnswerOK
<1>4. faults' \in 0..MaxFaults
  BY <1>2, FaultType DEF IInv
<1>. HIDE DEF e
<1>5. CASE worker' = Reported(e)
  <2>1. /\ worker' \in WorkerType
        /\ worker'.pc = "page" /\ worker'.deployment = worker.deployment
        /\ worker'.pulled = worker.pulled /\ worker'.page = worker.page
        /\ worker'.outcome = "none"
    BY <1>1, <1>3, <1>5, ReportedFacts
  <2>2. exam' = exam
    BY <1>1 DEF database
  <2>3. WorkerOK'
    BY <1>1, <2>1, <2>2 DEF IInv, WorkerOK, AnswerOK
  <2>. QED BY <1>1, <1>2, <1>4, <2>1, <2>3, AckStep DEF e
<1>6. CASE worker' = ReplayAborted
  BY <1>1, <1>2, <1>4, <1>6, ReplayEnds, AckStep DEF e
<1>. QED BY <1>2, <1>5, <1>6

LEMMA PageDoneStep == IInv /\ PageDone => IInv'
<1>. SUFFICES ASSUME IInv, PageDone PROVE IInv'
  OBVIOUS
<1>1. /\ UNCHANGED <<database, central, over, tool>> /\ faults' = faults
      /\ worker.outcome = "none" /\ worker.pc = "page"
      /\ exam' = exam
  BY DEF PageDone, database
<1>2. faults' \in 0..MaxFaults
  BY <1>1, FaultType DEF IInv
<1>3. CASE worker' = ReplayDone
  BY <1>1, <1>2, <1>3, ReplayEnds, LocalStep
<1>4. CASE worker' = [worker EXCEPT !.pc = "fetch", !.page = {}, !.more = FALSE]
  <2>1. worker \in WorkerType
    BY WorkerFields DEF IInv
  <2>2. /\ worker' \in WorkerType /\ worker'.pc = "fetch"
        /\ worker'.deployment = worker.deployment
        /\ worker'.outcome = "none" /\ worker'.pulled = worker.pulled
        /\ worker'.page = {}
    BY <1>1, <1>4, <2>1 DEF WorkerType
  <2>3. WorkerOK'
    BY <1>1, <2>2 DEF IInv, WorkerOK, AnswerOK
  <2>. QED BY <1>1, <1>2, <2>2, <2>3, LocalStep
<1>. QED BY <1>3, <1>4 DEF PageDone

-----------------------------------------------------------------------------
(* The rest of the node, Central and time.                                 *)
LEMMA ReplaceBundleStep ==
  ASSUME IInv, NEW d \in Pushed, ReplaceBundle(d),
         loading' \subseteq Pushed, overrun' \in BOOLEAN, faults' = faults
  PROVE  IInv'
<1>. USE RosterAssumption
<1>1. d \in Deployment /\ d # None
  OBVIOUS
<1>2. /\ exam' = [deployment |-> d, revision |-> 0, fenced |-> FALSE, hash |-> Listed[d]]
      /\ roster' = [e \in Listed[d] |-> IF e \in DOMAIN roster THEN roster[e] ELSE 0]
      /\ UNCHANGED <<receipts, central, over, worker>>
  BY DEF ReplaceBundle, NoExam
<1>3. Listed[d] \subseteq Event /\ \A e \in Listed[d] : Dep(e) # d
  BY <1>1, ListedFacts
<1>4. /\ DOMAIN roster' = Listed[d]
      /\ \A e \in Listed[d] : roster'[e] # 0 => e \in DOMAIN roster /\ roster'[e] = roster[e]
  BY <1>2
<1>5. TypeOK'
  <2>1. exam' \in [deployment : Pushed \cup {First, None}, revision : Nat,
                   fenced : BOOLEAN, hash : SUBSET Event]
    BY <1>2, <1>3
  <2>2. \A e \in DOMAIN roster' : roster'[e] \in {0, Rev(e)}
    BY <1>4 DEF IInv, TypeOK
  <2>. QED BY <1>2, <1>3, <1>4, <2>1, <2>2 DEF IInv, TypeOK
<1>6. RowsOK'
  <2>1. /\ exam'.deployment = d /\ exam'.revision = 0 /\ exam'.hash = Listed[d]
        /\ Last[d] \in Nat
    BY <1>1, <1>2
  <2>2. \A e \in DOMAIN roster' : roster'[e] # 0 => receipts'[e] = "applied"
    BY <1>2, <1>4 DEF IInv, RowsOK
  <2>. QED BY <1>1, <1>3, <1>4, <2>1, <2>2 DEF RowsOK, HashAgrees
<1>7. WorkerOK'
  BY <1>1, <1>2 DEF IInv, WorkerOK, AnswerOK, Todo, Batch, Least
<1>8. AnswersOK' /\ CentralOK'
  BY <1>2 DEF IInv, AnswersOK, CentralOK
<1>. QED BY <1>5, <1>6, <1>7, <1>8 DEF IInv

LEMMA LoadBundleStep ==
  ASSUME IInv, NEW d \in Pushed, LoadBundle(d) \/ ReplaceBeside(d)
  PROVE  IInv'
<1>1. loading \subseteq Pushed /\ overrun \in BOOLEAN
  BY DEF IInv, TypeOK
<1>2. ReplaceBundle(d) /\ faults' = faults
  BY DEF LoadBundle, ReplaceBeside
<1>3. loading' \subseteq Pushed /\ overrun' \in BOOLEAN
  BY <1>1 DEF LoadBundle, ReplaceBeside, tool, Immutable
<1>. QED BY <1>2, <1>3, ReplaceBundleStep

LEMMA CheckBesideStep ==
  ASSUME IInv, NEW d \in Pushed, CheckBeside(d)
  PROVE  IInv'
<1>1. /\ UNCHANGED database /\ central' = central /\ worker' = worker
      /\ over' = over /\ overrun' = overrun /\ loading' \subseteq Pushed
      /\ faults' \in 0..MaxFaults
  BY FaultType DEF CheckBeside, IInv, TypeOK
<1>2. exam' = exam /\ roster' = roster /\ receipts' = receipts
  BY <1>1 DEF database
<1>3. TypeOK'
  BY <1>1, <1>2 DEF IInv, TypeOK
<1>4. WorkerOK' /\ AnswersOK' /\ CentralOK'
  BY <1>1, <1>2 DEF IInv, WorkerOK, AnswerOK, AnswersOK, CentralOK, Todo, Batch, Least
<1>. QED BY <1>1, <1>3, <1>4, SameRows DEF IInv

LEMMA MarkFencedStep == IInv /\ MarkFenced => IInv'
<1>. SUFFICES ASSUME IInv, MarkFenced PROVE IInv'
  OBVIOUS
<1>1. exam' = [exam EXCEPT !.fenced = TRUE]
      /\ UNCHANGED <<roster, receipts, central, over, worker, tool, faults>>
  BY DEF MarkFenced
<1>2. exam' \in [deployment : Pushed \cup {First, None}, revision : Nat,
                 fenced : BOOLEAN, hash : SUBSET Event]
  BY <1>1 DEF IInv, TypeOK
<1>3. /\ exam'.deployment = exam.deployment /\ exam'.revision = exam.revision
      /\ exam'.hash = exam.hash
  BY <1>1 DEF IInv, TypeOK
<1>4. TypeOK'
  BY <1>1, <1>2 DEF IInv, TypeOK, tool
<1>5. RowsOK'
  BY <1>1, <1>3 DEF IInv, RowsOK, HashAgrees
<1>6. WorkerOK'
  BY <1>1, <1>3 DEF IInv, WorkerOK, AnswerOK, Todo, Batch, Least
<1>7. AnswersOK' /\ CentralOK'
  BY <1>1 DEF IInv, AnswersOK, CentralOK
<1>. QED BY <1>4, <1>5, <1>6, <1>7 DEF IInv

LEMMA CrashStep == IInv /\ Crash => IInv'
<1>. SUFFICES ASSUME IInv, Crash PROVE IInv'
  OBVIOUS
<1>1. /\ UNCHANGED <<database, central, over, tool>>
      /\ worker' \in WorkerType /\ worker'.pulled = {} /\ worker'.page = {}
  BY IdleType DEF Crash, Idle
<1>2. WorkerOK'
  BY DEF Crash, Idle, WorkerOK, AnswerOK
<1>3. faults' \in 0..MaxFaults
  BY FaultType DEF Crash, IInv
<1>. QED BY <1>1, <1>2, <1>3, LocalStep

LEMMA ReplaceNodeStep == IInv /\ ReplaceNode => IInv'
<1>. SUFFICES ASSUME IInv, ReplaceNode PROVE IInv'
  OBVIOUS
<1>1. /\ exam' = [deployment |-> None, revision |-> 0, fenced |-> FALSE, hash |-> {}]
      /\ DOMAIN roster' = {} /\ receipts' = [e \in Event |-> "none"]
      /\ worker' = Idle /\ central' = central /\ over' = over
      /\ loading' = {} /\ overrun' = FALSE
  BY DEF ReplaceNode, NoExam, NoRoster, NoReceipts
<1>2. faults' \in 0..MaxFaults
  BY FaultType DEF ReplaceNode, IInv
<1>3. TypeOK'
  <2>1. exam' \in [deployment : Pushed \cup {First, None}, revision : Nat,
                   fenced : BOOLEAN, hash : SUBSET Event]
    BY <1>1
  <2>2. receipts' \in [Event -> Decided \cup {"none"}]
    BY <1>1
  <2>3. worker' \in WorkerType
    BY <1>1, IdleType
  <2>. QED BY <1>1, <1>2, <2>1, <2>2, <2>3 DEF IInv, TypeOK, WorkerType
<1>4. RowsOK'
  BY <1>1 DEF RowsOK, HashAgrees
<1>5. WorkerOK' /\ AnswersOK' /\ CentralOK'
  BY <1>1 DEF IInv, CentralOK, WorkerOK, AnswerOK, AnswersOK, Idle
<1>. QED BY <1>3, <1>4, <1>5 DEF IInv

(* Central issues or withdraws an event: what it has decided, it keeps.    *)
LEMMA CentralStep ==
  ASSUME IInv, \/ \E d \in Deployment : Issue(d)
               \/ \E e \in Event : Withdraw(e)
  PROVE  IInv'
<1>1. UNCHANGED <<database, over, worker, tool, faults>>
  BY DEF Issue, Withdraw
<1>2. UNCHANGED database /\ over' = over /\ worker' = worker /\ faults' = faults /\ UNCHANGED tool
  BY <1>1
<1>3. PICK e \in Event, s \in {"pending", "cancelled", "expired"} :
        central[e] \in {"none", "pending"} /\ central' = [central EXCEPT ![e] = s]
  BY DEF Issue, Withdraw
<1>4. central \in [Event -> CentralStatus]
  BY DEF IInv, TypeOK
<1>5. /\ central' \in [Event -> CentralStatus]
      /\ \A f \in Event : \/ central'[f] = central[f]
                          \/ /\ central'[f] \notin {"applied", "rejected"}
                             /\ central[f] \in {"none", "pending"}
  BY <1>3, <1>4 DEF CentralStatus, Decided
<1>6. exam' = exam /\ roster' = roster /\ receipts' = receipts
  BY <1>2 DEF database
<1>7. TypeOK'
  BY <1>2, <1>5, <1>6 DEF IInv, TypeOK, tool
<1>8. WorkerOK'
  BY <1>2, <1>6 DEF IInv, WorkerOK, AnswerOK, Todo, Batch, Least
<1>9. AnswersOK'
  <2>1. \A p \in worker.pulled \cup worker.page : p[1] \in Event
    BY SnapshotFacts, WorkerFields DEF IInv
  <2>2. \A p \in worker.page : p[2] = "applied" => central'[p[1]] = "applied"
    BY <1>5, <2>1 DEF IInv, AnswersOK
  <2>3. \A p \in worker.pulled \cup worker.page :
          central'[p[1]] \in {"applied", "rejected"} => central'[p[1]] = central[p[1]]
    BY <1>5, <2>1
  <2>. QED BY <1>2, <1>6, <2>2, <2>3 DEF IInv, AnswersOK
<1>10. CentralOK'
  BY <1>5, <1>6 DEF IInv, CentralOK
<1>. QED BY <1>2, <1>7, <1>8, <1>9, <1>10, SameRows DEF IInv

LEMMA TimeUpStep == IInv /\ (TimeUp \/ UNCHANGED vars) => IInv'
<1>. SUFFICES ASSUME IInv, TimeUp \/ UNCHANGED vars PROVE IInv'
  OBVIOUS
<1>1. /\ UNCHANGED database /\ central' = central /\ worker' = worker /\ faults' = faults
      /\ UNCHANGED tool
      /\ over' \in BOOLEAN
  BY DEF TimeUp, vars, IInv, TypeOK, database
<1>2. exam' = exam /\ roster' = roster /\ receipts' = receipts
  BY <1>1 DEF database
<1>3. TypeOK'
  BY <1>1, <1>2 DEF IInv, TypeOK, tool
<1>4. WorkerOK' /\ AnswersOK' /\ CentralOK'
  BY <1>1, <1>2 DEF IInv, WorkerOK, AnswerOK, AnswersOK, CentralOK, Todo, Batch, Least
<1>. QED BY <1>1, <1>3, <1>4, SameRows DEF IInv

LEMMA Step == IInv /\ [Next]_vars => IInv'
<1>. SUFFICES ASSUME IInv, [Next]_vars PROVE IInv'
  OBVIOUS
<1>1. CASE Work
  BY <1>1, PullStep, ApplyPulledStep, AckPulledStep, ListExamsStep, FetchStep,
     ApplyReplayedStep, AckReplayedStep, PageDoneStep DEF Work
<1>2. ASSUME NEW d \in Pushed, LoadBundle(d) \/ CheckBeside(d) \/ ReplaceBeside(d)
      PROVE  IInv'
  BY <1>2, LoadBundleStep, CheckBesideStep
<1>3. CASE MarkFenced \/ Crash \/ ReplaceNode
  BY <1>3, MarkFencedStep, CrashStep, ReplaceNodeStep
<1>4. CASE (\E d \in Deployment : Issue(d)) \/ (\E e \in Event : Withdraw(e))
  BY <1>4, CentralStep
<1>5. CASE TimeUp \/ UNCHANGED vars
  BY <1>5, TimeUpStep
<1>. QED BY <1>1, <1>2, <1>3, <1>4, <1>5 DEF Next

(* The inductive invariant, for any number of deployments.                 *)
THEOREM Inductive == Spec => []IInv
BY Initial, Step, PTL DEF Spec

(* Every variable keeps its type.                                          *)
THEOREM TypeCorrect == Spec => []TypeOK
<1>1. IInv => TypeOK
  BY DEF IInv
<1>. QED BY <1>1, Inductive, PTL

(* After the fence no participant joins but those whom Central already     *)
(* counts as applied, although events were pulled before the fence.        *)
THEOREM FenceFreezesRoster == Spec => FencedRosterFrozen
<1>1. IInv /\ [Next]_vars =>
        [exam.fenced /\ exam'.fenced =>
           \A e \in DOMAIN roster' \ DOMAIN roster : central[e] = "applied"]_vars
  <2>. SUFFICES ASSUME IInv, Next, exam.fenced, exam'.fenced,
                       NEW e \in DOMAIN roster' \ DOMAIN roster
       PROVE  central[e] = "applied"
    OBVIOUS
  <2>1. ASSUME NEW p \in worker.pulled \cup worker.page, Apply(p[1], p[2])
        PROVE  central[e] = "applied"
    <3>1. p \in Snapshot
      BY WorkerFields DEF IInv
    <3>2. /\ e = p[1] /\ p[2] \in {"pending", "applied"}
          /\ p[2] = "pending" => ~exam.fenced
      BY <2>1, <3>1, ApplyFacts
    <3>3. p \in worker.page /\ p[2] = "applied"
      BY <3>2 DEF IInv, AnswersOK
    <3>. QED BY <3>2, <3>3 DEF IInv, AnswersOK
  <2>2. CASE ApplyPulled
    <3>1. \E p \in worker.pulled : Apply(p[1], p[2])
      BY <2>2, AtHand, WorkerFields DEF ApplyPulled, IInv, database
    <3>. QED BY <2>1, <3>1
  <2>3. CASE ApplyReplayed
    <3>1. \E p \in worker.page : Apply(p[1], p[2])
      BY <2>3, AtHand, WorkerFields DEF ApplyReplayed, IInv, database
    <3>. QED BY <2>1, <3>1
  <2>4. ASSUME NEW d \in Pushed, LoadBundle(d) \/ CheckBeside(d) \/ ReplaceBeside(d)
        PROVE  FALSE
    BY <2>4 DEF LoadBundle, ReplaceBeside, CheckBeside, ReplaceBundle, NoExam, database
  <2>5. CASE ReplaceNode
    BY <2>5 DEF ReplaceNode, NoRoster
  <2>6. CASE \/ Pull \/ AckPulled \/ ListExams \/ Fetch \/ AckReplayed \/ PageDone
             \/ MarkFenced \/ Crash \/ TimeUp
    BY <2>6 DEF Pull, AckPulled, ListExams, Fetch, AckReplayed, PageDone, MarkFenced,
                Crash, TimeUp, database
  <2>7. CASE (\E d \in Deployment : Issue(d)) \/ (\E f \in Event : Withdraw(f))
    BY <2>7 DEF Issue, Withdraw, database
  <2>. QED BY <2>2, <2>3, <2>4, <2>5, <2>6, <2>7 DEF Next, Work
<1>. QED BY <1>1, Inductive, PTL DEF Spec, FencedRosterFrozen

-----------------------------------------------------------------------------
(* One deployment is pushed.                                               *)
LEMMA OneInitial == Init => OneInv
<1>. SUFFICES ASSUME Init PROVE OneInv
  OBVIOUS
<1>1. /\ \A e \in Event : receipts[e] = "none" /\ central[e] = "none"
      /\ worker = Idle
  BY DEF Init, NoReceipts
<1>. QED BY <1>1 DEF OneInv, AppliedIsPresent, Kept, OutcomeAgrees, Idle

(* A step that keeps receipts and the loaded deployment, and tells Central *)
(* only what the receipts say.                                             *)
LEMMA OneSame ==
  ASSUME IInv, IInv', OneInv, UNCHANGED <<exam, roster, receipts, overrun>>,
         \A e \in Event : central'[e] = "applied" =>
                            central[e] = "applied" \/ receipts[e] = "applied",
         worker'.pc \in {"fetch", "page"} =>
           \/ worker'.deployment = exam.deployment
           \/ /\ worker.pc \in {"fetch", "page"}
              /\ worker'.deployment = worker.deployment
  PROVE  OneInv'
<1>1. AppliedIsPresent'
  BY DEF OneInv, AppliedIsPresent, Undisturbed
<1>2. Kept => Kept'
  BY DEF Kept
<1>3. OutcomeAgrees'
  BY DEF OneInv, OutcomeAgrees, IInv, CentralOK
<1>. QED BY <1>1, <1>2, <1>3 DEF OneInv, Undisturbed

LEMMA OneApply ==
  ASSUME IInv, IInv', OneInv, NEW p \in worker.pulled \cup worker.page,
         Apply(p[1], p[2]), worker.page # {} => worker.pc = "page",
         central' = central, worker'.pc = worker.pc,
         worker'.deployment = worker.deployment, overrun' = overrun
  PROVE  OneInv'
<1>1. p \in Snapshot /\ p[1] \in Event
  BY WorkerFields, SnapshotFacts DEF IInv
<1>2. /\ exam.deployment # None
      /\ exam'.deployment = exam.deployment
      /\ exam.revision <= exam'.revision
      /\ DOMAIN roster \subseteq DOMAIN roster'
      /\ receipts'[p[1]] # "none"
      /\ \A f \in Event : receipts[f] # "none" \/ f # p[1] =>
                            receipts'[f] = receipts[f]
      /\ receipts[p[1]] = "none" /\ receipts'[p[1]] = "applied" =>
           /\ Dep(p[1]) = exam.deployment
           /\ p[1] \in DOMAIN roster' /\ exam'.revision = Rev(p[1])
      /\ receipts[p[1]] = "none" /\ Dep(p[1]) = exam.deployment
           /\ p[2] = "applied" /\ p[1] \notin Conflicting =>
           receipts'[p[1]] = "applied"
  BY <1>1, ApplyFacts
<1>3. exam.revision \in Nat /\ exam'.revision \in Nat
  BY DEF IInv, TypeOK
<1>4. ASSUME NEW e \in Event, receipts'[e] = "applied"
      PROVE  /\ Undisturbed /\ Dep(e) = exam'.deployment =>
                  e \in DOMAIN roster' /\ Rev(e) <= exam'.revision
             /\ Dep(e) \in Pushed => Dep(e) = exam'.deployment
  <2>1. Rev(e) \in Nat
    BY EventFacts
  <2>2. CASE receipts[e] = "applied"
    BY <1>2, <1>3, <2>1, <2>2 DEF OneInv, AppliedIsPresent
  <2>3. CASE receipts[e] # "applied"
    <3>1. e = p[1] /\ receipts[e] = "none"
      BY <1>2, <1>4, <2>3
    <3>. QED BY <1>2, <1>4, <2>1, <3>1
  <2>. QED BY <2>2, <2>3
<1>5. Kept => Kept'
  BY <1>2 DEF Kept
<1>6. OutcomeAgrees'
  <2>. SUFFICES ASSUME NEW e \in Event, central[e] = "applied"
                PROVE  receipts'[e] \in {"none", "applied"}
    BY DEF OutcomeAgrees, IInv, CentralOK
  <2>1. CASE receipts[e] # "none" \/ e # p[1]
    BY <1>2, <2>1 DEF OneInv, OutcomeAgrees
  <2>2. CASE receipts[e] = "none" /\ e = p[1]
    <3>1. p[2] = "applied" /\ e \notin Conflicting
      BY <2>2 DEF IInv, AnswersOK, CentralOK
    <3>2. p \in worker.page /\ Dep(e) = worker.deployment
      BY <2>2, <3>1 DEF IInv, AnswersOK
    <3>3. worker.deployment = exam.deployment
      BY <2>2, <3>2 DEF OneInv, Kept
    <3>. QED BY <1>2, <2>2, <3>1, <3>2, <3>3
  <2>. QED BY <2>1, <2>2
<1>7. AppliedIsPresent'
  BY <1>4 DEF AppliedIsPresent, Undisturbed
<1>. QED BY <1>2, <1>4, <1>5, <1>6, <1>7 DEF OneInv, Undisturbed

(* A load takes nobody away, unless it is one beside the node that the     *)
(* worker has overtaken.                                                   *)
LEMMA OneLoad ==
  ASSUME OneIsPushed, IInv, IInv', OneInv, NEW d \in Pushed,
         LoadBundle(d) \/ ReplaceBeside(d)
  PROVE  OneInv'
<1>1. /\ exam'.deployment = d /\ exam'.revision = 0 /\ d # None
      /\ UNCHANGED <<receipts, central, worker>>
      /\ Undisturbed' => Undisturbed /\ (exam.deployment = d => exam.revision = 0)
  <2>1. ReplaceBundle(d)
    BY DEF LoadBundle, ReplaceBeside
  <2>2. Undisturbed' => Undisturbed /\ ~Immutable(d)
    <3>1. CASE LoadBundle(d)
      BY <3>1 DEF LoadBundle, tool, Undisturbed
    <3>2. CASE ReplaceBeside(d)
      BY <3>2 DEF ReplaceBeside, Undisturbed
    <3>. QED BY <3>1, <3>2
  <2>. QED BY <2>1, <2>2, RosterAssumption DEF ReplaceBundle, Immutable, NoExam, IInv, TypeOK
<1>2. ASSUME NEW e \in Event, receipts[e] = "applied", Undisturbed' PROVE Dep(e) # d
  <2>1. Rev(e) \in Nat /\ Rev(e) > 0
    BY EventFacts
  <2>2. Dep(e) = d => exam.deployment = d /\ Rev(e) <= exam.revision
    BY <1>1, <1>2 DEF OneInv
  <2>. QED BY <1>1, <1>2, <2>1, <2>2
<1>3. \A e \in Event : Dep(e) \in Pushed => Dep(e) = d
  BY DEF OneIsPushed
<1>4. AppliedIsPresent'
  BY <1>1, <1>2 DEF AppliedIsPresent
<1>5. worker.pc \in {"fetch", "page"} /\ d # worker.deployment => Kept
  <2>1. CASE exam.deployment = d
    BY <2>1 DEF OneInv
  <2>2. CASE exam.deployment # d
    <3>1. exam.deployment \notin Pushed
      BY <2>2 DEF OneIsPushed
    <3>2. worker.pc \in {"fetch", "page"} => exam.deployment # None
      BY DEF IInv, WorkerOK
    <3>. QED BY <3>1, <3>2 DEF OneInv
  <2>. QED BY <2>1, <2>2
<1>6. OutcomeAgrees' /\ (Kept => Kept')
  BY <1>1 DEF OneInv, OutcomeAgrees, Kept
<1>. QED BY <1>1, <1>2, <1>3, <1>4, <1>5, <1>6 DEF OneInv

LEMMA ReplayLeaves ==
  ASSUME IInv, worker' \in {ReplayDone, ReplayAborted}
  PROVE  worker'.pc \in {"idle", "group"}
<1>1. worker \in WorkerType
  BY WorkerFields DEF IInv
<1>2. Idle.pc = "idle"
  BY DEF Idle
<1>3. ReplayDone = Idle \/ ReplayDone.pc = "group"
  BY <1>1 DEF ReplayDone, WorkerType
<1>4. ReplayAborted = Idle \/ ReplayAborted.pc = "group"
  BY <1>1 DEF ReplayAborted, WorkerType
<1>. QED BY <1>2, <1>3, <1>4

LEMMA OneWork ==
  ASSUME IInv, IInv', OneInv, Work
  PROVE  OneInv'
<1>1. worker \in WorkerType
  BY WorkerFields DEF IInv
<1>2. worker.page # {} => worker.pc = "page"
  BY DEF IInv, WorkerOK
<1>3. CASE Pull
  <2>1. worker'.pc = "group"
    BY <1>3 DEF Pull, Idle
  <2>. QED BY <1>3, <2>1, OneSame DEF Pull, database, tool
<1>4. CASE ApplyPulled
  <2>. DEFINE p == Least(Todo(worker.pulled))
  <2>1. p \in worker.pulled /\ p[1] \in Event /\ worker.pc = "group"
    BY <1>4, AtHand, WorkerFields DEF ApplyPulled, IInv
  <2>2. CASE Apply(p[1], p[2]) /\ worker' = Answered(p[1], p[2])
    <3>1. worker'.pc = worker.pc /\ worker'.deployment = worker.deployment
      BY <2>1, <2>2, AnsweredFacts
    <3>. QED BY <1>2, <1>4, <2>1, <2>2, <3>1, OneApply DEF ApplyPulled, tool
  <2>3. CASE /\ RevisionGap(p[1]) /\ UNCHANGED database
             /\ worker' = [worker EXCEPT !.pc = "fetch", !.after = 0,
                                         !.deployment = Dep(p[1]),
                                         !.gap = {p[1]}]
    <3>1. worker'.deployment = exam.deployment
      BY <1>1, <2>3 DEF RevisionGap, Foreign, WorkerType
    <3>2. UNCHANGED <<exam, roster, receipts, overrun>> /\ central' = central
      BY <1>4, <2>3 DEF ApplyPulled, database, tool
    <3>. QED BY <3>1, <3>2, OneSame
  <2>4. CASE UNCHANGED database /\ worker' = [worker EXCEPT !.pulled = @ \ {p}]
    <3>1. worker'.pc = "group"
      BY <1>1, <2>1, <2>4 DEF WorkerType
    <3>2. UNCHANGED <<exam, roster, receipts, overrun>> /\ central' = central
      BY <1>4, <2>4 DEF ApplyPulled, database, tool
    <3>. QED BY <3>1, <3>2, OneSame
  <2>. QED BY <1>4, <2>2, <2>3, <2>4 DEF ApplyPulled
<1>5. CASE AckPulled \/ AckReplayed
  <2>. DEFINE e == Least(Todo(Batch))[1]
  <2>1. /\ worker.outcome # "none" /\ central' \in {central, Acked(e)}
        /\ UNCHANGED <<database, tool>>
        /\ worker' \in {Reported(e), ReplayAborted}
    BY <1>5 DEF AckPulled, AckReplayed, Batch
  <2>2. e \in Event
    BY <2>1, BatchType, AtHand DEF IInv, WorkerOK, AnswerOK
  <2>. HIDE DEF e
  <2>3. \A f \in Event : central'[f] = central[f] \/ central'[f] = Outcome(receipts[f])
    BY <2>1, AckFacts DEF e
  <2>4. \A f \in Event : central'[f] = "applied" =>
                           central[f] = "applied" \/ receipts[f] = "applied"
    BY <2>3 DEF Outcome
  <2>5. \/ worker'.pc \in {"idle", "group"}
        \/ worker'.pc = worker.pc /\ worker'.deployment = worker.deployment
    BY <2>1, <2>2, ReportedFacts, ReplayLeaves
  <2>6. UNCHANGED <<exam, roster, receipts, overrun>>
    BY <2>1 DEF database, tool
  <2>. QED BY <2>4, <2>5, <2>6, OneSame
<1>6. CASE ListExams
  <2>1. worker'.pc = "idle" \/ worker'.deployment = exam.deployment
    BY <1>1, <1>6 DEF ListExams, Idle, WorkerType
  <2>2. UNCHANGED <<exam, roster, receipts, overrun>> /\ central' = central
    BY <1>6 DEF ListExams, database, tool
  <2>. QED BY <2>1, <2>2, OneSame
<1>7. CASE Fetch \/ PageDone
  <2>1. \/ worker'.pc \in {"idle", "group"}
        \/ worker'.deployment = worker.deployment
    BY <1>1, <1>7, ReplayLeaves DEF Fetch, PageDone, WorkerType
  <2>2. worker.pc \in {"fetch", "page"}
    BY <1>7 DEF Fetch, PageDone
  <2>3. UNCHANGED <<exam, roster, receipts, overrun>> /\ central' = central
    BY <1>7 DEF Fetch, PageDone, database, tool
  <2>. QED BY <2>1, <2>2, <2>3, OneSame
<1>8. CASE ApplyReplayed
  <2>. DEFINE p == Least(Todo(worker.page))
  <2>1. p \in worker.page /\ p[1] \in Event
    BY <1>8, AtHand, WorkerFields DEF ApplyReplayed, IInv
  <2>2. CASE Apply(p[1], p[2]) /\ worker' = Answered(p[1], p[2])
    <3>1. worker'.pc = worker.pc /\ worker'.deployment = worker.deployment
      BY <2>1, <2>2, AnsweredFacts
    <3>. QED BY <1>2, <1>8, <2>1, <2>2, <3>1, OneApply DEF ApplyReplayed, tool
  <2>3. CASE UNCHANGED database /\ worker' = ReplayAborted
    <3>1. worker'.pc \in {"idle", "group"}
      BY <2>3, ReplayLeaves
    <3>2. UNCHANGED <<exam, roster, receipts, overrun>> /\ central' = central
      BY <1>8, <2>3 DEF ApplyReplayed, database, tool
    <3>. QED BY <3>1, <3>2, OneSame
  <2>. QED BY <1>8, <2>2, <2>3 DEF ApplyReplayed
<1>. QED BY <1>3, <1>4, <1>5, <1>6, <1>7, <1>8 DEF Work

LEMMA OneStep ==
  ASSUME OneIsPushed, IInv, IInv', OneInv, [Next]_vars
  PROVE  OneInv'
<1>1. CASE Work
  BY <1>1, OneWork
<1>2. ASSUME NEW d \in Pushed, LoadBundle(d) \/ ReplaceBeside(d) PROVE OneInv'
  BY <1>2, OneLoad
<1>8. ASSUME NEW d \in Pushed, CheckBeside(d) PROVE OneInv'
  <2>1. /\ worker' = worker /\ central' = central
        /\ UNCHANGED <<exam, roster, receipts, overrun>>
    BY <1>8 DEF CheckBeside, database, tool
  <2>. QED BY <2>1, OneSame
<1>3. CASE MarkFenced
  <2>1. /\ exam'.deployment = exam.deployment /\ exam'.revision = exam.revision
        /\ UNCHANGED <<roster, receipts, central, worker, overrun>>
    BY <1>3 DEF MarkFenced, IInv, TypeOK, tool
  <2>. QED BY <2>1 DEF OneInv, AppliedIsPresent, Undisturbed, Kept, OutcomeAgrees
<1>4. CASE ReplaceNode
  <2>1. /\ exam'.deployment = None /\ worker'.pc = "idle" /\ central' = central
        /\ \A e \in Event : receipts'[e] = "none"
    BY <1>4 DEF ReplaceNode, NoExam, NoReceipts, Idle
  <2>2. OutcomeAgrees'
    BY <2>1 DEF OutcomeAgrees
  <2>. QED BY <2>1, <2>2 DEF OneInv, AppliedIsPresent
<1>5. CASE Crash
  <2>1. worker'.pc = "idle" /\ central' = central /\ UNCHANGED <<exam, roster, receipts, overrun>>
    BY <1>5 DEF Crash, Idle, database, tool
  <2>. QED BY <2>1, OneSame
<1>6. CASE (\E d \in Deployment : Issue(d)) \/ (\E e \in Event : Withdraw(e))
  <2>1. PICK e \in Event, s \in {"pending", "cancelled", "expired"} :
          central' = [central EXCEPT ![e] = s]
    BY <1>6 DEF Issue, Withdraw
  <2>2. \A f \in Event : central'[f] = "applied" => central[f] = "applied"
    BY <2>1 DEF IInv, TypeOK
  <2>3. worker' = worker /\ UNCHANGED <<exam, roster, receipts, overrun>>
    BY <1>6 DEF Issue, Withdraw, database, tool
  <2>. QED BY <2>2, <2>3, OneSame
<1>7. CASE TimeUp \/ UNCHANGED vars
  <2>1. worker' = worker /\ central' = central /\ UNCHANGED <<exam, roster, receipts, overrun>>
    BY <1>7 DEF TimeUp, vars, database, tool
  <2>. QED BY <2>1, OneSame
<1>. QED BY <1>1, <1>2, <1>3, <1>4, <1>5, <1>6, <1>7, <1>8 DEF Next

(* What else holds where bundles of one deployment only are pushed.        *)
THEOREM OneInductive ==
  ASSUME OneIsPushed
  PROVE  Spec => []OneInv
<1>1. IInv /\ IInv' /\ OneInv /\ [Next]_vars => OneInv'
  BY OneStep
<1>. QED BY <1>1, OneInitial, Inductive, PTL DEF Spec

(* Where one deployment is pushed, a participant whose event has a receipt *)
(* as applied can log in: no later load takes the row away again, as long  *)
(* as the worker has not overtaken a bundleload beside the node.           *)
THEOREM AppliedStayPresent ==
  ASSUME OneIsPushed
  PROVE  Spec => []AppliedIsPresent
<1>1. OneInv => AppliedIsPresent
  BY DEF OneInv
<1>. QED BY <1>1, OneInductive, PTL

(* Central was told what the node did, also after lost reports and after   *)
(* the node has lost its database.                                         *)
THEOREM CentralAgrees ==
  ASSUME OneIsPushed
  PROVE  Spec => []OutcomeAgrees
<1>1. OneInv => OutcomeAgrees
  BY DEF OneInv
<1>. QED BY <1>1, OneInductive, PTL

(* The roster is what the bundle lists and what the deployment's events    *)
(* have added, and the two have nobody in common.                          *)
LEMMA RosterIs ==
  ASSUME IInv, OneInv, Undisturbed, NEW d, d = exam.deployment, d # None,
         \A e \in Listed[d] : receipts[e] # "applied"
  PROVE  /\ DOMAIN roster = Listed[d] \cup Applied(d)
         /\ Listed[d] \cap Applied(d) = {}
         /\ {e \in DOMAIN roster : roster[e] = 0} = Listed[d]
<1>1. d \in Deployment
  BY DeploymentType DEF IInv
<1>2. /\ Listed[d] \subseteq DOMAIN roster
      /\ \A e \in DOMAIN roster \ Listed[d] : Dep(e) = d
      /\ \A e \in DOMAIN roster : Dep(e) = d =>
           receipts[e] = "applied" /\ roster[e] = Rev(e)
      /\ \A e \in DOMAIN roster : roster[e] # 0 => receipts[e] = "applied"
      /\ DOMAIN roster \subseteq Event
  BY DEF IInv, RowsOK, TypeOK
<1>3. Applied(d) \subseteq DOMAIN roster
  BY DEF OneInv, AppliedIsPresent, Applied
<1>4. \A e \in Event : Rev(e) # 0
  BY EventFacts
<1>5. Listed[d] \cap Applied(d) = {}
  BY <1>1, ListedFacts DEF Applied
<1>6. DOMAIN roster \subseteq Listed[d] \cup Applied(d)
  BY <1>2 DEF Applied
<1>7. {e \in DOMAIN roster : roster[e] = 0} = Listed[d]
  BY <1>2, <1>4
<1>. QED BY <1>2, <1>3, <1>5, <1>6, <1>7

LEMMA PairsOf ==
  ASSUME NEW d, NEW n \in Nat
  PROVE  IsFiniteSet({d} \X (1..n)) /\ Cardinality({d} \X (1..n)) = n
<1>1. IsFiniteSet({d}) /\ Cardinality({d}) = 1
  BY FS_Singleton
<1>2. IsFiniteSet(1..n) /\ Cardinality(1..n) = n
  BY FS_Interval
<1>3. /\ IsFiniteSet({d} \X (1..n))
      /\ Cardinality({d} \X (1..n)) = Cardinality({d}) * Cardinality(1..n)
  BY ONLY <1>1, <1>2, FS_Product, Zenon
<1>4. Cardinality({d}) * Cardinality(1..n) = 1 * n
  BY ONLY <1>1, <1>2, Zenon
<1>5. 1 * n = n
  BY SMT
<1>. QED BY ONLY <1>3, <1>4, <1>5, Zenon

(* Where one deployment is pushed, preflight passes with the counts of the *)
(* bundle and of those added since, whatever went before but a bundleload  *)
(* beside the node that the worker has overtaken.                          *)
THEOREM PreflightAlwaysPasses ==
  ASSUME OneIsPushed
  PROVE  Spec => []PreflightPasses
<1>1. IInv /\ OneInv => PreflightPasses
  <2>. DEFINE d == exam.deployment
              n == exam.revision
  <2>. SUFFICES ASSUME IInv, OneInv, Undisturbed, d # None,
                       \A e \in Listed[d] : receipts[e] # "applied"
       PROVE  Preflight(Cardinality(Listed[d]) + Cardinality(Applied(d)),
                        Cardinality(Listed[d]), n)
    BY DEF PreflightPasses
  <2>1. d \in Deployment /\ n \in Nat /\ n <= Last[d] /\ Last[d] \in Nat
    BY DeploymentType, RosterAssumption DEF IInv, RowsOK, TypeOK
  <2>2. IsFiniteSet(Listed[d]) /\ Cardinality(Listed[d]) \in Nat
    BY <2>1, ListedFacts, FS_CardinalityType
  <2>3. IsFiniteSet(Applied(d)) /\ Cardinality(Applied(d)) \in Nat
    <3>1. Applied(d) \subseteq {d} \X (1..Last[d])
      BY EventFacts DEF Applied
    <3>2. IsFiniteSet({d} \X (1..Last[d]))
      BY <2>1, PairsOf
    <3>3. IsFiniteSet(Applied(d))
      BY <3>1, <3>2, FS_Subset
    <3>. QED BY <3>3, FS_CardinalityType
  <2>4. Cardinality(DOMAIN roster) = Cardinality(Listed[d]) + Cardinality(Applied(d))
    <3>1. Listed[d] \cap Applied(d) = {} /\ DOMAIN roster = Listed[d] \cup Applied(d)
      BY RosterIs
    <3>2. Cardinality(Listed[d] \cup Applied(d))
            = Cardinality(Listed[d]) + Cardinality(Applied(d))
                - Cardinality(Listed[d] \cap Applied(d))
      BY <2>2, <2>3, FS_Union
    <3>3. Cardinality({}) = 0
      BY FS_EmptySet
    <3>4. Cardinality(DOMAIN roster) = Cardinality(Listed[d] \cup Applied(d))
      BY <3>1
    <3>5. Cardinality(Listed[d] \cap Applied(d)) = 0
      BY <3>1, <3>3
    <3>. QED BY <2>2, <2>3, <3>2, <3>4, <3>5
  <2>5. {e \in Event : Dep(e) = d /\ Rev(e) <= n /\ receipts[e] # "none"}
          = {d} \X (1..n)
    <3>1. \A k \in 1..n : /\ <<d, k>> \in Event /\ Dep(<<d, k>>) = d
                          /\ Rev(<<d, k>>) = k /\ receipts[<<d, k>>] # "none"
      <4>1. 1..n \subseteq 1..Last[d]
        BY <2>1
      <4>. QED BY <2>1, <4>1, EventOf DEF IInv, RowsOK
    <3>2. \A e \in Event : Dep(e) = d /\ Rev(e) <= n => e \in {d} \X (1..n)
      BY <2>1, EventFacts
    <3>. QED BY <3>1, <3>2
  <2>6. HashAgrees
    BY DEF IInv, RowsOK
  <2>7. Cardinality({d} \X (1..n)) = n
    BY <2>1, PairsOf
  <2>8. {e \in DOMAIN roster : roster[e] = 0} = Listed[d]
    BY RosterIs
  <2>9. Cardinality({e \in Event : Dep(e) = exam.deployment /\ Rev(e) <= n
                                     /\ receipts[e] # "none"}) = n
    BY <2>5, <2>7
  <2>10. Cardinality({e \in DOMAIN roster : roster[e] = 0}) = Cardinality(Listed[d])
    BY <2>8
  <2>11. exam.revision = n
    OBVIOUS
  <2>. HIDE DEF d, n
  <2>. QED BY <2>4, <2>6, <2>9, <2>10, <2>11 DEF Preflight
<1>. QED BY <1>1, Inductive, OneInductive, PTL
=============================================================================
