-------------------------- MODULE ExamHarvestProofs -------------------------
(***************************************************************************)
(* Proofs about ExamHarvest for any attempts, deployments, batch size and  *)
(* number of drainers, and any bounds.                                     *)
(***************************************************************************)
EXTENDS ExamHarvest, FiniteSetTheorems, TLAPS

(* Facts about the rows on their own.                                      *)
RowsOK ==
  \A a \in AttemptId :
    /\ attempt[a].saves >= attempt[a].atFinish
    /\ attempt[a].harvested => attempt[a].status = "finished"

(* A record names an attempt that was finished at the record's generation. *)
WasFinished(r, rows) ==
  /\ r.generation <= rows[r.id].generation
  /\ r.generation = rows[r.id].generation => rows[r.id].status = "finished"

AllFinished(rows) == \A a \in AttemptId : rows[a].status = "finished"

Same(r, a, rows) == r.id = a /\ r.generation = rows[a].generation

(* What a drain holds between two of its steps, against the tables.        *)
DrainOK(q, rows, stored, past) ==
  /\ IsFiniteSet(q.listed)
  /\ \A l \in q.listed : WasFinished(l, rows)
  /\ \A p \in q.batch :
       /\ WasFinished(p, rows)
       /\ p.generation = rows[p.id].generation =>
            p.saves >= rows[p.id].atFinish
  /\ q.pc = "mark" =>
       \A p \in q.batch : p.id \in q.accepted \ q.failures => p \in stored
  /\ q.pc \in {"idle", "list", "push"} => ~q.last /\ q.batch = {}
  /\ q.pc \in {"wait", "mark"} => q.dep \in Deployment
  /\ q.late => past /\ AllFinished(rows)
  /\ q.late /\ q.final /\ q.pc \in {"push", "wait", "mark"} =>
       \A a \in AttemptId :
         DeploymentOf[a] \in Deployment =>
           rows[a].harvested \/ \E l \in q.listed : Same(l, a, rows)
  /\ q.last =>
       /\ q.final
       /\ \A l \in q.listed :
            DeploymentOf[l.id] = q.dep =>
              \E p \in q.batch : p.id = l.id /\ p.generation = l.generation

ClosedIsOver == closed # {} => over

IInv == /\ TypeOK
        /\ RowsOK
        /\ HarvestedIsAtCentral
        /\ FinalIsComplete
        /\ ClosedIsOver
        /\ \A d \in Drainer : DrainOK(drain[d], attempt, central, over)

-----------------------------------------------------------------------------
(* How the attempt table changes while a drain waits: a row keeps what was *)
(* finished until it is reopened with a higher generation, and after the   *)
(* due time it is not reopened.                                            *)
Evolves(rows) ==
  /\ rows \in [AttemptId -> Row]
  /\ \A a \in AttemptId :
       /\ rows[a].saves >= rows[a].atFinish
       /\ rows[a].harvested => rows[a].status = "finished"
       /\ rows[a].generation >= attempt[a].generation
       /\ rows[a].generation = attempt[a].generation =>
            /\ attempt[a].status = "finished" =>
                 /\ rows[a].status = "finished"
                 /\ rows[a].atFinish = attempt[a].atFinish
            /\ attempt[a].harvested => rows[a].harvested
       /\ over => rows[a].generation = attempt[a].generation

(* Nothing is newly marked as harvested.                                   *)
Unmarked(rows) ==
  \A a \in AttemptId :
    rows[a].harvested =>
      /\ attempt[a].harvested
      /\ rows[a].generation = attempt[a].generation

LEMMA KeepEvolves ==
  ASSUME TypeOK, RowsOK
  PROVE  Evolves(attempt) /\ Unmarked(attempt)
BY DEF TypeOK, RowsOK, Row, Evolves, Unmarked

LEMMA FinalizedEvolves ==
  ASSUME TypeOK, RowsOK, NEW as
  PROVE  Evolves(Finalized(as)) /\ Unmarked(Finalized(as))
<1>. DEFINE F == Finalized(as)
<1>1. ASSUME NEW a \in AttemptId
      PROVE  /\ F[a] \in Row
             /\ \/ F[a] = attempt[a]
                \/ /\ attempt[a].status = "in_progress"
                   /\ F[a].status = "finished"
                   /\ F[a].generation = attempt[a].generation
                   /\ F[a].harvested = attempt[a].harvested
                   /\ F[a].saves = attempt[a].saves
                   /\ F[a].atFinish = attempt[a].saves
  BY DEF TypeOK, Row, Finalized
<1>2. F \in [AttemptId -> Row]
  BY <1>1 DEF Finalized
<1>3. \A a \in AttemptId : attempt[a] \in Row
  BY DEF TypeOK
<1>. HIDE DEF F
<1>4. Evolves(F) /\ Unmarked(F)
  BY <1>1, <1>2, <1>3 DEF Row, RowsOK, Evolves, Unmarked
<1>. QED
  BY <1>4 DEF F

LEMMA SaveEvolves ==
  ASSUME TypeOK, RowsOK, NEW a \in AttemptId, Save(a)
  PROVE  Evolves(attempt') /\ Unmarked(attempt')
BY DEF TypeOK, RowsOK, Row, Evolves, Unmarked, Save

LEMMA ResetEvolves ==
  ASSUME TypeOK, RowsOK, NEW a \in AttemptId, Reset(a)
  PROVE  Evolves(attempt') /\ Unmarked(attempt')
BY DEF TypeOK, RowsOK, Row, Evolves, Unmarked, Reset

(* What a drain holds stays true when the tables evolve.                   *)
LEMMA DrainKept ==
  ASSUME TypeOK, NEW q \in Drain, NEW rows, NEW stored, NEW past \in BOOLEAN,
         DrainOK(q, attempt, central, over), Evolves(rows),
         central \subseteq stored, over => past
  PROVE  DrainOK(q, rows, stored, past)
<1>. DEFINE Sound(r) == r.generation \in Nat /\ r.id \in AttemptId
<1>1. /\ \A l \in q.listed : Sound(l)
      /\ \A p \in q.batch : Sound(p)
  BY DEF Drain, Listed, Payload
<1>2. ASSUME NEW r, Sound(r), WasFinished(r, attempt)
      PROVE  /\ WasFinished(r, rows)
             /\ r.generation = rows[r.id].generation =>
                  /\ r.generation = attempt[r.id].generation
                  /\ rows[r.id].atFinish = attempt[r.id].atFinish
  <2>. DEFINE old == attempt[r.id]
              new == rows[r.id]
  <2>1. /\ r.generation \in Nat /\ old.generation \in Nat
        /\ new.generation \in Nat /\ new.generation >= old.generation
        /\ new.generation = old.generation /\ old.status = "finished" =>
             new.status = "finished" /\ new.atFinish = old.atFinish
    BY <1>2 DEF TypeOK, Row, Evolves
  <2>2. /\ r.generation <= old.generation
        /\ r.generation = old.generation => old.status = "finished"
    BY <1>2 DEF WasFinished
  <2>. HIDE DEF old, new
  <2>3. /\ r.generation <= new.generation
        /\ r.generation = new.generation =>
             /\ new.status = "finished"
             /\ r.generation = old.generation
             /\ new.atFinish = old.atFinish
    BY <2>1, <2>2
  <2>. QED
    BY <2>3 DEF WasFinished, old, new
<1>3. \A l \in q.listed : WasFinished(l, rows)
  BY <1>1, <1>2 DEF DrainOK
<1>4. \A p \in q.batch :
        /\ WasFinished(p, rows)
        /\ p.generation = rows[p.id].generation =>
             p.saves >= rows[p.id].atFinish
  BY <1>1, <1>2 DEF DrainOK
<1>5. q.pc = "mark" =>
        \A p \in q.batch : p.id \in q.accepted \ q.failures => p \in stored
  BY DEF DrainOK
<1>6. q.late => past /\ AllFinished(rows)
  BY DEF DrainOK, AllFinished, Evolves
<1>7. q.late /\ q.final /\ q.pc \in {"push", "wait", "mark"} =>
        \A a \in AttemptId :
          DeploymentOf[a] \in Deployment =>
            rows[a].harvested \/ \E l \in q.listed : Same(l, a, rows)
  BY DEF DrainOK, AllFinished, Evolves, Same
<1>. QED
  BY <1>3, <1>4, <1>5, <1>6, <1>7 DEF DrainOK

(* The tables' own invariants when nothing is newly marked and Central     *)
(* closes no deployment.                                                   *)
TablesOK == RowsOK /\ HarvestedIsAtCentral /\ FinalIsComplete /\ ClosedIsOver

LEMMA TablesKept ==
  ASSUME TypeOK, TablesOK, Evolves(attempt'), Unmarked(attempt'),
         central \subseteq central', over => over', closed' = closed
  PROVE  TablesOK'
<1>1. RowsOK'
  BY DEF RowsOK, Evolves
<1>2. HarvestedIsAtCentral'
  <2>1. SUFFICES ASSUME NEW a \in AttemptId, attempt'[a].harvested
                 PROVE  \E p \in central' :
                          /\ p.id = a
                          /\ p.generation = attempt'[a].generation
                          /\ p.saves >= attempt'[a].atFinish
    BY DEF HarvestedIsAtCentral
  <2>2. /\ attempt[a].harvested
        /\ attempt'[a].generation = attempt[a].generation
        /\ attempt'[a].atFinish = attempt[a].atFinish
    BY <2>1 DEF Unmarked, Evolves, TablesOK, RowsOK
  <2>. QED
    BY <2>2 DEF TablesOK, HarvestedIsAtCentral
<1>3. FinalIsComplete' /\ ClosedIsOver'
  <2>1. ASSUME NEW a \in AttemptId, DeploymentOf[a] \in closed
        PROVE  /\ attempt'[a].status = "finished"
               /\ \E p \in central' : /\ p.id = a
                                      /\ p.generation = attempt'[a].generation
    BY <2>1 DEF TablesOK, FinalIsComplete, ClosedIsOver, Evolves
  <2>. QED
    BY <2>1 DEF FinalIsComplete, ClosedIsOver, TablesOK
<1>. QED
  BY <1>1, <1>2, <1>3 DEF TablesOK

-----------------------------------------------------------------------------
(* Types.                                                                  *)

LEMMA IdleType == Idle \in Drain
BY DEF Idle, Drain

LEMMA DrainSet ==
  ASSUME NEW f \in [Drainer -> Drain], NEW d \in Drainer, NEW q \in Drain
  PROVE  /\ [f EXCEPT ![d] = q] \in [Drainer -> Drain]
         /\ [f EXCEPT ![d] = q][d] = q
         /\ \A e \in Drainer \ {d} : [f EXCEPT ![d] = q][e] = f[e]
OBVIOUS

LEMMA MovedOK ==
  ASSUME NEW q \in Drain, NEW problem \in BOOLEAN, q.pc \in {"wait", "mark"},
         DrainOK(q, attempt, central, over)
  PROVE  /\ Moved(q, problem) \in Drain
         /\ DrainOK(Moved(q, problem), attempt, central, over)
<1>1. Moved(q, problem) \in Drain
  BY DEF Moved, Drain
<1>2. LET m == Moved(q, problem) IN
        /\ m.pc = "push" /\ m.batch = {} /\ m.last = FALSE
        /\ m.listed = q.listed /\ m.late = q.late /\ m.final = q.final
  BY DEF Moved, Drain
<1>. QED
  BY <1>1, <1>2 DEF DrainOK

-----------------------------------------------------------------------------
(* The steps of a drain that change its record only.                       *)

DrainsOK == \A d \in Drainer : DrainOK(drain[d], attempt, central, over)

(* A step that evolves the tables and gives drainer d the record q.        *)
LEMMA Step ==
  ASSUME IInv, NEW d \in Drainer, NEW q \in Drain,
         drain' = [drain EXCEPT ![d] = q],
         Evolves(attempt'), central \subseteq central', over' \in BOOLEAN,
         over => over', DrainOK(q, attempt', central', over')
  PROVE  DrainsOK' /\ drain' \in [Drainer -> Drain]
<1>1. drain \in [Drainer -> Drain]
  BY DEF IInv, TypeOK
<1>2. ASSUME NEW e \in Drainer, e # d
      PROVE  DrainOK(drain'[e], attempt', central', over')
  <2>1. drain'[e] = drain[e] /\ drain[e] \in Drain
    BY <1>1, <1>2
  <2>. QED
    BY <2>1, DrainKept DEF IInv
<1>. QED
  BY <1>1, <1>2, DrainSet DEF DrainsOK

(* A step of the rest of the node.                                         *)
LEMMA OtherStep ==
  ASSUME IInv, drain' = drain, Evolves(attempt'), central \subseteq central',
         over' \in BOOLEAN, over => over'
  PROVE  DrainsOK'
<1>1. ASSUME NEW e \in Drainer
      PROVE  DrainOK(drain'[e], attempt', central', over')
  BY DrainKept DEF IInv, TypeOK
<1>. QED
  BY <1>1 DEF DrainsOK

LEMMA IdleOK ==
  ASSUME NEW rows, NEW stored, NEW past
  PROVE  DrainOK(Idle, rows, stored, past)
BY FS_EmptySet DEF Idle, DrainOK

(* SweepFirst: after the due time it leaves every attempt finished.        *)
LEMMA SweepFirstStep ==
  ASSUME IInv, NEW d \in Drainer, NEW final \in BOOLEAN, SweepFirst(d, final)
  PROVE  IInv'
<1>. DEFINE q == [Idle EXCEPT !.pc = "list", !.final = final, !.late = over]
<1>1. Evolves(attempt') /\ Unmarked(attempt')
  BY FinalizedEvolves DEF IInv, SweepFirst
<1>2. q \in Drain
  BY DEF Idle, Drain, IInv, TypeOK
<1>3. over => AllFinished(attempt')
  BY DEF SweepFirst, Expired, Finalized, AllFinished, IInv, TypeOK, Row
<1>4. DrainOK(q, attempt', central', over')
  BY <1>3, FS_EmptySet DEF Idle, DrainOK, SweepFirst
<1>5. DrainsOK' /\ drain' \in [Drainer -> Drain]
  BY <1>1, <1>2, <1>4, Step DEF SweepFirst, IInv, TypeOK
<1>6. TablesOK'
  BY <1>1, TablesKept DEF SweepFirst, IInv, TablesOK
<1>. QED
  BY <1>1, <1>5, <1>6 DEF IInv, TypeOK, TablesOK, DrainsOK, SweepFirst, Evolves

(* List: what a final drain has not listed after the due time is already   *)
(* marked.                                                                 *)
LEMMA ListStep ==
  ASSUME IInv, NEW d \in Drainer, List(d)
  PROVE  IInv'
<1>. DEFINE known == Resolved(Unpushed)
            q == IF Unpushed = {} /\ ~drain[d].final THEN Idle
                 ELSE [drain[d] EXCEPT !.pc = "push", !.listed = known,
                         !.todo = IF drain[d].final THEN Deployment
                                  ELSE {DeploymentOf[l.id] : l \in known},
                         !.issues = known # Unpushed]
<1>0. /\ drain' = [drain EXCEPT ![d] = q]
      /\ UNCHANGED <<over, attempt, central, closed, faults>>
      /\ drain[d].pc = "list" /\ drain[d] \in Drain
      /\ DrainOK(drain[d], attempt, central, over)
  BY DEF List, IInv, TypeOK
<1>1. /\ known \subseteq Listed
      /\ \A l \in known : /\ l.id \in AttemptId
                          /\ l.generation = attempt[l.id].generation
                          /\ attempt[l.id].status = "finished"
                          /\ DeploymentOf[l.id] \in Deployment
  BY HarvestAssumption
     DEF Resolved, Unpushed, Listed, IInv, TypeOK, Row
<1>2. \A a \in AttemptId :
        attempt[a].status = "finished" /\ DeploymentOf[a] \in Deployment =>
          attempt[a].harvested \/ \E l \in known : Same(l, a, attempt)
  <2>1. SUFFICES ASSUME NEW a \in AttemptId,
                        attempt[a].status = "finished", ~attempt[a].harvested,
                        DeploymentOf[a] \in Deployment
                 PROVE  \E l \in known : Same(l, a, attempt)
    OBVIOUS
  <2>2. [id |-> a, generation |-> attempt[a].generation] \in known
    BY <2>1, HarvestAssumption DEF Resolved, Unpushed
  <2>. QED
    BY <2>2 DEF Same
<1>3. IsFiniteSet(known)
  <2>. DEFINE f == [a \in AttemptId |->
                      [id |-> a, generation |-> attempt[a].generation]]
              all == {[id |-> a, generation |-> attempt[a].generation] :
                        a \in AttemptId}
  <2>1. f \in Surjection(AttemptId, all)
    BY DEF Surjection
  <2>2. IsFiniteSet(all)
    BY <2>1, FS_Surjection, HarvestAssumption
  <2>3. known \subseteq all
    BY DEF Resolved, Unpushed
  <2>. QED
    BY <2>2, <2>3, FS_Subset
<1>4. q \in Drain
  <2>1. {DeploymentOf[l.id] : l \in known} \subseteq Deployment
    BY <1>1
  <2>2. ASSUME NEW k \in SUBSET Listed, NEW ds \in SUBSET Deployment,
               NEW b \in BOOLEAN
        PROVE  [drain[d] EXCEPT !.pc = "push", !.listed = k, !.todo = ds,
                                !.issues = b] \in Drain
    BY <1>0 DEF Drain
  <2>. QED
    BY <1>1, <2>1, <2>2, IdleType
<1>5. DrainOK(q, attempt, central, over)
  <2>1. CASE Unpushed = {} /\ ~drain[d].final
    BY <2>1, IdleOK
  <2>2. CASE ~(Unpushed = {} /\ ~drain[d].final)
    <3>1. /\ q.listed = known /\ q.pc = "push" /\ q.batch = drain[d].batch
          /\ q.late = drain[d].late /\ q.final = drain[d].final
          /\ q.last = drain[d].last
      BY <1>0, <2>2 DEF Drain
    <3>2. drain[d].last = FALSE /\ drain[d].batch = {}
      BY <1>0 DEF DrainOK, Drain
    <3>3. \A l \in known : WasFinished(l, attempt)
      BY <1>1 DEF WasFinished, IInv, TypeOK, Row
    <3>. QED
      BY <1>0, <1>1, <1>2, <1>3, <3>1, <3>2, <3>3 DEF DrainOK, AllFinished
  <2>. QED BY <2>1, <2>2
<1>6. DrainsOK' /\ drain' \in [Drainer -> Drain]
  BY <1>0, <1>4, <1>5, KeepEvolves, Step DEF IInv, TypeOK
<1>7. TablesOK'
  BY <1>0, KeepEvolves, TablesKept DEF IInv, TablesOK
<1>. QED
  BY <1>0, <1>6, <1>7 DEF IInv, TypeOK, TablesOK, DrainsOK

(* Push: the batch announced as the last holds the whole group.            *)
LEMMA PushStep ==
  ASSUME IInv, NEW d \in Drainer, NEW dep \in Deployment, Push(d, dep)
  PROVE  IInv'
<1>1. PICK ls \in SUBSET Group(d, dep) :
        /\ Cardinality(ls) = Smaller(Cardinality(Group(d, dep)), MaxBatch)
        /\ drain' = [drain EXCEPT ![d] =
             [@ EXCEPT !.pc = "wait", !.dep = dep, !.last = LastBatch(d, dep),
                       !.batch = {[id |-> l.id, generation |-> l.generation,
                                   saves |-> attempt[l.id].saves] : l \in ls}]]
  BY DEF Push
<1>. DEFINE batch == {[id |-> l.id, generation |-> l.generation,
                       saves |-> attempt[l.id].saves] : l \in ls}
            last == LastBatch(d, dep)
            q == [drain[d] EXCEPT !.pc = "wait", !.dep = dep, !.last = last,
                                  !.batch = batch]
<1>2. /\ drain' = [drain EXCEPT ![d] = q]
      /\ UNCHANGED <<over, attempt, central, closed, faults>>
      /\ drain[d] \in Drain /\ drain[d].pc = "push"
      /\ DrainOK(drain[d], attempt, central, over)
  BY <1>1 DEF Push, IInv, TypeOK
<1>3. /\ Group(d, dep) \subseteq drain[d].listed
      /\ drain[d].listed \subseteq Listed
  BY <1>2 DEF Group, Drain
<1>4. ASSUME NEW l \in ls
      PROVE  /\ l.id \in AttemptId /\ l.generation \in Nat
             /\ WasFinished(l, attempt)
             /\ attempt[l.id].saves \in Nat
             /\ attempt[l.id].saves >= attempt[l.id].atFinish
  BY <1>2, <1>3 DEF DrainOK, Listed, IInv, TypeOK, RowsOK, Row
<1>5. batch \subseteq Payload
  BY <1>4 DEF Payload
<1>6. \A p \in batch : /\ WasFinished(p, attempt)
                       /\ p.saves >= attempt[p.id].atFinish
  BY <1>4 DEF WasFinished
<1>7. last \in BOOLEAN
  BY <1>2 DEF LastBatch, Drain
<1>8. last => /\ drain[d].final
              /\ \A l \in drain[d].listed :
                   DeploymentOf[l.id] = dep =>
                     \E p \in batch :
                       p.id = l.id /\ p.generation = l.generation
  <2>0. \A l \in ls : \E p \in batch :
          p.id = l.id /\ p.generation = l.generation
    <3>1. SUFFICES ASSUME NEW l \in ls
                   PROVE  \E p \in batch :
                            p.id = l.id /\ p.generation = l.generation
      OBVIOUS
    <3>2. [id |-> l.id, generation |-> l.generation,
           saves |-> attempt[l.id].saves] \in batch
      OBVIOUS
    <3>. QED
      BY <3>2
  <2>1. SUFFICES ASSUME last
                 PROVE  /\ drain[d].final
                        /\ \A l \in drain[d].listed :
                             DeploymentOf[l.id] = dep => l \in ls
    BY <2>0
  <2>2. IsFiniteSet(Group(d, dep))
    BY <1>2, <1>3, FS_Subset DEF DrainOK
  <2>3. Cardinality(Group(d, dep)) \in Nat
    BY <2>2, FS_CardinalityType
  <2>4. Cardinality(ls) = Cardinality(Group(d, dep))
    <3>1. Cardinality(Group(d, dep)) <= MaxBatch
      BY <2>1 DEF LastBatch
    <3>2. \A n \in Nat : n <= MaxBatch => Smaller(n, MaxBatch) = n
      BY HarvestAssumption DEF Smaller
    <3>. QED
      BY <1>1, <2>3, <3>1, <3>2
  <2>5. ls = Group(d, dep)
    BY <2>2, <2>4, FS_Subset
  <2>. QED
    BY <2>1, <2>5 DEF Group, LastBatch
<1>9. /\ q \in Drain
      /\ q.pc = "wait" /\ q.dep = dep /\ q.last = last /\ q.batch = batch
      /\ q.listed = drain[d].listed /\ q.late = drain[d].late
      /\ q.final = drain[d].final
  <2>. HIDE DEF batch, last
  <2>. QED
    BY <1>2, <1>5, <1>7 DEF Drain
<1>10. DrainOK(q, attempt, central, over)
  <2>. HIDE DEF batch, last, q
  <2>. QED
    BY <1>2, <1>6, <1>8, <1>9 DEF DrainOK
<1>11. DrainsOK' /\ drain' \in [Drainer -> Drain]
  BY <1>2, <1>9, <1>10, KeepEvolves, Step DEF IInv, TypeOK
<1>12. TablesOK'
  BY <1>2, KeepEvolves, TablesKept DEF IInv, TablesOK
<1>. QED
  BY <1>2, <1>11, <1>12 DEF IInv, TypeOK, TablesOK, DrainsOK

(* Central stores part of a batch: a deployment is closed only when        *)
(* everything of it is there.                                              *)
LEMMA StoreTables ==
  ASSUME IInv, NEW d \in Drainer, NEW ids, drain[d].pc = "wait",
         Store(d, ids), UNCHANGED <<over, attempt>>
  PROVE  /\ TablesOK'
         /\ central \subseteq central'
         /\ central' \subseteq Payload
         /\ closed' \subseteq Deployment
<1>. DEFINE q == drain[d]
<1>1. q \in Drain /\ DrainOK(q, attempt, central, over)
  BY DEF IInv, TypeOK
<1>2. /\ central \subseteq central'
      /\ central' \subseteq Payload
      /\ closed' \subseteq Deployment
  BY <1>1 DEF Store, Drain, DrainOK, IInv, TypeOK
<1>3. RowsOK'
  BY DEF IInv, RowsOK
<1>4. HarvestedIsAtCentral'
  BY <1>2 DEF IInv, HarvestedIsAtCentral
<1>5. ClosedIsOver'
  BY <1>1 DEF Store, DrainOK, ClosedIsOver, IInv
<1>6. ASSUME NEW a \in AttemptId, DeploymentOf[a] \in closed'
      PROVE  /\ attempt[a].status = "finished"
             /\ \E p \in central' : /\ p.id = a
                                    /\ p.generation = attempt[a].generation
  <2>1. CASE DeploymentOf[a] \in closed
    BY <1>2, <2>1 DEF IInv, FinalIsComplete
  <2>2. CASE DeploymentOf[a] \notin closed
    <3>1. /\ q.last /\ q.late /\ q.final /\ q.dep \in Deployment
          /\ DeploymentOf[a] = q.dep /\ Ids(q.batch) \subseteq ids
          /\ attempt[a].status = "finished"
      BY <1>1, <1>6, <2>2 DEF Store, DrainOK, AllFinished
    <3>2. CASE attempt[a].harvested
      BY <1>2, <3>1, <3>2 DEF IInv, HarvestedIsAtCentral
    <3>3. CASE ~attempt[a].harvested
      <4>1. PICK l \in q.listed : Same(l, a, attempt)
        BY <1>1, <3>1, <3>3 DEF DrainOK
      <4>2. PICK p \in q.batch : p.id = l.id /\ p.generation = l.generation
        BY <1>1, <3>1, <4>1 DEF DrainOK, Same
      <4>3. p \in central'
        BY <3>1, <4>2 DEF Store, Ids
      <4>. QED
        BY <3>1, <4>1, <4>2, <4>3 DEF Same
    <3>. QED BY <3>2, <3>3
  <2>. QED BY <2>1, <2>2
<1>7. FinalIsComplete'
  BY <1>6 DEF FinalIsComplete
<1>. QED
  BY <1>2, <1>3, <1>4, <1>5, <1>7 DEF TablesOK

LEMMA RespondStep ==
  ASSUME IInv, NEW d \in Drainer, NEW accepted \in SUBSET AttemptId,
         NEW failures \in SUBSET AttemptId, Respond(d, accepted, failures)
  PROVE  IInv'
<1>. DEFINE q == [drain[d] EXCEPT !.pc = "mark", !.accepted = accepted,
                                  !.failures = failures]
<1>1. /\ drain' = [drain EXCEPT ![d] = q]
      /\ UNCHANGED <<over, attempt>>
      /\ drain[d].pc = "wait" /\ drain[d] \in Drain
      /\ DrainOK(drain[d], attempt, central, over)
      /\ Store(d, accepted \ failures)
      /\ faults' \in Nat
  BY DEF Respond, IInv, TypeOK
<1>2. /\ TablesOK' /\ central \subseteq central'
      /\ central' \subseteq Payload /\ closed' \subseteq Deployment
  BY <1>1, StoreTables
<1>3. /\ q \in Drain /\ q.pc = "mark" /\ q.batch = drain[d].batch
      /\ q.accepted = accepted /\ q.failures = failures
      /\ q.listed = drain[d].listed /\ q.late = drain[d].late
      /\ q.final = drain[d].final /\ q.last = drain[d].last
      /\ q.dep = drain[d].dep
  BY <1>1 DEF Drain
<1>4. \A p \in q.batch : p.id \in q.accepted \ q.failures => p \in central'
  BY <1>1, <1>3 DEF Store
<1>. HIDE DEF q
<1>5. DrainOK(q, attempt', central', over')
  BY <1>1, <1>3, <1>4 DEF DrainOK
<1>6. DrainsOK' /\ drain' \in [Drainer -> Drain]
  BY <1>1, <1>2, <1>3, <1>5, KeepEvolves, Step DEF IInv, TypeOK
<1>. QED
  BY <1>1, <1>2, <1>6 DEF IInv, TypeOK, TablesOK, DrainsOK

LEMMA NoAnswerStep ==
  ASSUME IInv, NEW d \in Drainer, NoAnswer(d)
  PROVE  IInv'
<1>1. PICK ids \in SUBSET AttemptId : Store(d, ids)
  BY DEF NoAnswer
<1>2. /\ UNCHANGED <<over, attempt>>
      /\ drain[d].pc = "wait" /\ drain[d] \in Drain
      /\ DrainOK(drain[d], attempt, central, over)
      /\ drain' = [drain EXCEPT ![d] = Moved(drain[d], TRUE)]
      /\ faults' \in Nat
  BY DEF NoAnswer, NextDeployment, IInv, TypeOK
<1>3. /\ TablesOK' /\ central \subseteq central'
      /\ central' \subseteq Payload /\ closed' \subseteq Deployment
  BY <1>1, <1>2, StoreTables
<1>4. /\ Moved(drain[d], TRUE) \in Drain
      /\ DrainOK(Moved(drain[d], TRUE), attempt, central, over)
  BY <1>2, MovedOK
<1>5. DrainOK(Moved(drain[d], TRUE), attempt', central', over')
  BY <1>2, <1>3, <1>4, KeepEvolves, DrainKept DEF IInv, TypeOK
<1>6. DrainsOK' /\ drain' \in [Drainer -> Drain]
  BY <1>2, <1>3, <1>4, <1>5, KeepEvolves, Step DEF IInv, TypeOK
<1>. QED
  BY <1>2, <1>3, <1>6 DEF IInv, TypeOK, TablesOK, DrainsOK

LEMMA CrashStep ==
  ASSUME IInv, NEW d \in Drainer, Crash(d)
  PROVE  IInv'
<1>1. /\ UNCHANGED <<over, attempt>>
      /\ drain' = [drain EXCEPT ![d] = Idle]
      /\ faults' \in Nat
  BY DEF Crash, IInv, TypeOK
<1>2. /\ TablesOK' /\ central \subseteq central'
      /\ central' \subseteq Payload /\ closed' \subseteq Deployment
  <2>1. CASE UNCHANGED <<central, closed>>
    <3>1. TablesOK'
      BY <1>1, <2>1, KeepEvolves, TablesKept DEF IInv, TablesOK
    <3>. QED
      BY <2>1, <3>1 DEF IInv, TypeOK
  <2>2. CASE drain[d].pc = "wait" /\ \E ids \in SUBSET AttemptId : Store(d, ids)
    BY <1>1, <2>2, StoreTables
  <2>. QED
    BY <2>1, <2>2 DEF Crash
<1>3. DrainsOK' /\ drain' \in [Drainer -> Drain]
  BY <1>1, <1>2, IdleType, IdleOK, KeepEvolves, Step DEF IInv, TypeOK
<1>. QED
  BY <1>1, <1>2, <1>3 DEF IInv, TypeOK, TablesOK, DrainsOK

LEMMA EndDrainStep ==
  ASSUME IInv, NEW d \in Drainer, EndDrain(d)
  PROVE  IInv'
<1>1. /\ UNCHANGED <<over, attempt, central, closed, faults>>
      /\ drain' = [drain EXCEPT ![d] = Idle]
  BY DEF EndDrain
<1>2. TablesOK'
  BY <1>1, KeepEvolves, TablesKept DEF IInv, TablesOK
<1>3. DrainsOK' /\ drain' \in [Drainer -> Drain]
  BY <1>1, IdleType, IdleOK, KeepEvolves, Step DEF IInv, TypeOK
<1>. QED
  BY <1>1, <1>2, <1>3 DEF IInv, TypeOK, TablesOK, DrainsOK

(* Mark: what is marked is at Central, at its current generation.          *)
LEMMA MarkStep ==
  ASSUME IInv, NEW d \in Drainer, Mark(d)
  PROVE  IInv'
<1>. DEFINE ids == Markable(d)
            problem == \/ ids # Accepted(d)
                       \/ drain[d].last /\ drain[d].failures # {}
<1>1. /\ UNCHANGED <<over, central, closed, faults>>
      /\ attempt' = [a \in AttemptId |->
           IF a \in ids THEN [attempt[a] EXCEPT !.harvested = TRUE]
           ELSE attempt[a]]
      /\ drain[d].pc = "mark" /\ drain[d] \in Drain
      /\ DrainOK(drain[d], attempt, central, over)
      /\ drain' = [drain EXCEPT ![d] = Moved(drain[d], problem)]
  BY DEF Mark, NextDeployment, IInv, TypeOK
<1>2. \A a \in AttemptId :
        /\ attempt[a] \in Row /\ attempt'[a] \in Row
        /\ attempt'[a].status = attempt[a].status
        /\ attempt'[a].generation = attempt[a].generation
        /\ attempt'[a].saves = attempt[a].saves
        /\ attempt'[a].atFinish = attempt[a].atFinish
        /\ attempt'[a].harvested <=> attempt[a].harvested \/ a \in ids
  BY <1>1 DEF IInv, TypeOK, Row
<1>3. ASSUME NEW a \in AttemptId, a \in ids
      PROVE  /\ attempt[a].status = "finished"
             /\ \E p \in central : /\ p.id = a
                                   /\ p.generation = attempt[a].generation
                                   /\ p.saves >= attempt[a].atFinish
  <2>1. PICK p \in drain[d].batch :
          /\ p.id = a /\ a \in Accepted(d)
          /\ attempt[a].generation = p.generation
          /\ attempt[a].status = "finished"
    BY <1>3 DEF Markable
  <2>2. p \in central
    BY <1>1, <2>1 DEF DrainOK, Accepted
  <2>. QED
    BY <1>1, <2>1, <2>2 DEF DrainOK
<1>4. attempt' \in [AttemptId -> Row]
  BY <1>1, <1>2
<1>5. Evolves(attempt')
  BY <1>2, <1>3, <1>4 DEF Evolves, IInv, RowsOK, Row
<1>6. RowsOK'
  BY <1>5 DEF RowsOK, Evolves
<1>7. HarvestedIsAtCentral'
  BY <1>1, <1>2, <1>3 DEF IInv, HarvestedIsAtCentral
<1>8. FinalIsComplete' /\ ClosedIsOver'
  BY <1>1, <1>2 DEF IInv, FinalIsComplete, ClosedIsOver
<1>9. /\ Moved(drain[d], problem) \in Drain
      /\ DrainOK(Moved(drain[d], problem), attempt, central, over)
  BY <1>1, MovedOK
<1>10. DrainOK(Moved(drain[d], problem), attempt', central', over')
  BY <1>1, <1>5, <1>9, DrainKept DEF IInv, TypeOK
<1>11. DrainsOK' /\ drain' \in [Drainer -> Drain]
  BY <1>1, <1>5, <1>9, <1>10, Step DEF IInv, TypeOK
<1>. QED
  BY <1>1, <1>4, <1>6, <1>7, <1>8, <1>11 DEF IInv, TypeOK, DrainsOK

-----------------------------------------------------------------------------
(* The steps of the rest of the node, and sweeps that fail.                *)

LEMMA RowStep ==
  ASSUME IInv, Evolves(attempt'), Unmarked(attempt'), over' \in BOOLEAN,
         over => over', faults' \in Nat, UNCHANGED <<drain, central, closed>>
  PROVE  IInv'
<1>1. TablesOK'
  BY TablesKept DEF IInv, TablesOK
<1>2. DrainsOK'
  BY OtherStep
<1>. QED
  BY <1>1, <1>2 DEF IInv, TypeOK, TablesOK, DrainsOK, Evolves

LEMMA NodeStep ==
  ASSUME IInv, NEW a \in AttemptId, Save(a) \/ Finish(a) \/ Reset(a)
  PROVE  IInv'
<1>1. Evolves(attempt') /\ Unmarked(attempt')
  BY SaveEvolves, FinalizedEvolves, ResetEvolves DEF IInv, Finish
<1>2. UNCHANGED <<over, drain, central, closed, faults>>
  BY DEF Save, Finish, Reset
<1>. QED
  BY <1>1, <1>2, RowStep DEF IInv, TypeOK

LEMMA OverStep ==
  ASSUME IInv, Over
  PROVE  IInv'
BY KeepEvolves, RowStep DEF Over, IInv, TypeOK

LEMMA SweepFailsStep ==
  ASSUME IInv, NEW d \in Drainer, SweepFails(d)
  PROVE  IInv'
<1>1. PICK as \in SUBSET Expired : attempt' = Finalized(as)
  BY DEF SweepFails
<1>2. Evolves(attempt') /\ Unmarked(attempt')
  BY <1>1, FinalizedEvolves DEF IInv
<1>3. UNCHANGED <<over, drain, central, closed>> /\ faults' \in Nat
  BY DEF SweepFails, IInv, TypeOK
<1>. QED
  BY <1>2, <1>3, RowStep DEF IInv, TypeOK

LEMMA InitStep == Init => IInv
<1>. SUFFICES ASSUME Init PROVE IInv
  OBVIOUS
<1>1. TypeOK
  BY IdleType DEF Init, TypeOK, Row
<1>2. RowsOK /\ HarvestedIsAtCentral /\ FinalIsComplete /\ ClosedIsOver
  BY DEF Init, RowsOK, HarvestedIsAtCentral, FinalIsComplete, ClosedIsOver
<1>3. \A d \in Drainer : DrainOK(drain[d], attempt, central, over)
  BY IdleOK DEF Init
<1>. QED
  BY <1>1, <1>2, <1>3 DEF IInv

LEMMA NextStep ==
  ASSUME IInv, [Next]_vars
  PROVE  IInv'
<1>1. CASE UNCHANGED vars
  BY <1>1, KeepEvolves, RowStep DEF vars, IInv, TypeOK
<1>2. CASE Over
  BY <1>2, OverStep
<1>3. ASSUME NEW a \in AttemptId, Save(a) \/ Finish(a) \/ Reset(a)
      PROVE  IInv'
  BY <1>3, NodeStep
<1>4. ASSUME NEW d \in Drainer,
             DrainSteps(d) \/ SweepFails(d) \/ NoAnswer(d) \/ Crash(d)
      PROVE  IInv'
  <2>1. CASE \E final \in BOOLEAN : SweepFirst(d, final)
    BY <2>1, SweepFirstStep
  <2>2. CASE List(d)
    BY <2>2, ListStep
  <2>3. CASE \E dep \in Deployment : Push(d, dep)
    BY <2>3, PushStep
  <2>4. CASE \E accepted, failures \in SUBSET AttemptId :
               Respond(d, accepted, failures)
    BY <2>4, RespondStep
  <2>5. CASE Mark(d)
    BY <2>5, MarkStep
  <2>6. CASE EndDrain(d)
    BY <2>6, EndDrainStep
  <2>7. CASE SweepFails(d) \/ NoAnswer(d) \/ Crash(d)
    BY <2>7, SweepFailsStep, NoAnswerStep, CrashStep
  <2>. QED
    BY <1>4, <2>1, <2>2, <2>3, <2>4, <2>5, <2>6, <2>7 DEF DrainSteps
<1>. QED
  BY <1>1, <1>2, <1>3, <1>4 DEF Next

-----------------------------------------------------------------------------
(* The invariant holds of every behaviour.                                 *)
THEOREM Inductive == Spec => []IInv
BY InitStep, NextStep, PTL DEF Spec

(* Every variable keeps its type.                                          *)
THEOREM TypeCorrect == Spec => []TypeOK
<1>1. IInv => TypeOK
  BY DEF IInv
<1>. QED
  BY <1>1, Inductive, PTL

(* Central has what is marked harvested, at its current generation and     *)
(* with every answer from before it was finished: MarkAttemptsHarvested-   *)
(* ForGeneration compares the generation that was sent.                    *)
THEOREM MarkedIsAtCentral == Spec => []HarvestedIsAtCentral
<1>1. IInv => HarvestedIsAtCentral
  BY DEF IInv
<1>. QED
  BY <1>1, Inductive, PTL

(* A deployment whose last batch of a final drain after the exam was taken *)
(* is at Central with every attempt: the flag is only on a batch that      *)
(* holds the whole group.                                                  *)
THEOREM LastBatchCompletes == Spec => []FinalIsComplete
<1>1. IInv => FinalIsComplete
  BY DEF IInv
<1>. QED
  BY <1>1, Inductive, PTL
=============================================================================
