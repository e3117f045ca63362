--------------------------- MODULE NodePartsProofs ---------------------------
(* Proofs about the deployment fence, the schema migrations, and bundles   *)
(* pushed while students start.                                            *)
EXTENDS DeploymentFence, Migrations, Enrolment, TLAPS

-----------------------------------------------------------------------------
(* The fence.  A fence that Central counts on, or is about to, has its row *)
(* marked, unless a load has replaced the row since.                       *)
Kept(d) == d \in replaced \/ exam = [deployment |-> d, fenced |-> TRUE]

ReconcilerOK ==
  /\ \A d \in reconciler.todo : fence[d] = "pending"
  /\ reconciler.pc = "ack" => /\ reconciler.dep \in reconciler.todo
                              /\ Kept(reconciler.dep)

AckedKept == \A d \in Deployment : fence[d] = "acked" => Kept(d)

ClientOK(c) ==
  /\ client[c].dep = NoDeployment => client[c] = NoRequest
  /\ client[c] # NoRequest /\ ~client[c].early =>
       fence[client[c].dep] = "acked" /\ client[c].dep \in replaced

FenceInv ==
  /\ FenceTypeOK
  /\ AckedKept
  /\ ReconcilerOK
  /\ \A c \in Client : ClientOK(c)

LEMMA FenceInitial == FenceInit => FenceInv
BY FenceAssumption
   DEF FenceInit, FenceInv, FenceTypeOK, AckedKept, ReconcilerOK, ClientOK,
       Resting, NoRequest

LEMMA FenceStep == FenceInv /\ [FenceNext]_fenceVars => FenceInv'
<1>. SUFFICES ASSUME FenceInv, [FenceNext]_fenceVars
              PROVE  FenceInv'
  OBVIOUS
<1>. USE FenceAssumption DEF FenceInv
<1>1. CASE ListFences
  BY <1>1 DEF ListFences, FenceTypeOK, AckedKept, ReconcilerOK, ClientOK, Kept,
              Resting
<1>2. ASSUME NEW d \in Deployment, Mark(d)
      PROVE  FenceInv'
  <2>1. CASE exam.deployment = d /\ exam' = [exam EXCEPT !.fenced = TRUE]
             /\ replaced' = replaced \ {d}
             /\ reconciler' = [reconciler EXCEPT !.pc = "ack", !.dep = d]
             /\ UNCHANGED troubles
    <3>1. exam' = [deployment |-> d, fenced |-> TRUE]
      BY <2>1 DEF FenceTypeOK
    <3>2. fence[d] = "pending" /\ fence' = fence /\ client' = client
      BY <1>2 DEF Mark, ReconcilerOK
    <3>3. FenceTypeOK'
      BY <1>2, <2>1, <3>1 DEF Mark, FenceTypeOK
    <3>4. AckedKept'
      BY <2>1, <3>1, <3>2 DEF AckedKept, Kept
    <3>5. reconciler'.todo = reconciler.todo /\ reconciler'.dep = d
      BY <2>1 DEF FenceTypeOK
    <3>6. d \in reconciler.todo
      BY <1>2 DEF Mark
    <3>7. ReconcilerOK'
      BY <3>1, <3>2, <3>5, <3>6 DEF ReconcilerOK, Kept
    <3>8. \A c \in Client : ClientOK(c)'
      BY <2>1, <3>2 DEF ClientOK
    <3>. QED BY <3>3, <3>4, <3>7, <3>8
  <2>2. CASE Skip(d) /\ UNCHANGED <<exam, replaced>> /\ troubles' \in Nat
    <3>1. fence' = fence /\ client' = client /\ served' = served
      BY <1>2 DEF Mark
    <3>2. FenceTypeOK'
      BY <2>2, <3>1 DEF Skip, FenceTypeOK
    <3>3. AckedKept' /\ ReconcilerOK'
      BY <2>2, <3>1 DEF Skip, AckedKept, ReconcilerOK, Kept, FenceTypeOK
    <3>4. \A c \in Client : ClientOK(c)'
      BY <2>2, <3>1 DEF ClientOK
    <3>. QED BY <3>2, <3>3, <3>4
  <2>. QED
    BY <1>2, <2>1, <2>2 DEF Mark, Unmarked, Trouble, FenceTypeOK
<1>3. CASE Acknowledge
  <2>. DEFINE d == reconciler.dep
  <2>1. /\ d \in Deployment /\ fence[d] = "pending" /\ Kept(d)
        /\ UNCHANGED <<exam, served, client, replaced>>
    BY <1>3 DEF Acknowledge, ReconcilerOK, FenceTypeOK
  <2>2. fence' \in {fence, Taken(d)} /\ troubles' \in Nat
    BY <1>3 DEF Acknowledge, Trouble, FenceTypeOK
  <2>3. /\ fence' \in [Deployment -> {"none", "pending", "acked"}]
        /\ \A e \in Deployment : e # d => fence'[e] = fence[e]
    BY <2>1, <2>2 DEF Taken, FenceTypeOK
  <2>4. /\ reconciler'.pc = "mark" /\ reconciler'.todo = reconciler.todo \ {d}
        /\ reconciler' \in [pc : {"idle", "mark", "ack"},
                            todo : SUBSET Deployment,
                            dep : Deployment \cup {NoDeployment}]
    BY <1>3 DEF Acknowledge, Skip, FenceTypeOK
  <2>5. FenceTypeOK'
    BY <2>1, <2>2, <2>3, <2>4 DEF FenceTypeOK
  <2>6. AckedKept'
    BY <2>1, <2>3 DEF AckedKept, Kept
  <2>7. ReconcilerOK'
    BY <2>3, <2>4 DEF ReconcilerOK, FenceTypeOK
  <2>8. ASSUME NEW c \in Client PROVE ClientOK(c)'
    BY <2>1, <2>3 DEF ClientOK, FenceTypeOK
  <2>. QED BY <2>5, <2>6, <2>7, <2>8
<1>4. CASE EndRound
  BY <1>4 DEF EndRound, Resting, FenceTypeOK, AckedKept, ReconcilerOK, ClientOK,
              Kept
<1>5. ASSUME NEW c \in Client, NEW d \in Deployment, Admit(c, d)
      PROVE  FenceInv'
  <2>1. UNCHANGED <<exam, served, fence, reconciler, replaced, troubles>>
    BY <1>5 DEF Admit
  <2>2. FenceTypeOK' /\ AckedKept' /\ ReconcilerOK'
    BY <1>5, <2>1 DEF Admit, FenceTypeOK, AckedKept, ReconcilerOK, Kept
  <2>3. fence[d] = "acked" => d \in replaced
    BY <1>5 DEF Admit, Fenced, AckedKept, Kept
  <2>4. \A e \in Client : ClientOK(e)'
    BY <1>5, <2>1, <2>3 DEF Admit, ClientOK, FenceTypeOK
  <2>. QED BY <2>2, <2>4
<1>6. ASSUME NEW c \in Client, Write(c)
      PROVE  FenceInv'
  BY <1>6 DEF Write, NoRequest, FenceTypeOK, AckedKept, ReconcilerOK, ClientOK,
              Kept
<1>7. ASSUME NEW d \in Deployment, LoadBundle(d)
      PROVE  FenceInv'
  <2>1. UNCHANGED <<fence, reconciler, client, troubles>>
    BY <1>7 DEF LoadBundle
  <2>2. \A e \in Deployment : Kept(e) /\ fence[e] # "none" => e \in replaced'
    BY <1>7 DEF LoadBundle, Kept
  <2>3. replaced \subseteq replaced'
    BY <1>7 DEF LoadBundle
  <2>4. FenceTypeOK'
    BY <1>7, <2>1 DEF LoadBundle, FenceTypeOK
  <2>5. AckedKept'
    BY <2>1, <2>2 DEF AckedKept, Kept
  <2>6. ReconcilerOK'
    BY <2>1, <2>2 DEF ReconcilerOK, FenceTypeOK, Kept
  <2>7. \A c \in Client : ClientOK(c)'
    BY <2>1, <2>3 DEF ClientOK
  <2>. QED BY <2>4, <2>5, <2>6, <2>7
<1>8. ASSUME NEW d \in Deployment, RequestFence(d)
      PROVE  FenceInv'
  <2>1. /\ UNCHANGED <<exam, served, reconciler, client, replaced, troubles>>
        /\ fence[d] = "none" /\ fence'[d] = "pending"
        /\ fence' \in [Deployment -> {"none", "pending", "acked"}]
        /\ \A e \in Deployment : e # d => fence'[e] = fence[e]
    BY <1>8 DEF RequestFence, FenceTypeOK
  <2>2. FenceTypeOK' /\ AckedKept' /\ ReconcilerOK'
    BY <2>1 DEF FenceTypeOK, AckedKept, ReconcilerOK, Kept
  <2>3. \A c \in Client : ClientOK(c)'
    BY <2>1 DEF ClientOK, FenceTypeOK
  <2>. QED BY <2>2, <2>3
<1>9. CASE Restart
  <2>. DEFINE d == reconciler.dep
  <2>1. /\ reconciler' = Resting /\ client' = [c \in Client |-> NoRequest]
        /\ UNCHANGED <<exam, served, replaced>> /\ troubles' \in Nat
    BY <1>9 DEF Restart, Trouble, FenceTypeOK
  <2>2. \/ fence' = fence
        \/ /\ d \in Deployment /\ fence[d] = "pending" /\ Kept(d)
           /\ fence' = Taken(d)
    BY <1>9 DEF Restart, ReconcilerOK, FenceTypeOK
  <2>3. FenceTypeOK'
    BY <2>1, <2>2 DEF FenceTypeOK, Taken, Resting, NoRequest
  <2>4. AckedKept'
    BY <2>1, <2>2 DEF AckedKept, Kept, Taken, FenceTypeOK
  <2>5. ReconcilerOK' /\ \A c \in Client : ClientOK(c)'
    BY <2>1 DEF ReconcilerOK, ClientOK, Resting, NoRequest
  <2>. QED BY <2>3, <2>4, <2>5
<1>10. CASE UNCHANGED fenceVars
  BY <1>10 DEF fenceVars, FenceTypeOK, AckedKept, ReconcilerOK, ClientOK, Kept
<1>. QED
  BY <1>1, <1>2, <1>3, <1>4, <1>5, <1>6, <1>7, <1>8, <1>9, <1>10
     DEF FenceNext, Reconcile

(* The inductive invariant of the fence.                                   *)
THEOREM FenceInductive == FenceSpec => []FenceInv
BY FenceInitial, FenceStep, PTL DEF FenceSpec

(* Only requests let in before Central had the acknowledgement write after *)
(* it, unless a load has replaced the row.                                 *)
THEOREM AcknowledgedIsClosed == FenceSpec => AckedIsClosed
<1>1. FenceInv /\ [FenceNext]_fenceVars =>
        [\A c \in Client :
           Write(c) /\ fence[client[c].dep] = "acked" =>
             client[c].early \/ client[c].dep \in replaced]_fenceVars
  BY DEF FenceInv, ClientOK, Write
<1>. QED BY <1>1, FenceInductive, PTL DEF FenceSpec, AckedIsClosed

-----------------------------------------------------------------------------
(* Migrations.  Who works on the schema holds the lock; what is recorded   *)
(* is in effect, and so is what the holder has passed.                     *)
Works(r) == runner[r].pc \in {"look", "probe", "alter", "record", "clash"}

Whole(v) == \A i \in 1..Changes[v] : <<v, i>> \in schema

RunnerOK(r) ==
  LET v == runner[r].version
      i == runner[r].change
      pc == runner[r].pc
  IN
  /\ Works(r) => lock = r /\ \A w \in Version : w < v => w \in recorded
  /\ pc \in {"down", "lock"} => v = 1
  /\ pc \in {"down", "lock", "look"} => i = 1
  /\ pc \in {"probe", "alter", "record"} => v \in Version
  /\ pc \in {"probe", "alter"} =>
       /\ i \in 1..Changes[v]
       /\ \A j \in 1..Changes[v] : j < i => <<v, j>> \in schema
  /\ pc = "alter" => (runner[r].found <=> <<v, i>> \in schema)
  /\ pc = "record" => Whole(v)
  /\ pc # "clash"
  /\ pc = "up" => schema = Change /\ recorded = Version

MigrationInv ==
  /\ MigrationTypeOK
  /\ \A v \in recorded : Whole(v)
  /\ \A r \in Runner : RunnerOK(r)

LEMMA MigrationInitial == MigrationInit => MigrationInv
<1>. SUFFICES ASSUME MigrationInit PROVE MigrationInv
  OBVIOUS
<1>1. MigrationTypeOK
  BY MigrationAssumption DEF MigrationInit, MigrationTypeOK, Down
<1>2. \A r \in Runner : RunnerOK(r)
  BY DEF MigrationInit, RunnerOK, Works, Down
<1>. QED BY <1>1, <1>2 DEF MigrationInv, MigrationInit

(* A step of one runner leaves the others right, when it leaves what is    *)
(* recorded and in effect, and the lock of another that works.             *)
LEMMA OthersOK ==
  ASSUME MigrationInv, NEW r \in Runner, NEW q \in Runner, q # r,
         runner'[q] = runner[q],
         schema \subseteq schema', recorded \subseteq recorded',
         schema' \subseteq Change, recorded' \subseteq Version,
         lock = q => /\ lock' = q /\ schema' = schema
  PROVE  RunnerOK(q)'
BY DEF MigrationInv, RunnerOK, Works, Whole

LEMMA MigrationStep ==
  MigrationInv /\ [MigrationNext]_migrationVars => MigrationInv'
<1>. SUFFICES ASSUME MigrationInv, [MigrationNext]_migrationVars
              PROVE  MigrationInv'
  OBVIOUS
<1>. USE MigrationAssumption
<1>1. ASSUME NEW r \in Runner, StartRunner(r) PROVE MigrationInv'
  <2>1. RunnerOK(r) /\ MigrationTypeOK
    BY DEF MigrationInv
  <2>2. /\ runner[r].pc = "down" /\ runner' = [runner EXCEPT ![r].pc = "lock"]
        /\ UNCHANGED <<schema, recorded, lock, inTheWay, crashes>>
    BY <1>1 DEF StartRunner, Go
  <2>3. /\ \A q \in Runner \ {r} : runner'[q] = runner[q]
        /\ runner'[r].pc = "lock"
        /\ runner'[r].version = runner[r].version
        /\ runner'[r].change = runner[r].change
    BY <2>1, <2>2 DEF MigrationTypeOK
  <2>4. MigrationTypeOK'
    BY <2>1, <2>2 DEF MigrationTypeOK
  <2>5. \A q \in Runner \ {r} : RunnerOK(q)'
    BY <2>1, <2>2, <2>3, OthersOK DEF MigrationTypeOK
  <2>6. RunnerOK(r)'
    BY <2>1, <2>2, <2>3 DEF RunnerOK, Works
  <2>. QED BY <2>2, <2>4, <2>5, <2>6 DEF MigrationInv, Whole
<1>2. ASSUME NEW r \in Runner, GetLock(r) PROVE MigrationInv'
  <2>1. RunnerOK(r) /\ MigrationTypeOK
    BY DEF MigrationInv
  <2>2. /\ runner[r].version \in 1..(Versions + 1) /\ runner[r].change \in Nat
        /\ runner[r].found \in BOOLEAN
    BY <2>1 DEF MigrationTypeOK
  <2>3. /\ \A q \in Runner \ {r} : runner'[q] = runner[q]
        /\ runner'[r].pc = "look"
        /\ runner'[r].version = runner[r].version
        /\ runner'[r].change = runner[r].change
        /\ runner'[r].found = runner[r].found
    BY <1>2, <2>1 DEF GetLock, Free, Go, MigrationTypeOK
  <2>4. UNCHANGED <<schema, recorded>> /\ lock = NoRunner /\ lock' = r
    BY <1>2, <2>1 DEF GetLock, Free, Go, RunnerOK, Works
  <2>5. MigrationTypeOK'
    BY <1>2, <2>1, <2>2 DEF GetLock, Free, Go, MigrationTypeOK, RunnerOK, Version
  <2>6. \A q \in Runner \ {r} : RunnerOK(q)'
    BY <2>3, <2>4, <2>5, OthersOK DEF MigrationTypeOK
  <2>7. RunnerOK(r)'
    BY <1>2, <2>1, <2>2, <2>3, <2>4
       DEF GetLock, RunnerOK, Works, Whole, Version
  <2>8. \A v \in recorded' : Whole(v)'
    BY <1>2, <2>1, <2>4 DEF GetLock, MigrationInv, RunnerOK, Whole
  <2>. QED BY <2>5, <2>6, <2>7, <2>8 DEF MigrationInv
<1>3. ASSUME NEW r \in Runner, LockTimeout(r) PROVE MigrationInv'
  BY <1>3, OthersOK
     DEF LockTimeout, Exit, Unlocked, Free, Down, MigrationInv, MigrationTypeOK,
         RunnerOK, Works, Whole
<1>4. ASSUME NEW r \in Runner, SkipRecorded(r) PROVE MigrationInv'
  <2>1. RunnerOK(r) /\ MigrationTypeOK
    BY DEF MigrationInv
  <2>2. /\ runner[r].version \in 1..(Versions + 1) /\ runner[r].change \in Nat
        /\ runner[r].found \in BOOLEAN
    BY <2>1 DEF MigrationTypeOK
  <2>3. /\ \A q \in Runner \ {r} : runner'[q] = runner[q]
        /\ runner'[r].pc = "look"
        /\ runner'[r].version = runner[r].version + 1
        /\ runner'[r].change = 1
        /\ runner'[r].found = runner[r].found
    BY <1>4, <2>1 DEF SkipRecorded, NextVersion, MigrationTypeOK
  <2>4. UNCHANGED <<schema, recorded, lock>> /\ lock = r
    BY <1>4, <2>1 DEF SkipRecorded, NextVersion, RunnerOK, Works
  <2>5. MigrationTypeOK'
    BY <1>4, <2>1, <2>2 DEF SkipRecorded, NextVersion, MigrationTypeOK, RunnerOK, Version
  <2>6. \A q \in Runner \ {r} : RunnerOK(q)'
    BY <2>3, <2>4, <2>5, OthersOK DEF MigrationTypeOK
  <2>7. RunnerOK(r)'
    BY <1>4, <2>1, <2>2, <2>3, <2>4
       DEF SkipRecorded, RunnerOK, Works, Whole, Version
  <2>8. \A v \in recorded' : Whole(v)'
    BY <1>4, <2>1, <2>4 DEF SkipRecorded, MigrationInv, RunnerOK, Whole
  <2>. QED BY <2>5, <2>6, <2>7, <2>8 DEF MigrationInv
<1>5. ASSUME NEW r \in Runner, BeginVersion(r) PROVE MigrationInv'
  <2>1. RunnerOK(r) /\ MigrationTypeOK
    BY DEF MigrationInv
  <2>2. /\ runner[r].version \in 1..(Versions + 1) /\ runner[r].change \in Nat
        /\ runner[r].found \in BOOLEAN
    BY <2>1 DEF MigrationTypeOK
  <2>3. /\ \A q \in Runner \ {r} : runner'[q] = runner[q]
        /\ runner'[r].pc = "probe"
        /\ runner'[r].version = runner[r].version
        /\ runner'[r].change = runner[r].change
        /\ runner'[r].found = runner[r].found
    BY <1>5, <2>1 DEF BeginVersion, Go, MigrationTypeOK
  <2>4. UNCHANGED <<schema, recorded, lock>> /\ lock = r
    BY <1>5, <2>1 DEF BeginVersion, Go, RunnerOK, Works
  <2>5. MigrationTypeOK'
    BY <1>5, <2>1, <2>2 DEF BeginVersion, Go, MigrationTypeOK, RunnerOK, Version
  <2>6. \A q \in Runner \ {r} : RunnerOK(q)'
    BY <2>3, <2>4, <2>5, OthersOK DEF MigrationTypeOK
  <2>7. RunnerOK(r)'
    BY <1>5, <2>1, <2>2, <2>3, <2>4
       DEF BeginVersion, RunnerOK, Works, Whole, Version
  <2>8. \A v \in recorded' : Whole(v)'
    BY <1>5, <2>1, <2>4 DEF BeginVersion, MigrationInv, RunnerOK, Whole
  <2>. QED BY <2>5, <2>6, <2>7, <2>8 DEF MigrationInv
<1>6. ASSUME NEW r \in Runner, Probe(r) PROVE MigrationInv'
  <2>1. RunnerOK(r) /\ MigrationTypeOK
    BY DEF MigrationInv
  <2>2. /\ runner[r].version \in 1..(Versions + 1) /\ runner[r].change \in Nat
        /\ runner[r].found \in BOOLEAN
    BY <2>1 DEF MigrationTypeOK
  <2>3. /\ \A q \in Runner \ {r} : runner'[q] = runner[q]
        /\ runner'[r].pc = "alter"
        /\ runner'[r].version = runner[r].version
        /\ runner'[r].change = runner[r].change
        /\ runner'[r].found = (Current(r) \in schema)
    BY <1>6, <2>1 DEF Probe, MigrationTypeOK
  <2>4. UNCHANGED <<schema, recorded, lock>> /\ lock = r
    BY <1>6, <2>1 DEF Probe, RunnerOK, Works
  <2>5. MigrationTypeOK'
    <3>1. PICK b \in BOOLEAN : b <=> Current(r) \in schema
      OBVIOUS
    <3>2. runner' = [runner EXCEPT ![r].pc = "alter", ![r].found = b]
      BY <1>6, <3>1 DEF Probe
    <3>3. UNCHANGED <<schema, recorded, lock, inTheWay, crashes>>
      BY <1>6 DEF Probe
    <3>. DEFINE e == [runner[r] EXCEPT !.pc = "alter", !.found = b]
                L == [pc : {"down", "lock", "look", "probe", "alter", "record",
                            "clash", "up"},
                      version : 1..(Versions + 1), change : Nat, found : BOOLEAN]
    <3>4. runner \in [Runner -> L] /\ runner[r] \in L
      BY <2>1 DEF MigrationTypeOK
    <3>5. e \in L /\ runner' = [runner EXCEPT ![r] = e]
      BY <3>2, <3>4
    <3>6. runner' \in [Runner -> L]
      <4>. HIDE DEF e, L
      <4>. QED BY <3>4, <3>5
    <3>. QED BY <2>1, <3>3, <3>6 DEF MigrationTypeOK
  <2>6. \A q \in Runner \ {r} : RunnerOK(q)'
    BY <2>3, <2>4, <2>5, OthersOK DEF MigrationTypeOK
  <2>7. RunnerOK(r)'
    BY <1>6, <2>1, <2>2, <2>3, <2>4
       DEF Probe, RunnerOK, Works, Whole, Version, Current
  <2>8. \A v \in recorded' : Whole(v)'
    BY <1>6, <2>1, <2>4 DEF Probe, MigrationInv, RunnerOK, Whole
  <2>. QED BY <2>5, <2>6, <2>7, <2>8 DEF MigrationInv
<1>7. ASSUME NEW r \in Runner, Alter(r) PROVE MigrationInv'
  <2>. DEFINE v == runner[r].version
              i == runner[r].change
  <2>1. /\ RunnerOK(r) /\ MigrationTypeOK
        /\ lock = r /\ v \in Version /\ i \in 1..Changes[v]
        /\ \A w \in Version : w < v => w \in recorded
        /\ \A j \in 1..Changes[v] : j < i => <<v, j>> \in schema
        /\ runner[r].found <=> <<v, i>> \in schema
        /\ UNCHANGED <<recorded, inTheWay, crashes>>
    BY <1>7 DEF Alter, MigrationInv, RunnerOK, Works
  <2>2. CASE Exit(r) /\ UNCHANGED schema
    <3>1. /\ MigrationTypeOK' /\ runner'[r] = Down
          /\ \A q \in Runner \ {r} : runner'[q] = runner[q]
      BY <2>1, <2>2 DEF Exit, Unlocked, Down, MigrationTypeOK
    <3>2. \A q \in Runner \ {r} : RunnerOK(q)'
      BY <2>1, <2>2, <3>1, OthersOK DEF MigrationTypeOK
    <3>3. RunnerOK(r)'
      BY <3>1 DEF RunnerOK, Works, Down
    <3>. QED BY <2>1, <2>2, <3>1, <3>2, <3>3 DEF MigrationInv, Whole
  <2>3. CASE /\ NextChange(r) /\ UNCHANGED lock
             /\ schema' = schema \cup {<<v, i>>}
    <3>1. runner[r] \in [pc : {"down", "lock", "look", "probe", "alter",
                              "record", "clash", "up"},
                        version : 1..(Versions + 1), change : Nat,
                        found : BOOLEAN]
      BY <2>1 DEF MigrationTypeOK
    <3>2. Changes[v] \in Nat
      BY <2>1 DEF Version
    <3>3. <<v, i>> \in Change
      BY <2>1 DEF Change
    <3>4. MigrationTypeOK'
      <4>1. PICK pc \in {"probe", "record"} : pc = AfterLast(r)
        BY DEF AfterLast
      <4>2. runner' = [runner EXCEPT ![r].pc = pc, ![r].change = @ + 1]
        BY <2>3, <4>1 DEF NextChange
      <4>3. MigrationTypeOK /\ runner[r].change + 1 \in Nat
        BY <2>1, <3>1
      <4>4. runner' \in [Runner -> [pc : {"down", "lock", "look", "probe", "alter",
                                        "record", "clash", "up"},
                                   version : 1..(Versions + 1), change : Nat,
                                   found : BOOLEAN]]
        BY <4>2, <4>3 DEF MigrationTypeOK
      <4>5. /\ schema' \subseteq Change /\ lock' = lock
            /\ UNCHANGED <<recorded, inTheWay, crashes>>
        BY <2>1, <2>3, <3>3 DEF MigrationTypeOK
      <4>. QED BY <2>1, <4>4, <4>5 DEF MigrationTypeOK
    <3>5. /\ \A q \in Runner \ {r} : runner'[q] = runner[q]
          /\ runner'[r].pc = AfterLast(r) /\ runner'[r].version = v
          /\ runner'[r].change = i + 1
      BY <2>1, <2>3, <3>1 DEF NextChange, MigrationTypeOK
    <3>6. \A q \in Runner \ {r} : RunnerOK(q)'
      BY <2>1, <2>3, <3>4, <3>5, OthersOK DEF MigrationTypeOK
    <3>7. \A j \in 1..Changes[v] : j < i + 1 => <<v, j>> \in schema'
      BY <2>1, <2>3, <3>2
    <3>8. RunnerOK(r)'
      <4>1. CASE i < Changes[v]
        BY <2>1, <2>3, <3>2, <3>5, <3>7, <4>1 DEF AfterLast, RunnerOK, Works
      <4>2. CASE ~(i < Changes[v])
        <5>1. \A j \in 1..Changes[v] : <<v, j>> \in schema'
          BY <2>1, <3>2, <3>7, <4>2
        <5>. QED
          BY <2>1, <2>3, <3>5, <4>2, <5>1 DEF AfterLast, RunnerOK, Works, Whole
      <4>. QED BY <4>1, <4>2
    <3>9. \A w \in recorded' : Whole(w)'
      BY <2>1, <2>3 DEF MigrationInv, Whole
    <3>. QED BY <3>4, <3>6, <3>8, <3>9 DEF MigrationInv
  <2>. QED
    <3>1. schema \cup {<<v, i>>} = schema \/ ~runner[r].found
      BY <2>1
    <3>. QED BY <1>7, <2>1, <2>2, <2>3, <3>1 DEF Alter, Current
<1>8. ASSUME NEW r \in Runner, Record(r) PROVE MigrationInv'
  <2>1. RunnerOK(r) /\ MigrationTypeOK
    BY DEF MigrationInv
  <2>2. /\ runner[r].version \in 1..(Versions + 1) /\ runner[r].change \in Nat
        /\ runner[r].found \in BOOLEAN
    BY <2>1 DEF MigrationTypeOK
  <2>3. /\ \A q \in Runner \ {r} : runner'[q] = runner[q]
        /\ runner'[r].pc = "look"
        /\ runner'[r].version = runner[r].version + 1
        /\ runner'[r].change = 1
        /\ runner'[r].found = runner[r].found
    BY <1>8, <2>1 DEF Record, NextVersion, MigrationTypeOK
  <2>4. /\ UNCHANGED <<schema, lock>> /\ lock = r
        /\ recorded' = recorded \cup {runner[r].version}
    BY <1>8, <2>1 DEF Record, NextVersion, RunnerOK, Works
  <2>5. MigrationTypeOK'
    <3>. DEFINE e == [runner[r] EXCEPT !.pc = "look", !.change = 1,
                                       !.version = runner[r].version + 1]
                L == [pc : {"down", "lock", "look", "probe", "alter", "record",
                            "clash", "up"},
                      version : 1..(Versions + 1), change : Nat, found : BOOLEAN]
    <3>1. runner \in [Runner -> L] /\ runner[r] \in L
      BY <2>1 DEF MigrationTypeOK
    <3>2. runner[r].version \in 1..Versions
      BY <1>8, <2>1 DEF Record, RunnerOK, Version
    <3>3. e \in L
      <4>. DEFINE w == runner[r].version + 1
      <4>1. w \in 1..(Versions + 1)
        BY <3>2
      <4>. HIDE DEF w
      <4>2. [runner[r] EXCEPT !.pc = "look", !.change = 1, !.version = w] \in L
        BY <3>1, <4>1
      <4>. QED BY <4>2 DEF w
    <3>4. runner' = [runner EXCEPT ![r] = e]
      BY <1>8 DEF Record, NextVersion
    <3>5. runner' \in [Runner -> L]
      <4>. HIDE DEF e, L
      <4>. QED BY <3>1, <3>3, <3>4
    <3>6. recorded' \subseteq Version
      BY <2>1, <2>4, <3>2 DEF MigrationTypeOK, Version
    <3>7. UNCHANGED <<schema, lock, inTheWay, crashes>>
      BY <1>8 DEF Record
    <3>. QED BY <2>1, <3>5, <3>6, <3>7 DEF MigrationTypeOK
  <2>6. \A q \in Runner \ {r} : RunnerOK(q)'
    BY <2>3, <2>4, <2>5, OthersOK DEF MigrationTypeOK
  <2>7. RunnerOK(r)'
    BY <1>8, <2>1, <2>2, <2>3, <2>4
       DEF Record, RunnerOK, Works, Whole, Version
  <2>8. \A v \in recorded' : Whole(v)'
    BY <1>8, <2>1, <2>4 DEF Record, MigrationInv, RunnerOK, Whole
  <2>. QED BY <2>5, <2>6, <2>7, <2>8 DEF MigrationInv
<1>9. ASSUME NEW r \in Runner, Serve(r) PROVE MigrationInv'
  <2>1. RunnerOK(r) /\ MigrationTypeOK
    BY DEF MigrationInv
  <2>2. /\ runner[r].version \in 1..(Versions + 1) /\ runner[r].change \in Nat
        /\ runner[r].found \in BOOLEAN
    BY <2>1 DEF MigrationTypeOK
  <2>3. /\ \A q \in Runner \ {r} : runner'[q] = runner[q]
        /\ runner'[r].pc = "up"
        /\ runner'[r].version = runner[r].version
        /\ runner'[r].change = runner[r].change
        /\ runner'[r].found = runner[r].found
    BY <1>9, <2>1 DEF Serve, Go, Unlocked, MigrationTypeOK
  <2>4. UNCHANGED <<schema, recorded>> /\ lock = r /\ lock' = NoRunner
    BY <1>9, <2>1 DEF Serve, Go, Unlocked, RunnerOK, Works
  <2>5. MigrationTypeOK'
    BY <1>9, <2>1, <2>2 DEF Serve, Go, Unlocked, MigrationTypeOK, RunnerOK, Version
  <2>6. \A q \in Runner \ {r} : RunnerOK(q)'
    BY <2>3, <2>4, <2>5, OthersOK DEF MigrationTypeOK
  <2>7. RunnerOK(r)'
    <3>1. recorded = Version
      <4>1. \A w \in Version : w < runner[r].version => w \in recorded
        BY <1>9, <2>1 DEF Serve, RunnerOK, Works
      <4>2. runner[r].version > Versions
        BY <1>9 DEF Serve
      <4>3. \A w \in Version : w < runner[r].version
        BY <2>2, <4>2 DEF Version
      <4>. QED BY <2>1, <4>1, <4>3 DEF MigrationTypeOK
    <3>2. schema = Change
      BY <3>1 DEF MigrationInv, MigrationTypeOK, Whole, Change
    <3>3. runner[r].version = 1 + Versions /\ runner[r].change = 1
      BY <1>9, <2>1, <2>2 DEF Serve, RunnerOK
    <3>. QED BY <2>3, <2>4, <3>1, <3>2, <3>3 DEF RunnerOK, Works
  <2>8. \A v \in recorded' : Whole(v)'
    BY <1>9, <2>1, <2>4 DEF Serve, MigrationInv, RunnerOK, Whole
  <2>. QED BY <2>5, <2>6, <2>7, <2>8 DEF MigrationInv
<1>10. ASSUME NEW r \in Runner, StopRunner(r) PROVE MigrationInv'
  <2>1. RunnerOK(r) /\ MigrationTypeOK
    BY DEF MigrationInv
  <2>2. /\ runner' = [runner EXCEPT ![r] = Down] /\ lock' = Unlocked(r)
        /\ UNCHANGED <<recorded, inTheWay>> /\ crashes' \in Nat
        /\ \/ schema' = schema
           \/ lock = r /\ Current(r) \in Change
              /\ schema' = schema \cup ({Current(r)} \ inTheWay)
    BY <1>10, <2>1
       DEF StopRunner, Exit, Current, RunnerOK, Works, MigrationTypeOK, Change
  <2>3. Down \in [pc : {"down", "lock", "look", "probe", "alter", "record",
                       "clash", "up"},
                 version : 1..(Versions + 1), change : Nat, found : BOOLEAN]
    BY DEF Down
  <2>4. MigrationTypeOK'
    BY <2>1, <2>2, <2>3 DEF MigrationTypeOK, Unlocked
  <2>5. schema \subseteq schema' /\ schema' \subseteq Change
    BY <2>1, <2>2 DEF MigrationTypeOK
  <2>6. ASSUME NEW q \in Runner \ {r} PROVE RunnerOK(q)'
    <3>1. runner'[q] = runner[q] /\ recorded' = recorded
      BY <2>1, <2>2 DEF MigrationTypeOK
    <3>2. lock = q => lock' = q /\ schema' = schema
      BY <2>2 DEF Unlocked
    <3>. QED BY <2>1, <2>5, <3>1, <3>2, OthersOK DEF MigrationTypeOK
  <2>7. runner'[r] = Down
    BY <2>1, <2>2 DEF MigrationTypeOK
  <2>8. RunnerOK(r)'
    BY <2>7 DEF RunnerOK, Works, Down
  <2>9. \A v \in recorded' : Whole(v)'
    BY <2>2, <2>5 DEF MigrationInv, Whole
  <2>. QED BY <2>4, <2>6, <2>8, <2>9 DEF MigrationInv
<1>11. CASE Repair
  BY <1>11 DEF Repair, MigrationInv, MigrationTypeOK, RunnerOK, Works, Whole
<1>12. CASE UNCHANGED migrationVars
  BY <1>12 DEF migrationVars, MigrationInv, MigrationTypeOK, RunnerOK, Works,
               Whole
<1>. QED
  BY <1>1, <1>2, <1>3, <1>4, <1>5, <1>6, <1>7, <1>8, <1>9, <1>10, <1>11, <1>12
     DEF MigrationNext

(* The inductive invariant of the migrations.                              *)
THEOREM MigrationInductive == MigrationSpec => []MigrationInv
BY MigrationInitial, MigrationStep, PTL DEF MigrationSpec

(* A program that goes on has the whole schema.                            *)
THEOREM UpIsMigrated == MigrationSpec => []ServesMigrated
<1>1. MigrationInv => ServesMigrated
  BY DEF MigrationInv, RunnerOK, ServesMigrated
<1>. QED BY <1>1, MigrationInductive, PTL

(* No run makes a change twice.                                            *)
THEOREM ChangesOnce == MigrationSpec => []NeverClashes
<1>1. MigrationInv => NeverClashes
  BY DEF MigrationInv, RunnerOK, NeverClashes
<1>. QED BY <1>1, MigrationInductive, PTL

-----------------------------------------------------------------------------
(* Enrolment.  The sittings of a student have the numbers 1, 2, ...; a row *)
(* counts no more of them than there are, a fresh one fewer, and then its  *)
(* next number is taken.                                                   *)
Numbered(s) ==
  /\ Len(sitting[s]) <= granted
  /\ \A i \in 1..Len(sitting[s]) : sitting[s][i].no = i
  /\ \A i \in 1..Len(sitting[s]) :
       sitting[s][i].status = "in_progress" => i = Len(sitting[s])

EnrolmentInv ==
  /\ EnrolmentTypeOK
  /\ \A s \in Student : Numbered(s)
  /\ \A s \in DOMAIN enrolled : enrolled[s] <= Len(sitting[s])
  /\ \A r \in StartRequest : starting[r].max <= granted
  /\ maxAttempts <= granted

LEMMA EnrolmentInitial == EnrolmentInit => EnrolmentInv
<1>. SUFFICES ASSUME EnrolmentInit PROVE EnrolmentInv
  OBVIOUS
<1>1. NotStarting.max = 0 /\ NotStarting.pc = "idle" /\ NotStarting.student \in Student
  BY EnrolmentAssumption DEF NotStarting
<1>2. EnrolmentTypeOK
  BY <1>1, EnrolmentAssumption DEF EnrolmentInit, EnrolmentTypeOK, NotStarting
<1>. QED
  BY <1>1, <1>2, EnrolmentAssumption DEF EnrolmentInit, EnrolmentInv, Numbered

(* The first free number of a student who has none under way.              *)
LEMMA NextNumber ==
  ASSUME EnrolmentInv, NEW s \in Student, NEW max \in Nat, max <= granted,
         MayBegin(s, max), ~NumberTaken(s, enrolled[s] + 1)
  PROVE  /\ enrolled[s] + 1 = Len(sitting[s]) + 1
         /\ Len(sitting[s]) + 1 <= granted
         /\ \A i \in 1..Len(sitting[s]) : sitting[s][i].status # "in_progress"
<1>1. /\ sitting[s] \in Seq(Attempt) /\ granted \in Nat
      /\ enrolled[s] \in Nat /\ enrolled[s] <= Len(sitting[s])
      /\ enrolled[s] < max
  BY EnrolmentAssumption DEF EnrolmentInv, EnrolmentTypeOK, MayBegin
<1>2. /\ Len(sitting[s]) \in Nat
      /\ DOMAIN sitting[s] = 1..Len(sitting[s])
  BY <1>1
<1>3. enrolled[s] + 1 \notin 1..Len(sitting[s])
  BY <1>2 DEF NumberTaken, EnrolmentInv, Numbered
<1>. QED
  BY <1>1, <1>2, <1>3 DEF MayBegin, Sitting

(* What finishing makes of the list of attempts is a list.                 *)
LEMMA SequenceOfFunction ==
  ASSUME NEW S, NEW n \in Nat, NEW f \in [1..n -> S]
  PROVE  f \in Seq(S) /\ Len(f) = n
  OBVIOUS

(* A step of a request that changes its locals only.                       *)
LEMMA RequestStep ==
  ASSUME EnrolmentInv, NEW r \in StartRequest,
         NEW e \in [pc : {"idle", "look", "create"}, student : Student, max : Nat],
         e.max <= granted, starting' = [starting EXCEPT ![r] = e],
         UNCHANGED <<maxAttempts, enrolled, sitting, granted>>
  PROVE  EnrolmentInv'
<1>1. \A q \in StartRequest : starting'[q] = IF q = r THEN e ELSE starting[q]
  BY DEF EnrolmentInv, EnrolmentTypeOK
<1>2. EnrolmentTypeOK'
  BY DEF EnrolmentInv, EnrolmentTypeOK
<1>3. \A s \in Student : Numbered(s)'
  BY DEF EnrolmentInv, Numbered
<1>4. \A q \in StartRequest : starting'[q].max <= granted'
  BY <1>1 DEF EnrolmentInv
<1>. QED
  BY <1>2, <1>3, <1>4 DEF EnrolmentInv

LEMMA EnrolmentStep ==
  EnrolmentInv /\ [EnrolmentNext]_enrolmentVars => EnrolmentInv'
<1>. SUFFICES ASSUME EnrolmentInv, [EnrolmentNext]_enrolmentVars
              PROVE  EnrolmentInv'
  OBVIOUS
<1>. USE EnrolmentAssumption
<1>t. /\ EnrolmentTypeOK /\ maxAttempts \in Nat /\ granted \in Nat
      /\ \A s \in Student : sitting[s] \in Seq(Attempt) /\ Len(sitting[s]) \in Nat
  BY DEF EnrolmentInv, EnrolmentTypeOK
<1>n. /\ NotStarting \in [pc : {"idle", "look", "create"}, student : Student, max : Nat]
      /\ NotStarting.max <= granted
  BY <1>t DEF NotStarting
<1>1. ASSUME NEW r \in StartRequest, NEW s \in Student, ReadExam(r, s)
      PROVE  EnrolmentInv'
  <2>. DEFINE e == [pc |-> "look", student |-> s, max |-> maxAttempts]
  <2>1. /\ e \in [pc : {"idle", "look", "create"}, student : Student, max : Nat]
        /\ e.max <= granted
    BY <1>t DEF EnrolmentInv
  <2>. QED
    BY <1>1, <2>1, RequestStep DEF ReadExam
<1>2. ASSUME NEW r \in StartRequest, LookUp(r)
      PROVE  EnrolmentInv'
  <2>1. CASE End(r)
    BY <1>2, <2>1, <1>n, RequestStep DEF LookUp, End
  <2>2. CASE starting' = [starting EXCEPT ![r].pc = "create"]
    <3>. DEFINE e == [starting[r] EXCEPT !.pc = "create"]
    <3>1. /\ e \in [pc : {"idle", "look", "create"}, student : Student, max : Nat]
          /\ e.max <= granted /\ starting' = [starting EXCEPT ![r] = e]
      BY <2>2 DEF EnrolmentInv, EnrolmentTypeOK
    <3>. QED
      BY <1>2, <3>1, RequestStep DEF LookUp
  <2>. QED
    BY <1>2, <2>1, <2>2 DEF LookUp
<1>3. ASSUME NEW r \in StartRequest, Create(r)
      PROVE  EnrolmentInv'
  <2>1. PICK s \in Student : /\ s = starting[r].student
                            /\ starting[r].max \in Nat
                            /\ starting[r].max <= granted
    BY <1>t DEF EnrolmentInv, EnrolmentTypeOK
  <2>. DEFINE no == enrolled[s] + 1
              a  == [no |-> no, status |-> "in_progress"]
  <2>2. /\ starting' = [starting EXCEPT ![r] = NotStarting]
        /\ UNCHANGED <<maxAttempts, granted>>
    BY <1>3 DEF Create, End
  <2>3. /\ starting' \in [StartRequest -> [pc : {"idle", "look", "create"},
                                           student : Student, max : Nat]]
        /\ \A q \in StartRequest : starting'[q].max <= granted'
    BY <2>2, <1>t, <1>n DEF EnrolmentInv, EnrolmentTypeOK
  <2>4. CASE UNCHANGED <<enrolled, sitting>>
    BY <2>2, <2>4, <1>n, RequestStep
  <2>5. CASE /\ MayBegin(s, starting[r].max) /\ ~NumberTaken(s, no)
             /\ enrolled' = [enrolled EXCEPT ![s] = no]
             /\ sitting' = [sitting EXCEPT ![s] = Append(@, a)]
    <3>1. /\ no = Len(sitting[s]) + 1 /\ no <= granted
          /\ \A i \in 1..Len(sitting[s]) : sitting[s][i].status # "in_progress"
      BY <2>1, <2>5, NextNumber
    <3>2. s \in DOMAIN enrolled /\ no \in Nat /\ a \in Attempt
      BY <2>5, <3>1, <1>t, <2>1 DEF MayBegin, Attempt
    <3>3. /\ sitting'[s] = Append(sitting[s], a)
          /\ \A p \in Student : p # s => sitting'[p] = sitting[p]
          /\ sitting' \in [Student -> Seq(Attempt)]
      BY <2>1, <2>5, <3>2, <1>t DEF EnrolmentTypeOK
    <3>4. /\ Len(sitting'[s]) = no
          /\ sitting'[s][no] = a
          /\ \A i \in 1..Len(sitting[s]) : sitting'[s][i] = sitting[s][i]
      <4>. DEFINE q == sitting[s]
      <4>1. q \in Seq(Attempt) /\ a \in Attempt /\ no = Len(q) + 1
        BY <3>1, <3>2, <1>t, <2>1
      <4>. HIDE DEF q, a
      <4>2. /\ Len(Append(q, a)) = Len(q) + 1
            /\ Append(q, a)[Len(q) + 1] = a
            /\ \A i \in 1..Len(q) : Append(q, a)[i] = q[i]
        BY <4>1
      <4>. QED BY <3>3, <4>1, <4>2 DEF q
    <3>5. Numbered(s)'
      <4>1. \A i \in 1..no : i = no \/ i \in 1..Len(sitting[s])
        BY <3>1, <3>2, <1>t
      <4>2. \A i \in 1..no : sitting'[s][i].no = i
        BY <4>1, <3>4 DEF Numbered, EnrolmentInv
      <4>3. \A i \in 1..no : sitting'[s][i].status = "in_progress" => i = no
        BY <4>1, <3>1, <3>4
      <4>. QED
        BY <4>2, <4>3, <3>1, <3>4, <2>2 DEF Numbered
    <3>6. \A p \in Student : Numbered(p)'
      BY <3>5, <3>3, <2>2 DEF Numbered, EnrolmentInv
    <3>7. /\ DOMAIN enrolled' = DOMAIN enrolled
          /\ \A p \in DOMAIN enrolled : enrolled'[p] = IF p = s THEN no ELSE enrolled[p]
      BY <2>5, <3>2
    <3>8. /\ DOMAIN enrolled' \subseteq Student
          /\ \A p \in DOMAIN enrolled' :
               enrolled'[p] \in Nat /\ enrolled'[p] <= Len(sitting'[p])
      <4>1. DOMAIN enrolled' \subseteq Student
        BY <3>7 DEF EnrolmentInv, EnrolmentTypeOK
      <4>2. ASSUME NEW p \in DOMAIN enrolled
            PROVE  enrolled'[p] \in Nat /\ enrolled'[p] <= Len(sitting'[p])
        <5>1. p \in Student /\ enrolled[p] \in Nat /\ enrolled[p] <= Len(sitting[p])
          BY DEF EnrolmentInv, EnrolmentTypeOK
        <5>2. CASE p = s
          BY <5>2, <3>2, <3>4, <3>7
        <5>3. CASE p # s
          BY <5>1, <5>3, <3>3, <3>7
        <5>. QED BY <5>2, <5>3
      <4>. QED
        BY <4>1, <4>2, <3>7
    <3>. QED
      BY <2>2, <2>3, <3>3, <3>6, <3>8 DEF EnrolmentInv, EnrolmentTypeOK
  <2>. QED
    BY <1>3, <2>1, <2>4, <2>5 DEF Create
<1>4. ASSUME NEW s \in Student, FinishSitting(s)
      PROVE  EnrolmentInv'
  <2>. DEFINE over == [i \in DOMAIN sitting[s] |->
                         [sitting[s][i] EXCEPT !.status = "finished"]]
  <2>1. /\ sitting' = [sitting EXCEPT ![s] = over]
        /\ UNCHANGED <<maxAttempts, enrolled, starting, granted>>
    BY <1>4 DEF FinishSitting
  <2>2. /\ DOMAIN sitting[s] = 1..Len(sitting[s])
        /\ \A i \in 1..Len(sitting[s]) : sitting[s][i] \in Attempt
    BY <1>t
  <2>3. /\ over \in Seq(Attempt) /\ Len(over) = Len(sitting[s])
        /\ \A i \in 1..Len(sitting[s]) :
             over[i].no = sitting[s][i].no /\ over[i].status = "finished"
    <3>1. \A i \in 1..Len(sitting[s]) :
            /\ over[i] \in Attempt
            /\ over[i].no = sitting[s][i].no /\ over[i].status = "finished"
      BY <2>2 DEF Attempt
    <3>2. over \in [1..Len(sitting[s]) -> Attempt]
      BY <2>2, <3>1
    <3>3. over \in Seq(Attempt) /\ Len(over) = Len(sitting[s])
      <4>. HIDE DEF over
      <4>. QED BY <3>2, <1>t, SequenceOfFunction
    <3>. QED BY <3>1, <3>3
  <2>4. /\ sitting'[s] = over
        /\ \A p \in Student : p # s => sitting'[p] = sitting[p]
        /\ sitting' \in [Student -> Seq(Attempt)]
    BY <2>1, <2>3, <1>t DEF EnrolmentTypeOK
  <2>5. \A p \in Student : Len(sitting'[p]) = Len(sitting[p])
    BY <2>3, <2>4
  <2>6. Numbered(s)'
    BY <2>1, <2>3, <2>4 DEF Numbered, EnrolmentInv
  <2>7. \A p \in Student : Numbered(p)'
    BY <2>1, <2>4, <2>6 DEF Numbered, EnrolmentInv
  <2>. QED
    BY <2>1, <2>4, <2>5, <2>7 DEF EnrolmentInv, EnrolmentTypeOK
<1>5. ASSUME NEW listed \in SUBSET Student, NEW max \in Limits,
             PushBundle(listed, max)
      PROVE  EnrolmentInv'
  <2>1. /\ max \in Nat /\ granted' \in Limits /\ granted' \in Nat
        /\ granted <= granted' /\ maxAttempts' = max /\ max <= granted'
        /\ UNCHANGED <<sitting, starting>>
    BY <1>5, <1>t DEF PushBundle, EnrolmentTypeOK
  <2>2. /\ DOMAIN enrolled' = listed
        /\ \A p \in listed : enrolled'[p] \in Nat /\ enrolled'[p] <= Len(sitting[p])
    BY <1>5, <1>t DEF PushBundle, EnrolmentInv, EnrolmentTypeOK
  <2>3. \A p \in Student : Numbered(p)'
    BY <2>1, <1>t DEF Numbered, EnrolmentInv
  <2>4. \A r \in StartRequest : starting'[r].max <= granted'
    BY <2>1, <1>t DEF EnrolmentInv, EnrolmentTypeOK
  <2>. QED
    BY <2>1, <2>2, <2>3, <2>4, <1>t DEF EnrolmentInv, EnrolmentTypeOK
<1>6. CASE UNCHANGED enrolmentVars
  BY <1>6, <1>t DEF enrolmentVars, EnrolmentInv, EnrolmentTypeOK, Numbered
<1>. QED
  BY <1>1, <1>2, <1>3, <1>4, <1>5, <1>6 DEF EnrolmentNext

THEOREM EnrolmentInductive == EnrolmentSpec => []EnrolmentInv
BY EnrolmentInitial, EnrolmentStep, PTL DEF EnrolmentSpec

(* Bundles pushed beside the starts of students give no extra sitting.     *)
THEOREM NeverSatTwice == EnrolmentSpec => []NoSittingTwice
<1>1. EnrolmentInv => NoSittingTwice
  <2>. SUFFICES ASSUME EnrolmentInv, NEW s \in Student
                PROVE  /\ Len(sitting[s]) <= granted
                       /\ \A i, j \in DOMAIN sitting[s] :
                            sitting[s][i].no = sitting[s][j].no => i = j
                       /\ \A i \in DOMAIN sitting[s] :
                            sitting[s][i].status = "in_progress" =>
                              i = Len(sitting[s])
    BY DEF NoSittingTwice
  <2>1. DOMAIN sitting[s] = 1..Len(sitting[s])
    BY DEF EnrolmentInv, EnrolmentTypeOK
  <2>. QED
    BY <2>1 DEF EnrolmentInv, Numbered
<1>. QED
  BY <1>1, EnrolmentInductive, PTL
=============================================================================
