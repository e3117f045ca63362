----------------------------- MODULE ExamHarvest -----------------------------
(***************************************************************************)
(* Harvesting: finished attempts are pushed to Central in batches, one     *)
(* deployment at a time, and marked once Central has acknowledged them.    *)
(*                                                                         *)
(* The server drains on a ticker and on request; a mutex keeps those       *)
(* drains apart, so together they are one drainer.  The examharvest tool   *)
(* is a process of its own and so is another.  Students, sweepers and      *)
(* operators go on while a drain is between two of its steps.  Central     *)
(* only keeps what it has stored: a request that it handles after the      *)
(* client gave up is the same as one handled just before.                  *)
(***************************************************************************)
EXTENDS Naturals, FiniteSets

CONSTANTS
  AttemptId, Deployment, None,
  DeploymentOf,    \* deployment of each attempt's exam, None without exam row
  Drainer, Cli,    \* Cli: the drainers that are runs of examharvest
  MaxBatch,        \* maxBatchAttempts
  MaxSaves, MaxGeneration, MaxFaults      \* bounds of the model, the first
                                          \* by attempt

ASSUME HarvestAssumption ==
  /\ IsFiniteSet(AttemptId)
  /\ DeploymentOf \in [AttemptId -> Deployment \cup {None}]
  /\ None \notin Deployment
  /\ Cli \subseteq Drainer
  /\ MaxBatch \in Nat \ {0}
  /\ MaxSaves \in [AttemptId -> Nat]
  /\ {MaxGeneration, MaxFaults} \subseteq Nat

VARIABLES
  over,      \* the due time of every attempt has passed
  attempt,   \* rows: status, reset_generation, harvested_at, answers
  drain,     \* locals of the drain each drainer is running
  central,   \* payloads that Central has stored
  closed,    \* history: deployments whose final batch Central took whole
  faults     \* crashes, lost calls, failed sweeps and refusals so far

vars == <<over, attempt, drain, central, closed, faults>>

(* saves counts the answers written; atFinish is its value when the        *)
(* attempt was last finished.                                              *)
Row == [status: {"in_progress", "finished"}, generation: Nat,
        harvested: BOOLEAN, saves: Nat, atFinish: Nat]

Listed  == [id: AttemptId, generation: Nat]
Payload == [id: AttemptId, generation: Nat, saves: Nat]

Drain == [pc: {"idle", "list", "push", "wait", "mark"}, final: BOOLEAN,
          late: BOOLEAN, listed: SUBSET Listed, todo: SUBSET Deployment,
          dep: Deployment \cup {None}, last: BOOLEAN, batch: SUBSET Payload,
          accepted: SUBSET AttemptId, failures: SUBSET AttemptId,
          issues: BOOLEAN]

TypeOK ==
  /\ over \in BOOLEAN
  /\ attempt \in [AttemptId -> Row]
  /\ drain \in [Drainer -> Drain]
  /\ central \subseteq Payload
  /\ closed \subseteq Deployment
  /\ faults \in Nat

-----------------------------------------------------------------------------
Idle == [pc |-> "idle", final |-> FALSE, late |-> FALSE, listed |-> {},
         todo |-> {}, dep |-> None, last |-> FALSE, batch |-> {},
         accepted |-> {}, failures |-> {}, issues |-> FALSE]

(* An attempt without an exam row was finished before the row was lost:    *)
(* nothing else is possible without it.                                    *)
Init ==
  /\ over = FALSE
  /\ attempt = [a \in AttemptId |->
                  [status |-> IF DeploymentOf[a] = None THEN "finished"
                              ELSE "in_progress",
                   generation |-> 0, harvested |-> FALSE, saves |-> 0,
                   atFinish |-> 0]]
  /\ drain = [d \in Drainer |-> Idle]
  /\ central = {}
  /\ closed = {}
  /\ faults = 0

Ids(records) == {p.id : p \in records}

Smaller(s, t) == IF s < t THEN s ELSE t

(* The attempt table once those of as still in progress are finalized.     *)
Finalized(as) ==
  [a \in AttemptId |->
     IF a \in as /\ attempt[a].status = "in_progress"
     THEN [attempt[a] EXCEPT !.status = "finished",
                             !.atFinish = attempt[a].saves]
     ELSE attempt[a]]

-----------------------------------------------------------------------------
(* The rest of the node.                                                   *)

(* An autosave let in while the attempt was open is written at any time.   *)
Save(a) ==
  /\ DeploymentOf[a] # None
  /\ attempt[a].saves < MaxSaves[a]
  /\ attempt' = [attempt EXCEPT ![a].saves = @ + 1]
  /\ UNCHANGED <<over, drain, central, closed, faults>>

Finish(a) ==
  /\ attempt[a].status = "in_progress"
  /\ attempt' = Finalized({a})
  /\ UNCHANGED <<over, drain, central, closed, faults>>

Reset(a) ==
  /\ DeploymentOf[a] # None
  /\ attempt[a].status = "finished" /\ ~over
  /\ attempt[a].generation < MaxGeneration
  /\ attempt' = [attempt EXCEPT ![a].status = "in_progress",
                                ![a].harvested = FALSE,
                                ![a].generation = @ + 1]
  /\ UNCHANGED <<over, drain, central, closed, faults>>

Over ==
  /\ ~over
  /\ over' = TRUE
  /\ UNCHANGED <<attempt, drain, central, closed, faults>>

-----------------------------------------------------------------------------
(* A drain.  It sweeps first, and gives up when any attempt cannot be      *)
(* finalized.                                                              *)

Expired == IF over THEN AttemptId ELSE {}

SweepFirst(d, final) ==
  /\ drain[d].pc = "idle"
  /\ d \in Cli => final
  /\ attempt' = Finalized(Expired)
  /\ drain' = [drain EXCEPT ![d] = [Idle EXCEPT !.pc = "list",
                                       !.final = final, !.late = over]]
  /\ UNCHANGED <<over, central, closed, faults>>

SweepFails(d) ==
  /\ drain[d].pc = "idle"
  /\ faults < MaxFaults
  /\ faults' = faults + 1
  /\ \E as \in SUBSET Expired : attempt' = Finalized(as)
  /\ UNCHANGED <<over, drain, central, closed>>

(* Mutant of Unpushed: a reopened attempt is not listed again.             *)
UnpushedFirstGeneration ==
  {[id |-> a, generation |-> attempt[a].generation] :
     a \in {b \in AttemptId : /\ attempt[b].status = "finished"
                              /\ attempt[b].generation = 0
                              /\ ~attempt[b].harvested}}

(* ListUnpushedAttempts                                                    *)
Unpushed ==
  {[id |-> a, generation |-> attempt[a].generation] :
     a \in {b \in AttemptId : /\ attempt[b].status = "finished"
                              /\ ~attempt[b].harvested}}

(* Mutant of Resolved: an attempt without exam row is grouped all the same.*)
ResolvedAll(listed) == listed

(* Attempts whose exam row, and so whose deployment, is known.             *)
Resolved(listed) == {l \in listed : DeploymentOf[l.id] # None}

(* An attempt without exam row is left out and reported at the end; a      *)
(* final drain visits every deployment.                                    *)
List(d) ==
  LET known == Resolved(Unpushed) IN
  /\ drain[d].pc = "list"
  /\ IF Unpushed = {} /\ ~drain[d].final
     THEN drain' = [drain EXCEPT ![d] = Idle]
     ELSE drain' = [drain EXCEPT ![d] =
            [@ EXCEPT !.pc = "push", !.listed = known,
                      !.todo = IF drain[d].final THEN Deployment
                               ELSE {DeploymentOf[l.id] : l \in known},
                      !.issues = known # Unpushed]]
  /\ UNCHANGED <<over, attempt, central, closed, faults>>

Group(d, dep) == {l \in drain[d].listed : DeploymentOf[l.id] = dep}

(* Mutant of LastBatch: a final drain says final with every batch.         *)
AnyBatchOfFinal(d, dep) == drain[d].final

(* The batch that a final drain announces as the last of the deployment.   *)
LastBatch(d, dep) == drain[d].final /\ Cardinality(Group(d, dep)) <= MaxBatch

(* The batch holds the attempts as listed, with the answers of now.  Which *)
(* attempts are the first in the group is left open.                       *)
Push(d, dep) ==
  /\ drain[d].pc = "push"
  /\ dep \in drain[d].todo
  /\ \E ls \in SUBSET Group(d, dep) :
       /\ Cardinality(ls) = Smaller(Cardinality(Group(d, dep)), MaxBatch)
       /\ drain' = [drain EXCEPT ![d] =
            [@ EXCEPT !.pc = "wait", !.dep = dep, !.last = LastBatch(d, dep),
                      !.batch = {[id |-> l.id, generation |-> l.generation,
                                  saves |-> attempt[l.id].saves] : l \in ls}]]
  /\ UNCHANGED <<over, attempt, central, closed, faults>>

(* Central stores part of the batch and knows when that was the last one.  *)
Store(d, ids) ==
  /\ central' = central \cup {p \in drain[d].batch : p.id \in ids}
  /\ closed' = IF /\ drain[d].last /\ drain[d].late
                  /\ Ids(drain[d].batch) \subseteq ids
               THEN closed \cup {drain[d].dep} ELSE closed

(* The acknowledgement names what was stored, and may name other ids, even *)
(* the same id as accepted and failed.                                     *)
Respond(d, accepted, failures) ==
  /\ drain[d].pc = "wait"
  /\ IF accepted = Ids(drain[d].batch) /\ failures = {} THEN UNCHANGED faults
     ELSE faults < MaxFaults /\ faults' = faults + 1
  /\ Store(d, accepted \ failures)
  /\ drain' = [drain EXCEPT ![d] = [@ EXCEPT !.pc = "mark",
                  !.accepted = accepted, !.failures = failures]]
  /\ UNCHANGED <<over, attempt>>

(* A drain that has done with its deployment.                              *)
Moved(q, problem) ==
  [q EXCEPT !.pc = "push", !.todo = q.todo \ {q.dep}, !.dep = None,
            !.last = FALSE, !.batch = {}, !.accepted = {}, !.failures = {},
            !.issues = q.issues \/ problem]

(* The drain goes on with the next deployment.                             *)
NextDeployment(d, problem) ==
  drain' = [drain EXCEPT ![d] = Moved(drain[d], problem)]

(* No usable answer: transport error, refusal, or an answer lost.          *)
NoAnswer(d) ==
  /\ drain[d].pc = "wait"
  /\ faults < MaxFaults
  /\ faults' = faults + 1
  /\ \E ids \in SUBSET AttemptId : Store(d, ids)
  /\ NextDeployment(d, TRUE)
  /\ UNCHANGED <<over, attempt>>

(* Ids accepted, sent in this batch and not also reported as failed.       *)
Accepted(d) == (drain[d].accepted \cap Ids(drain[d].batch))
                  \ drain[d].failures

(* Mutant of Markable: the generation that was sent is not compared.       *)
MarkableAnyGeneration(d) ==
  {p.id : p \in {q \in drain[d].batch :
                   /\ q.id \in Accepted(d)
                   /\ attempt[q.id].status = "finished"
                   /\ ~attempt[q.id].harvested}}

(* MarkAttemptsHarvestedForGeneration's WHERE clause.                      *)
Markable(d) ==
  {p.id : p \in {q \in drain[d].batch :
                   /\ q.id \in Accepted(d)
                   /\ attempt[q.id].generation = q.generation
                   /\ attempt[q.id].status = "finished"
                   /\ ~attempt[q.id].harvested}}

(* Marking.  The rest of a group larger than a batch is left to the next   *)
(* drain: what was accepted is compared with the whole group, and a group  *)
(* accepted whole leaves no rest.                                          *)
Mark(d) ==
  LET ids == Markable(d)
      problem == \/ ids # Accepted(d)
                 \/ drain[d].last /\ drain[d].failures # {}
  IN
  /\ drain[d].pc = "mark"
  /\ attempt' = [a \in AttemptId |->
       IF a \in ids THEN [attempt[a] EXCEPT !.harvested = TRUE]
       ELSE attempt[a]]
  /\ NextDeployment(d, problem)
  /\ UNCHANGED <<over, central, closed, faults>>

EndDrain(d) ==
  /\ drain[d].pc = "push" /\ drain[d].todo = {}
  /\ drain' = [drain EXCEPT ![d] = Idle]
  /\ UNCHANGED <<over, attempt, central, closed, faults>>

(* The process dies; a request on its way may still reach Central.  A      *)
(* drain that stops before its first push, as when a list cannot be read   *)
(* or a final drain meets an exam row without deployment_id, looks the     *)
(* same: it leaves nothing behind.                                         *)
Crash(d) ==
  /\ drain[d].pc # "idle"
  /\ faults < MaxFaults
  /\ faults' = faults + 1
  /\ \/ UNCHANGED <<central, closed>>
     \/ /\ drain[d].pc = "wait"
        /\ \E ids \in SUBSET AttemptId : Store(d, ids)
  /\ drain' = [drain EXCEPT ![d] = Idle]
  /\ UNCHANGED <<over, attempt>>

-----------------------------------------------------------------------------
DrainSteps(d) ==
  \/ \E final \in BOOLEAN : SweepFirst(d, final)
  \/ List(d)
  \/ \E dep \in Deployment : Push(d, dep)
  \/ \E accepted, failures \in SUBSET AttemptId :
       Respond(d, accepted, failures)
  \/ Mark(d)
  \/ EndDrain(d)

Next ==
  \/ \E a \in AttemptId : Save(a) \/ Finish(a) \/ Reset(a)
  \/ Over
  \/ \E d \in Drainer :
       DrainSteps(d) \/ SweepFails(d) \/ NoAnswer(d) \/ Crash(d)

(* The server's ticker goes on, and Central answers; nobody has to run the *)
(* tool.                                                                   *)
Fairness == \A d \in Drainer \ Cli : WF_vars(DrainSteps(d))

Spec == Init /\ [][Next]_vars
FairSpec == Spec /\ Fairness

-----------------------------------------------------------------------------
(* An attempt is marked harvested only when Central holds its current      *)
(* generation with every answer written before it was finished, whatever   *)
(* resets, crashes, lost answers and second drains come in between.        *)
HarvestedIsAtCentral ==
  \A a \in AttemptId :
    attempt[a].harvested =>
      \E p \in central : /\ p.id = a
                         /\ p.generation = attempt[a].generation
                         /\ p.saves >= attempt[a].atFinish

(* Once a final batch of a drain that swept after the exam was taken       *)
(* whole, Central holds every attempt of that deployment as it ended.      *)
FinalIsComplete ==
  \A a \in AttemptId :
    DeploymentOf[a] \in closed =>
      /\ attempt[a].status = "finished"
      /\ \E p \in central : /\ p.id = a
                            /\ p.generation = attempt[a].generation

(* Every finished attempt of a known exam is marked in the end, unless it  *)
(* is reopened first: the ticker works off groups larger than one batch.   *)
FinishedIsHarvested ==
  \A a \in {b \in AttemptId : DeploymentOf[b] # None} :
    attempt[a].status = "finished"
      ~> attempt[a].harvested \/ attempt[a].status = "in_progress"
=============================================================================
