------------------------- MODULE AttemptResetProofs -------------------------
(* Proofs about AttemptReset, for any attempts, commands and deployments.  *)
EXTENDS AttemptReset, FiniteSetTheorems, TLAPS

AppliedTo(a) == {q \in Command : /\ command[q].kind = "reset"
                                 /\ operation[q].status = "applied"
                                 /\ operation[q].sight.target = a}

(* An attempt's generation counts the resets applied to it; there are      *)
(* finitely many at any time, however many commands there may be.          *)
Counted == \A a \in AttemptId :
             /\ IsFiniteSet(AppliedTo(a))
             /\ attempt[a].generation = Cardinality(AppliedTo(a))

(* What has a result was issued, and what was applied has an attempt.      *)
ResultsOK ==
  \A q \in Command :
    /\ operation[q].status # "none" => command[q].kind \in {"preview", "reset"}
    /\ operation[q].status = "applied" => operation[q].sight.target \in AttemptId

(* A reset expects what the outcome of a preview has shown.                *)
ResetsOK ==
  \A q \in Command :
    command[q].kind = "reset" =>
      \E p \in Command : /\ command[p].kind = "preview"
                         /\ outcome[p].status = "applied"
                         /\ outcome[p].sight = command[q].expected

(* The worker handles issued commands, in a transaction only those without *)
(* a result, and reports only those that have one.                         *)
WorkerOK ==
  /\ worker.batch \subseteq {q \in Command : command[q].kind # "none"}
  /\ worker.pc = "tx" => /\ worker.current \in Command
                         /\ command[worker.current].kind \in {"preview", "reset"}
                         /\ operation[worker.current].status = "none"
  /\ worker.pc = "report" => /\ worker.current \in Command
                             /\ operation[worker.current].status # "none"

(* Reports on their way say what is stored.                                *)
DelayedOK == \A m \in delayed : /\ m.result.status # "none"
                                /\ m.result = operation[m.command]

IInv == /\ TypeOK
        /\ Counted
        /\ ResultsOK
        /\ ResetsOK
        /\ WorkerOK
        /\ DelayedOK
        /\ OutcomeAgrees

LEMMA Initial == Init => IInv
<1>. SUFFICES ASSUME Init PROVE IInv
  OBVIOUS
<1>. USE ResetAssumption
<1>1. TypeOK
  BY DEF Init, TypeOK, Time, Sight, Result, NoSight, NoResult, Unissued, Resting
<1>2. Counted
  <2>1. \A a \in AttemptId : AppliedTo(a) = {}
    BY DEF Init, AppliedTo, Unissued
  <2>2. IsFiniteSet({}) /\ Cardinality({}) = 0
    BY FS_EmptySet
  <2>. QED BY <2>1, <2>2 DEF Init, Counted
<1>3. ResultsOK /\ ResetsOK /\ WorkerOK /\ DelayedOK /\ OutcomeAgrees
  BY DEF Init, ResultsOK, ResetsOK, WorkerOK, DelayedOK, OutcomeAgrees, Unissued,
         NoResult, Resting
<1>. QED BY <1>1, <1>2, <1>3 DEF IInv

-----------------------------------------------------------------------------
(* Types.                                                                  *)

LEMMA SightType ==
  ASSUME TypeOK, NEW a \in AttemptId
  PROVE  SightOf(a) \in Sight
<1>1. attempt[a] \in [status: {"none", "in_progress"} \cup Finished,
                      generation: Nat, due: Nat, at: Time]
  BY DEF TypeOK
<1>. QED BY <1>1 DEF SightOf, Sight

LEMMA ResultType ==
  ASSUME TypeOK, NEW q \in Command,
         NEW verdict \in {"applied", "rejected", "expired", "already_in_progress"}
  PROVE  ResultOf(q, verdict) \in Result
<1>. DEFINE seen == command[q].expected
<1>1. seen \in Sight
  BY DEF TypeOK
<1>2. seen.generation \in Nat /\ seen.target \in AttemptId \cup {None}
  BY <1>1 DEF Sight
<1>3. NoSight \in Sight
  BY DEF NoSight, Sight, Time
<1>4. [NoSight EXCEPT !.target = seen.target] \in Sight
  BY <1>2, <1>3 DEF Sight
<1>5. ASSUME NEW g \in Nat
      PROVE  [seen EXCEPT !.at = None, !.status = "in_progress",
                          !.generation = g] \in Sight
  BY <1>1 DEF Sight, Time
<1>6. CASE verdict \in {"rejected", "expired"}
  BY <1>4, <1>6 DEF ResultOf, Result
<1>7. CASE verdict \notin {"rejected", "expired"}
  <2>. DEFINE g == IF verdict = "applied" THEN seen.generation + 1
                  ELSE seen.generation
              sight == [seen EXCEPT !.at = None, !.status = "in_progress",
                 !.generation = IF verdict = "applied" THEN @ + 1 ELSE @]
  <2>1. g \in Nat
    BY <1>2
  <2>2. sight \in Sight
    <3>1. sight = [seen EXCEPT !.at = None, !.status = "in_progress",
                               !.generation = g]
      BY <1>1 DEF Sight
    <3>. QED BY <1>5, <2>1, <3>1
  <2>3. ResultOf(q, verdict) = [status |-> verdict, sight |-> sight]
    BY <1>7 DEF ResultOf
  <2>. HIDE DEF sight
  <2>. QED BY <2>2, <2>3 DEF Result
<1>. QED BY <1>6, <1>7

LEMMA VerdictType ==
  ASSUME NEW q, NEW now
  PROVE  Verdict(q, now) \in {"applied", "rejected", "expired", "already_in_progress"}
BY DEF Verdict

LEMMA ContinueType ==
  ASSUME TypeOK, WorkerOK, Continue
  PROVE  /\ worker' \in [pc: {"idle", "next", "tx", "report"}, batch: SUBSET Command,
                         current: Command \cup {None}, now: Nat]
         /\ worker'.batch \subseteq worker.batch
         /\ worker'.pc \in {"idle", "next"}
<1>. DEFINE rest == worker.batch \ {worker.current}
<1>1. rest \subseteq Command
  BY DEF TypeOK
<1>2. worker' = IF rest = {} THEN Resting
               ELSE [Resting EXCEPT !.pc = "next", !.batch = rest]
  BY DEF Continue
<1>. QED BY <1>1, <1>2 DEF Resting

-----------------------------------------------------------------------------
(* Steps of the rest of the node: attempts come and go, none is reopened.  *)
LEMMA OutsideStep ==
  ASSUME IInv, TypeOK',
         UNCHANGED <<command, outcome, operation, worker, delayed>>,
         \A a \in AttemptId : attempt'[a].generation = attempt[a].generation
  PROVE  IInv'
<1>1. \A a \in AttemptId : AppliedTo(a)' = AppliedTo(a)
  BY DEF AppliedTo
<1>2. Counted'
  BY <1>1 DEF IInv, Counted
<1>3. ResultsOK' /\ ResetsOK'
  BY DEF IInv, ResultsOK, ResetsOK
<1>4. WorkerOK' /\ DelayedOK' /\ OutcomeAgrees'
  BY DEF IInv, WorkerOK, DelayedOK, OutcomeAgrees
<1>. QED BY <1>2, <1>3, <1>4 DEF IInv

(* Steps of the worker and of Central that store no result.                *)
LEMMA TransportStep ==
  ASSUME IInv, TypeOK', UNCHANGED <<attempt, command, operation>>,
         WorkerOK', DelayedOK', OutcomeAgrees',
         \A q \in Command : outcome[q].status # "none" => outcome'[q] = outcome[q]
  PROVE  IInv'
<1>1. \A a \in AttemptId : AppliedTo(a)' = AppliedTo(a)
  BY DEF AppliedTo
<1>2. Counted'
  BY <1>1 DEF IInv, Counted
<1>3. ResultsOK'
  BY DEF IInv, ResultsOK
<1>4. ResetsOK'
  BY DEF IInv, ResetsOK
<1>. QED BY <1>2, <1>3, <1>4 DEF IInv

LEMMA StartStep ==
  ASSUME IInv, NEW a \in AttemptId, StartAttempt(a) \/ FinalizeAttempt(a)
  PROVE  IInv'
<1>. DEFINE Row == [status: {"none", "in_progress"} \cup Finished,
                    generation: Nat, due: Nat, at: Time]
<1>1. TypeOK /\ attempt \in [AttemptId -> Row] /\ clock \in Nat
  BY DEF IInv, TypeOK
<1>2. PICK row \in Row : /\ attempt' = [attempt EXCEPT ![a] = row]
                         /\ row.generation = attempt[a].generation
  <2>1. attempt[a] \in Row
    BY <1>1
  <2>2. CASE StartAttempt(a)
    <3>. DEFINE due == IF clock + Duration < EndsAt THEN clock + Duration ELSE EndsAt
    <3>1. due \in Nat
      BY <1>1, ResetAssumption
    <3>2. attempt' = [attempt EXCEPT ![a].status = "in_progress", ![a].due = due]
      BY <2>2 DEF StartAttempt
    <3>. HIDE DEF due
    <3>3. [attempt[a] EXCEPT !.status = "in_progress", !.due = due] \in Row
      BY <2>1, <3>1
    <3>. QED BY <2>1, <3>2, <3>3
  <2>3. CASE FinalizeAttempt(a)
    <3>. DEFINE s == IF clock > attempt[a].due THEN "auto_submitted" ELSE "submitted"
    <3>1. s \in Finished
      BY DEF Finished
    <3>2. attempt' = [attempt EXCEPT ![a].at = clock, ![a].status = s]
      BY <2>3 DEF FinalizeAttempt
    <3>. HIDE DEF s
    <3>3. [attempt[a] EXCEPT !.at = clock, !.status = s] \in Row
      BY <1>1, <2>1, <3>1 DEF Time
    <3>. QED BY <2>1, <3>2, <3>3
  <2>. QED BY <2>2, <2>3
<1>3. attempt' \in [AttemptId -> Row]
  <2>. HIDE DEF Row
  <2>. QED BY <1>1, <1>2
<1>4. /\ UNCHANGED <<clock, exam, command, outcome, operation, worker, delayed,
                     faults>>
      /\ latest' \in AttemptId \cup {None}
  BY <1>1 DEF StartAttempt, FinalizeAttempt, TypeOK
<1>5. TypeOK'
  BY <1>1, <1>3, <1>4 DEF TypeOK
<1>6. \A c \in AttemptId : attempt'[c].generation = attempt[c].generation
  <2>. HIDE DEF Row
  <2>. QED BY <1>1, <1>2
<1>. QED BY <1>4, <1>5, <1>6, OutsideStep

LEMMA EnvironmentStep ==
  ASSUME IInv, \/ MarkDeploymentFenced \/ Tick
               \/ \E dep \in Deployment : LoadBundle(dep)
  PROVE  IInv'
<1>1. /\ UNCHANGED <<attempt, latest, command, outcome, operation, worker,
                     delayed, faults>>
  BY DEF MarkDeploymentFenced, Tick, LoadBundle
<1>2. exam \in [deployment: Deployment, fenced: BOOLEAN] /\ clock \in Nat
  BY DEF IInv, TypeOK
<1>4. exam' \in [deployment: Deployment, fenced: BOOLEAN] /\ clock' \in Nat
  <2>1. CASE MarkDeploymentFenced
    BY <1>2, <2>1 DEF MarkDeploymentFenced
  <2>2. CASE Tick
    BY <1>2, <2>2 DEF Tick
  <2>3. ASSUME NEW dep \in Deployment, LoadBundle(dep)
        PROVE  exam' \in [deployment: Deployment, fenced: BOOLEAN] /\ clock' \in Nat
    BY <1>2, <2>3 DEF LoadBundle
  <2>. QED BY <2>1, <2>2, <2>3
<1>3. TypeOK'
  BY <1>1, <1>4 DEF IInv, TypeOK
<1>. QED BY <1>1, <1>3, OutsideStep

-----------------------------------------------------------------------------
(* Central issues a command: the others are as they were.                  *)
LEMMA IssueStep ==
  ASSUME IInv, NEW q \in Command, NEW kind \in {"preview", "reset", "malformed"},
         NEW dep \in Deployment \cup {None}, NEW sight \in Sight,
         Issue(q, kind, dep, sight),
         kind = "reset" => \E p \in Command : /\ command[p].kind = "preview"
                                             /\ outcome[p].status = "applied"
                                             /\ outcome[p].sight = sight
  PROVE  IInv'
<1>. DEFINE C == [kind: {"none", "preview", "reset", "malformed"},
                  deployment: Deployment \cup {None}, expected: Sight]
            c == [kind |-> kind, deployment |-> dep, expected |-> sight]
<1>1. TypeOK /\ command \in [Command -> C] /\ command[q].kind = "none"
  BY DEF IInv, TypeOK, Issue
<1>2. /\ command' = [command EXCEPT ![q] = c]
      /\ UNCHANGED <<clock, exam, attempt, latest, outcome, operation, worker,
                     delayed, faults>>
  BY DEF Issue
<1>3. c \in C
  OBVIOUS
<1>4. command' \in [Command -> C]
  <2>. HIDE DEF C, c
  <2>. QED BY <1>1, <1>2, <1>3
<1>5. TypeOK'
  BY <1>1, <1>2, <1>4 DEF TypeOK
<1>6. /\ command'[q] = c
      /\ \A p \in Command : p # q => command'[p] = command[p]
      /\ \A p \in Command : command[p].kind # "none" => command'[p] = command[p]
      /\ \A p \in Command : command'[p].kind # "none" \/ command[p].kind = "none"
  <2>. HIDE DEF C
  <2>. QED BY <1>1, <1>2
<1>7. operation[q].status = "none" /\ outcome[q].status = "none"
  BY <1>1 DEF IInv, ResultsOK, OutcomeAgrees
<1>8. Counted'
  <2>1. \A a \in AttemptId : AppliedTo(a)' = AppliedTo(a)
    <3>. HIDE DEF c
    <3>. QED BY <1>2, <1>6, <1>7 DEF AppliedTo
  <2>. QED BY <1>2, <2>1 DEF IInv, Counted
<1>9. ResultsOK'
  <2>. HIDE DEF c
  <2>. QED BY <1>2, <1>6, <1>7 DEF IInv, ResultsOK
<1>10. ResetsOK'
  <2>1. ASSUME NEW o \in Command, command'[o].kind = "reset"
        PROVE  \E p \in Command : /\ command'[p].kind = "preview"
                                  /\ outcome[p].status = "applied"
                                  /\ outcome[p].sight = command'[o].expected
    <3>1. PICK p \in Command : /\ command[p].kind = "preview"
                               /\ outcome[p].status = "applied"
                               /\ outcome[p].sight = command'[o].expected
      <4>1. CASE o = q
        BY <1>6, <2>1, <4>1
      <4>2. CASE o # q
        BY <1>6, <2>1, <4>2 DEF IInv, ResetsOK
      <4>. QED BY <4>1, <4>2
    <3>2. command'[p] = command[p]
      BY <1>6, <3>1
    <3>. QED BY <3>1, <3>2
  <2>. QED BY <1>2, <2>1 DEF ResetsOK
<1>11. WorkerOK'
  <2>1. \A p \in Command : command[p].kind # "none" => command'[p].kind # "none"
    BY <1>6
  <2>2. worker.batch \subseteq Command
    BY <1>1 DEF TypeOK
  <2>3. worker'.batch \subseteq {p \in Command : command'[p].kind # "none"}
    BY <1>2, <2>1, <2>2 DEF IInv, WorkerOK
  <2>4. worker.pc = "tx" => command'[worker.current] = command[worker.current]
    <3>. HIDE DEF c
    <3>. QED BY <1>6 DEF IInv, WorkerOK
  <2>. QED BY <1>2, <2>3, <2>4 DEF IInv, WorkerOK
<1>12. DelayedOK' /\ OutcomeAgrees'
  BY <1>2 DEF IInv, DelayedOK, OutcomeAgrees
<1>. QED BY <1>5, <1>8, <1>9, <1>10, <1>11, <1>12 DEF IInv

LEMMA CommandStep ==
  ASSUME IInv, NEW q \in Command,
         \/ \E dep \in Deployment : IssuePreview(q, dep)
         \/ \E p \in Command : IssueReset(q, p)
         \/ IssueMalformed(q)
  PROVE  IInv'
<1>1. NoSight \in Sight
  BY DEF NoSight, Sight, Time
<1>2. ASSUME NEW dep \in Deployment, IssuePreview(q, dep) PROVE IInv'
  BY <1>1, <1>2, IssueStep DEF IssuePreview
<1>3. ASSUME NEW p \in Command, IssueReset(q, p) PROVE IInv'
  <2>1. /\ command[p].deployment \in Deployment \cup {None}
        /\ outcome[p].sight \in Sight
    BY DEF IInv, TypeOK, Result
  <2>. QED BY <1>3, <2>1, IssueStep DEF IssueReset
<1>4. CASE IssueMalformed(q)
  BY <1>1, <1>4, IssueStep DEF IssueMalformed
<1>. QED BY <1>2, <1>3, <1>4

-----------------------------------------------------------------------------
(* The worker.                                                             *)

LEMMA ContinueOK ==
  ASSUME IInv, Continue, UNCHANGED <<command, operation>>
  PROVE  WorkerOK'
<1>1. TypeOK /\ WorkerOK
  BY DEF IInv
<1>2. worker'.batch \subseteq worker.batch /\ worker'.pc \in {"idle", "next"}
  BY <1>1, ContinueType
<1>. QED BY <1>1, <1>2 DEF WorkerOK

LEMMA PollStep ==
  ASSUME IInv, PollOnce
  PROVE  IInv'
<1>1. /\ worker' = Resting \/ worker' = [Resting EXCEPT !.pc = "next", !.batch = Front(Pending)]
      /\ UNCHANGED <<clock, exam, attempt, latest, command, outcome, operation,
                     delayed, faults>>
  BY DEF PollOnce
<1>2. /\ Pending \subseteq {q \in Command : command[q].kind # "none"}
      /\ Front(Pending) \subseteq Pending
  BY DEF Pending, Front
<1>3. /\ worker'.batch \in SUBSET Pending /\ worker'.pc \in {"idle", "next"}
      /\ worker' \in [pc: {"idle", "next", "tx", "report"}, batch: SUBSET Command,
                      current: Command \cup {None}, now: Nat]
  <2>1. Front(Pending) \subseteq Command
    BY <1>2
  <2>2. CASE worker' = Resting
    BY <2>2 DEF Resting
  <2>3. CASE worker' = [Resting EXCEPT !.pc = "next", !.batch = Front(Pending)]
    <3>1. worker' = [pc |-> "next", batch |-> Front(Pending), current |-> None, now |-> 0]
      BY <2>3 DEF Resting
    <3>. HIDE DEF Pending
    <3>. QED BY <1>2, <2>1, <3>1
  <2>. QED BY <1>1, <2>2, <2>3
<1>t. TypeOK'
  BY <1>1, <1>3 DEF IInv, TypeOK
<1>4. WorkerOK'
  BY <1>1, <1>2, <1>3 DEF WorkerOK
<1>5. DelayedOK' /\ OutcomeAgrees'
  BY <1>1 DEF IInv, DelayedOK, OutcomeAgrees
<1>. QED BY <1>1, <1>t, <1>4, <1>5, TransportStep

LEMMA BeginStep ==
  ASSUME IInv, NEW q \in Command, Begin(q)
  PROVE  IInv'
<1>. DEFINE L == [pc: {"idle", "next", "tx", "report"}, batch: SUBSET Command,
                  current: Command \cup {None}, now: Nat]
            pc == IF operation[q].status = "none" THEN "tx" ELSE "report"
<1>1. /\ TypeOK /\ worker \in L /\ clock \in Nat
      /\ worker.pc = "next" /\ command[q].kind # "none"
      /\ UNCHANGED <<clock, exam, attempt, latest, command, outcome, operation,
                     delayed, faults>>
  BY DEF IInv, TypeOK, WorkerOK, Begin
<1>2. \/ /\ q \notin Failing
         /\ worker' = [worker EXCEPT !.current = q, !.now = clock, !.pc = pc]
      \/ worker' = Resting
      \/ worker' = [worker EXCEPT !.batch = @ \ {q}]
  BY DEF Begin
<1>3. worker' \in L /\ WorkerOK'
  <2>1. CASE /\ q \notin Failing
             /\ worker' = [worker EXCEPT !.current = q, !.now = clock, !.pc = pc]
    <3>1. command[q].kind \in {"preview", "reset"}
      BY <1>1, <2>1 DEF TypeOK, Failing
    <3>2. /\ worker' \in L /\ worker'.batch = worker.batch
          /\ worker'.current = q /\ worker'.pc = pc
      BY <1>1, <2>1
    <3>. QED BY <1>1, <3>1, <3>2 DEF IInv, WorkerOK
  <2>2. CASE worker' = Resting
    BY <2>2 DEF Resting, WorkerOK
  <2>3. CASE worker' = [worker EXCEPT !.batch = @ \ {q}]
    BY <1>1, <2>3 DEF IInv, WorkerOK
  <2>. QED BY <1>2, <2>1, <2>2, <2>3
<1>4. TypeOK'
  BY <1>1, <1>3 DEF TypeOK
<1>5. DelayedOK' /\ OutcomeAgrees'
  BY <1>1 DEF IInv, DelayedOK, OutcomeAgrees
<1>. QED BY <1>1, <1>3, <1>4, <1>5, TransportStep

(* A report that fails, a transaction that rolls back, a crash.            *)
LEMMA TroubleStep ==
  ASSUME IInv, TxFails \/ ReportFails \/ Crash
  PROVE  IInv'
<1>1. /\ TypeOK /\ faults' \in Nat
      /\ UNCHANGED <<clock, exam, attempt, latest, command, outcome, operation>>
  BY DEF IInv, TypeOK, TxFails, ReportFails, Crash
<1>2. /\ worker' \in [pc: {"idle", "next", "tx", "report"}, batch: SUBSET Command,
                      current: Command \cup {None}, now: Nat]
      /\ WorkerOK'
  <2>1. CASE Continue
    BY <1>1, <2>1, ContinueType, ContinueOK DEF IInv
  <2>2. CASE worker' = Resting
    BY <2>2 DEF Resting, WorkerOK
  <2>. QED BY <2>1, <2>2 DEF TxFails, ReportFails, Crash
<1>3. \/ UNCHANGED delayed
      \/ /\ worker.pc = "report"
         /\ delayed' = delayed \cup {[command |-> worker.current,
                                     result |-> operation[worker.current]]}
  BY DEF TxFails, ReportFails, Crash
<1>4. delayed' \subseteq [command: Command, result: Result] /\ DelayedOK'
  <2>1. CASE UNCHANGED delayed
    BY <1>1, <2>1 DEF IInv, TypeOK, DelayedOK
  <2>2. CASE /\ worker.pc = "report"
             /\ delayed' = delayed \cup {[command |-> worker.current,
                                         result |-> operation[worker.current]]}
    <3>1. /\ worker.current \in Command
          /\ operation[worker.current] \in Result
          /\ operation[worker.current].status # "none"
      BY <1>1, <2>2 DEF IInv, TypeOK, WorkerOK
    <3>2. delayed' \subseteq [command: Command, result: Result]
      BY <1>1, <2>2, <3>1 DEF TypeOK
    <3>3. DelayedOK'
      BY <1>1, <2>2, <3>1 DEF IInv, DelayedOK
    <3>. QED BY <3>2, <3>3
  <2>. QED BY <1>3, <2>1, <2>2
<1>5. TypeOK'
  BY <1>1, <1>2, <1>4 DEF TypeOK
<1>6. OutcomeAgrees'
  BY <1>1 DEF IInv, OutcomeAgrees
<1>. QED BY <1>1, <1>2, <1>4, <1>5, <1>6, TransportStep

(* Central takes a result for a command: what the node holds of it.        *)
LEMMA OutcomeStep ==
  ASSUME IInv, NEW q \in Command, operation[q].status # "none",
         outcome' = [outcome EXCEPT ![q] = operation[q]],
         UNCHANGED <<clock, exam, attempt, latest, command, operation, faults>>,
         worker' \in [pc: {"idle", "next", "tx", "report"}, batch: SUBSET Command,
                      current: Command \cup {None}, now: Nat],
         WorkerOK', delayed' \subseteq delayed
  PROVE  IInv'
<1>1. /\ TypeOK /\ outcome \in [Command -> Result] /\ operation[q] \in Result
  BY DEF IInv, TypeOK
<1>2. /\ outcome' \in [Command -> Result]
      /\ \A p \in Command : outcome'[p] = IF p = q THEN operation[q] ELSE outcome[p]
  BY <1>1
<1>3. TypeOK'
  BY <1>1, <1>2 DEF TypeOK
<1>4. OutcomeAgrees'
  BY <1>2 DEF IInv, OutcomeAgrees
<1>5. DelayedOK'
  BY DEF IInv, DelayedOK
<1>6. \A p \in Command : outcome[p].status # "none" => outcome'[p] = outcome[p]
  BY <1>2 DEF IInv, OutcomeAgrees
<1>. QED BY <1>3, <1>4, <1>5, <1>6, TransportStep

LEMMA ReportStep ==
  ASSUME IInv, Report
  PROVE  IInv'
<1>1. worker.current \in Command /\ operation[worker.current].status # "none"
  BY DEF IInv, WorkerOK, Report
<1>2. Continue /\ UNCHANGED <<command, operation>>
  BY DEF Report
<1>3. /\ worker' \in [pc: {"idle", "next", "tx", "report"}, batch: SUBSET Command,
                      current: Command \cup {None}, now: Nat]
      /\ WorkerOK'
  BY <1>2, ContinueType, ContinueOK DEF IInv
<1>. QED BY <1>1, <1>3, OutcomeStep DEF Report

LEMMA ArriveStep ==
  ASSUME IInv, NEW m \in delayed, Arrive(m)
  PROVE  IInv'
<1>1. /\ m.command \in Command /\ m.result = operation[m.command]
      /\ operation[m.command].status # "none"
  BY DEF IInv, TypeOK, DelayedOK
<1>2. UNCHANGED <<worker, command, operation>> /\ delayed' \subseteq delayed
  BY DEF Arrive
<1>3. /\ worker' \in [pc: {"idle", "next", "tx", "report"}, batch: SUBSET Command,
                      current: Command \cup {None}, now: Nat]
      /\ WorkerOK'
  BY <1>2 DEF IInv, TypeOK, WorkerOK
<1>. QED BY <1>1, <1>2, <1>3, OutcomeStep DEF Arrive

-----------------------------------------------------------------------------
(* The transactions store a result where there was none.                   *)
LEMMA ResultStep ==
  ASSUME IInv, NEW q \in Command, worker.pc = "tx", worker.current = q,
         NEW res \in Result, res.status # "none",
         res.status = "applied" => res.sight.target \in AttemptId,
         operation' = [operation EXCEPT ![q] = res],
         worker' = [worker EXCEPT !.pc = "report"],
         UNCHANGED <<clock, exam, latest, command, outcome, delayed, faults>>,
         attempt' \in [AttemptId -> [status: {"none", "in_progress"} \cup Finished,
                                    generation: Nat, due: Nat, at: Time]],
         \A a \in AttemptId :
           attempt'[a].generation =
             IF /\ command[q].kind = "reset" /\ res.status = "applied"
                /\ res.sight.target = a
             THEN attempt[a].generation + 1 ELSE attempt[a].generation
  PROVE  IInv'
<1>1. /\ TypeOK /\ operation \in [Command -> Result]
      /\ command[q].kind \in {"preview", "reset"} /\ operation[q].status = "none"
  BY DEF IInv, TypeOK, WorkerOK
<1>2. /\ operation' \in [Command -> Result]
      /\ \A p \in Command : operation'[p] = IF p = q THEN res ELSE operation[p]
  BY <1>1
<1>3. /\ worker' \in [pc: {"idle", "next", "tx", "report"}, batch: SUBSET Command,
                      current: Command \cup {None}, now: Nat]
      /\ worker'.pc = "report" /\ worker'.current = q
      /\ worker'.batch = worker.batch
  BY <1>1 DEF TypeOK
<1>4. TypeOK'
  BY <1>1, <1>2, <1>3 DEF TypeOK
<1>5. ASSUME NEW a \in AttemptId
      PROVE  /\ IsFiniteSet(AppliedTo(a)')
             /\ attempt'[a].generation = Cardinality(AppliedTo(a)')
  <2>1. /\ IsFiniteSet(AppliedTo(a)) /\ q \notin AppliedTo(a)
        /\ attempt[a].generation = Cardinality(AppliedTo(a))
    BY <1>1 DEF IInv, Counted, AppliedTo
  <2>2. CASE /\ command[q].kind = "reset" /\ res.status = "applied"
             /\ res.sight.target = a
    <3>1. AppliedTo(a)' = AppliedTo(a) \cup {q}
      BY <1>2, <2>2 DEF AppliedTo
    <3>2. /\ IsFiniteSet(AppliedTo(a) \cup {q})
          /\ Cardinality(AppliedTo(a) \cup {q}) = Cardinality(AppliedTo(a)) + 1
      BY <2>1, FS_AddElement
    <3>. QED BY <2>1, <2>2, <3>1, <3>2
  <2>3. CASE ~(/\ command[q].kind = "reset" /\ res.status = "applied"
               /\ res.sight.target = a)
    <3>1. AppliedTo(a)' = AppliedTo(a)
      BY <1>1, <1>2, <2>3 DEF AppliedTo
    <3>. QED BY <2>1, <2>3, <3>1
  <2>. QED BY <2>2, <2>3
<1>6. ResultsOK'
  BY <1>1, <1>2 DEF IInv, ResultsOK
<1>7. ResetsOK'
  BY DEF IInv, ResetsOK
<1>8. WorkerOK'
  BY <1>2, <1>3 DEF IInv, WorkerOK
<1>9. \A p \in Command : operation[p].status # "none" => operation'[p] = operation[p]
  BY <1>1, <1>2
<1>10. DelayedOK'
  BY <1>1, <1>9 DEF IInv, DelayedOK, TypeOK
<1>11. OutcomeAgrees'
  BY <1>9 DEF IInv, OutcomeAgrees
<1>. QED BY <1>4, <1>5, <1>6, <1>7, <1>8, <1>10, <1>11 DEF IInv, Counted

LEMMA PreviewStep ==
  ASSUME IInv, PreviewReset
  PROVE  IInv'
<1>. DEFINE q == worker.current
            ready == /\ worker.now < Deadline
                     /\ ~WrongExam(q) /\ ~WrongParticipant(q)
                     /\ latest # None
            refused == [NoResult EXCEPT !.status =
                          IF worker.now >= Deadline THEN "expired" ELSE "rejected"]
            res == IF ready THEN [status |-> "applied", sight |-> SightOf(latest)]
                   ELSE refused
<1>1. /\ TypeOK /\ worker.pc = "tx" /\ command[q].kind = "preview"
      /\ operation' = [operation EXCEPT ![q] = res]
      /\ worker' = [worker EXCEPT !.pc = "report"]
      /\ UNCHANGED <<clock, exam, attempt, latest, command, outcome, delayed,
                     faults>>
  BY DEF PreviewReset, IInv
<1>2. q \in Command
  BY <1>1 DEF IInv, WorkerOK
<1>3. /\ refused \in Result /\ refused.status \in {"expired", "rejected"}
  BY DEF NoResult, NoSight, Result, Sight, Time
<1>4. /\ res \in Result /\ res.status # "none"
      /\ res.status = "applied" => res.sight.target \in AttemptId
  <2>1. CASE ready
    <3>1. latest \in AttemptId /\ SightOf(latest) \in Sight
      BY <1>1, <2>1, SightType DEF TypeOK
    <3>2. SightOf(latest).target = latest
      BY DEF SightOf
    <3>. QED BY <2>1, <3>1, <3>2 DEF Result
  <2>2. CASE ~ready
    <3>. HIDE DEF refused
    <3>. QED BY <1>3, <2>2
  <2>. QED BY <2>1, <2>2
<1>5. /\ attempt' \in [AttemptId -> [status: {"none", "in_progress"} \cup Finished,
                                    generation: Nat, due: Nat, at: Time]]
      /\ \A a \in AttemptId : attempt'[a].generation = attempt[a].generation
  BY <1>1 DEF TypeOK
<1>. HIDE DEF res
<1>. QED BY <1>1, <1>2, <1>4, <1>5, ResultStep

LEMMA ApplyFacts ==
  ASSUME IInv, ApplyReset
  PROVE  LET q == worker.current
             a == command[q].expected.target
         IN
         /\ q \in Command /\ command[q].kind = "reset" /\ worker.pc = "tx"
         /\ worker.now \in Nat
         /\ a \in AttemptId
         /\ \E p \in Command : /\ command[p].kind = "preview"
                               /\ outcome[p].status = "applied"
                               /\ outcome[p].sight = command[q].expected
<1>1. /\ worker.current \in Command /\ worker.pc = "tx" /\ worker.now \in Nat
      /\ command[worker.current].kind = "reset"
  BY DEF IInv, TypeOK, WorkerOK, ApplyReset
<1>2. PICK p \in Command : /\ command[p].kind = "preview"
                           /\ outcome[p].status = "applied"
                           /\ outcome[p].sight = command[worker.current].expected
  BY <1>1 DEF IInv, ResetsOK
<1>3. outcome[p].sight.target \in AttemptId
  BY <1>2 DEF IInv, OutcomeAgrees, ResultsOK
<1>. QED BY <1>1, <1>2, <1>3

LEMMA ApplyStep ==
  ASSUME IInv, ApplyReset
  PROVE  IInv'
<1>. DEFINE q == worker.current
            c == command[q].expected.target
            verdict == Verdict(q, worker.now)
            res == ResultOf(q, verdict)
            Row == [status: {"none", "in_progress"} \cup Finished,
                    generation: Nat, due: Nat, at: Time]
<1>1. /\ TypeOK /\ worker.pc = "tx" /\ command[q].kind = "reset"
      /\ operation' = [operation EXCEPT ![q] = res]
      /\ attempt' = IF verdict = "applied"
                    THEN [attempt EXCEPT ![c].status = "in_progress",
                            ![c].generation = @ + 1, ![c].at = None]
                    ELSE attempt
      /\ worker' = [worker EXCEPT !.pc = "report"]
      /\ UNCHANGED <<clock, exam, latest, command, outcome, delayed, faults>>
  BY DEF ApplyReset, IInv
<1>2. q \in Command /\ c \in AttemptId
  BY ApplyFacts
<1>3. verdict \in {"applied", "rejected", "expired", "already_in_progress"}
  BY VerdictType
<1>4. res \in Result /\ res.status = verdict
  <2>1. res.status = verdict
    BY DEF ResultOf
  <2>. HIDE DEF verdict
  <2>. QED BY <1>1, <1>2, <1>3, <2>1, ResultType
<1>5. verdict = "applied" => res.sight.target = c
  <2>1. command[q].expected \in Sight
    BY <1>1, <1>2 DEF TypeOK
  <2>. HIDE DEF verdict
  <2>. QED BY <2>1 DEF ResultOf, Sight
<1>6. /\ attempt' \in [AttemptId -> Row]
      /\ \A a \in AttemptId :
           attempt'[a].generation = IF verdict = "applied" /\ a = c
                                    THEN attempt[a].generation + 1
                                    ELSE attempt[a].generation
  <2>1. attempt \in [AttemptId -> Row] /\ attempt[c] \in Row
    BY <1>1, <1>2 DEF TypeOK
  <2>2. CASE verdict = "applied"
    <3>. DEFINE g == attempt[c].generation + 1
                row == [attempt[c] EXCEPT !.status = "in_progress",
                                          !.generation = g, !.at = None]
    <3>1. g \in Nat
      BY <2>1
    <3>2. attempt' = [attempt EXCEPT ![c] = row]
      BY <1>1, <2>2
    <3>. HIDE DEF g, verdict
    <3>3. row \in Row /\ row.generation = g
      BY <2>1, <3>1 DEF Time
    <3>. HIDE DEF row, Row, c
    <3>4. attempt' \in [AttemptId -> Row]
      BY <2>1, <3>2, <3>3
    <3>5. \A a \in AttemptId : attempt'[a] = IF a = c THEN row ELSE attempt[a]
      BY <2>1, <3>2
    <3>. QED BY <2>2, <3>3, <3>4, <3>5 DEF g
  <2>3. CASE verdict # "applied"
    <3>. HIDE DEF verdict, Row
    <3>. QED BY <1>1, <2>1, <2>3
  <2>. QED BY <2>2, <2>3
<1>. HIDE DEF res, verdict, c
<1>7. \A a \in AttemptId :
        attempt'[a].generation =
          IF command[q].kind = "reset" /\ res.status = "applied" /\ res.sight.target = a
          THEN attempt[a].generation + 1 ELSE attempt[a].generation
  BY <1>1, <1>4, <1>5, <1>6
<1>8. /\ res.status # "none"
      /\ res.status = "applied" => res.sight.target \in AttemptId
  BY <1>2, <1>3, <1>4, <1>5
<1>. QED BY <1>1, <1>2, <1>4, <1>6, <1>7, <1>8, ResultStep

-----------------------------------------------------------------------------
LEMMA Step == IInv /\ [Next]_vars => IInv'
<1>. SUFFICES ASSUME IInv, [Next]_vars PROVE IInv'
  OBVIOUS
<1>1. CASE UNCHANGED vars
  <2>1. TypeOK' /\ WorkerOK' /\ DelayedOK' /\ OutcomeAgrees'
    BY <1>1 DEF vars, IInv, TypeOK, WorkerOK, DelayedOK, OutcomeAgrees
  <2>. QED BY <1>1, <2>1, TransportStep DEF vars
<1>2. CASE Worker
  BY <1>2, PollStep, BeginStep, ApplyStep, PreviewStep, ReportStep DEF Worker
<1>. QED
  BY <1>1, <1>2, StartStep, EnvironmentStep, CommandStep, TroubleStep, ArriveStep
     DEF Next

(* The inductive invariant.                                                *)
THEOREM Inductive == Spec => []IInv
BY Initial, Step, PTL DEF Spec

(* Types, for every value of the constants.                                *)
THEOREM TypeCorrect == Spec => []TypeOK
<1>1. IInv => TypeOK
  BY DEF IInv
<1>. QED BY <1>1, Inductive, PTL

(* However often a command comes, it reopens its attempt at most once.     *)
THEOREM CountsResets == Spec => []AppliedOnce
<1>1. IInv => AppliedOnce
  BY DEF IInv, Counted, AppliedOnce, AppliedTo
<1>. QED BY <1>1, Inductive, PTL

(* What Central was told of a command is what the node holds of it.        *)
THEOREM CentralAgrees == Spec => []OutcomeAgrees
<1>1. IInv => OutcomeAgrees
  BY DEF IInv
<1>. QED BY <1>1, Inductive, PTL

(* Only ApplyReset reopens an attempt, and only one that it still finds as *)
(* a preview has shown it, in time.                                        *)
THEOREM UndoesWhatWasSeen == Spec => ReopensWhatWasSeen
<1>1. ASSUME IInv, [Next]_vars, NEW a \in AttemptId, Reopened(a)
      PROVE  /\ \E p \in Command : /\ command[p].kind = "preview"
                                   /\ outcome[p].status = "applied"
                                   /\ outcome[p].sight = SightOf(a)
             /\ ~exam.fenced
             /\ clock < EndsAt /\ clock < Deadline /\ clock < attempt[a].due
  <2>. DEFINE q == worker.current
              c == command[q].expected.target
  <2>1. ApplyReset
    <3>1. attempt'[a] # attempt[a]
      BY <1>1 DEF Reopened, Finished
    <3>2. ASSUME NEW b \in AttemptId, StartAttempt(b) \/ FinalizeAttempt(b)
          PROVE  FALSE
      <4>1. attempt \in [AttemptId -> [status: {"none", "in_progress"} \cup Finished,
                                       generation: Nat, due: Nat, at: Time]]
        BY <1>1 DEF IInv, TypeOK
      <4>2. b = a /\ attempt[a].status \in {"none", "in_progress"}
        BY <3>1, <3>2, <4>1 DEF StartAttempt, FinalizeAttempt
      <4>. QED BY <1>1, <4>2 DEF Reopened, Finished
    <3>3. attempt' = attempt \/ ApplyReset
      BY <1>1, <3>2 DEF Next, Worker, vars, MarkDeploymentFenced, LoadBundle, Tick,
           IssuePreview, IssueReset, IssueMalformed, Issue, PollOnce, Begin,
           PreviewReset, Report, TxFails, ReportFails, Arrive, Crash
    <3>. QED BY <3>1, <3>3
  <2>2. /\ q \in Command /\ c \in AttemptId /\ worker.now \in Nat
        /\ \E p \in Command : /\ command[p].kind = "preview"
                              /\ outcome[p].status = "applied"
                              /\ outcome[p].sight = command[q].expected
    BY <1>1, <2>1, ApplyFacts
  <2>3. Verdict(q, worker.now) = "applied" /\ a = c
    <3>1. /\ attempt'[a] # attempt[a]
          /\ attempt \in [AttemptId -> [status: {"none", "in_progress"} \cup Finished,
                                        generation: Nat, due: Nat, at: Time]]
      BY <1>1 DEF IInv, TypeOK, Reopened, Finished
    <3>. QED BY <2>1, <3>1 DEF ApplyReset
  <2>4. /\ ~WrongExam(q) /\ ~Changed(q) /\ ~TooLate(q, worker.now)
    BY <2>3 DEF Verdict
  <2>5. SightOf(a) = command[q].expected
    BY <2>3, <2>4 DEF Changed
  <2>6. ~exam.fenced
    BY <2>4 DEF WrongExam
  <2>7. clock \in Nat /\ attempt[a].due \in Nat /\ EndsAt \in Nat /\ Deadline \in Nat
    BY <1>1, ResetAssumption DEF IInv, TypeOK
  <2>8. clock < EndsAt /\ clock < Deadline /\ clock < attempt[a].due
    BY <2>3, <2>4, <2>7 DEF TooLate
  <2>. QED BY <2>2, <2>5, <2>6, <2>8
<1>2. IInv /\ [Next]_vars =>
        \A a \in AttemptId : Reopened(a) =>
          /\ \E p \in Command : /\ command[p].kind = "preview"
                                /\ outcome[p].status = "applied"
                                /\ outcome[p].sight = SightOf(a)
          /\ ~exam.fenced
          /\ clock < EndsAt /\ clock < Deadline /\ clock < attempt[a].due
  BY <1>1
<1>. QED BY <1>2, Inductive, PTL DEF ReopensWhatWasSeen, Spec
=============================================================================
