---------------------------- MODULE AttemptReset ----------------------------
(***************************************************************************)
(* Resets ordered by Central.  Central asks for a preview of a             *)
(* participant's latest attempt and, from what the preview said, builds a  *)
(* compare-and-set command to reopen that attempt.  The node's worker      *)
(* polls the commands that have no outcome yet, handles each in one        *)
(* transaction, keeps the result in the operations table and reports it; a *)
(* command that comes again gets the stored result.                        *)
(*                                                                         *)
(* A transaction is two steps: the time is read before the row locks are   *)
(* waited for, the rows after.  Meanwhile the student starts and submits,  *)
(* the attempt expires, the exam is fenced or reloaded.                    *)
(***************************************************************************)
EXTENDS Naturals, FiniteSets

CONSTANTS
  AttemptId,       \* the attempts of one participant
  Deployment, None,
  Command,         \* request ids, numbers in the order Central issues them
  Fractional,      \* commands whose deadline has a fraction of a second
  RowDeployment,   \* DeploymentID of a participant as read from its row
  EndsAt, Duration,
  Deadline,        \* of every command
  MaxPerPoll,      \* maxAttemptResetCommandsPerPoll
  MaxTime, MaxFaults       \* bounds of the model

ASSUME ResetAssumption ==
  /\ None \notin AttemptId \cup Deployment \cup Command
  /\ RowDeployment \in Deployment \cup {None}
  /\ {EndsAt, Duration, Deadline} \subseteq Nat
  /\ MaxPerPoll \in Nat \ {0}
  /\ {MaxTime, MaxFaults} \subseteq Nat
  /\ Command \subseteq Nat /\ Fractional \subseteq Command

VARIABLES
  clock,
  exam,       \* row: deployment_id, fenced_at set or not
  attempt,    \* rows: status, reset_generation, due_at, time of submission
  latest,     \* latest_attempt_id of the participant
  command,    \* Central: what was issued under each request id
  outcome,    \* Central: the outcome reported for it
  operation,  \* attempt_reset_operations: the stored result
  worker,     \* locals of the polling worker
  delayed,    \* reports the worker gave up on, which may arrive or not
  faults      \* crashes, failed transactions and delayed reports so far

vars == <<clock, exam, attempt, latest, command, outcome, operation, worker,
          delayed, faults>>

Finished == {"submitted", "auto_submitted"}
Time     == Nat \cup {None}

(* What is seen of an attempt: in a preview, and as expected by a reset.   *)
Sight == [target: AttemptId \cup {None}, generation: Nat, at: Time,
          status: {"none", "in_progress"} \cup Finished]

Result == [status: {"none", "applied", "rejected", "expired",
                    "already_in_progress"}, sight: Sight]

TypeOK ==
  /\ clock \in Nat
  /\ exam \in [deployment: Deployment, fenced: BOOLEAN]
  /\ attempt \in [AttemptId -> [status: {"none", "in_progress"} \cup Finished,
                                generation: Nat, due: Nat, at: Time]]
  /\ latest \in AttemptId \cup {None}
  /\ command \in [Command -> [kind: {"none", "preview", "reset", "malformed"},
                              deployment: Deployment \cup {None},
                              expected: Sight]]
  /\ outcome \in [Command -> Result]
  /\ operation \in [Command -> Result]
  /\ worker \in [pc: {"idle", "next", "tx", "report"}, batch: SUBSET Command,
                 current: Command \cup {None}, now: Nat]
  /\ delayed \subseteq [command: Command, result: Result]
  /\ faults \in Nat

-----------------------------------------------------------------------------
NoSight  == [target |-> None, generation |-> 0, at |-> None, status |-> "none"]
NoResult == [status |-> "none", sight |-> NoSight]
Unissued == [kind |-> "none", deployment |-> None, expected |-> NoSight]
Resting  == [pc |-> "idle", batch |-> {}, current |-> None, now |-> 0]

Init ==
  /\ clock = 0
  /\ \E dep \in Deployment : exam = [deployment |-> dep, fenced |-> FALSE]
  /\ attempt = [a \in AttemptId |->
                  [status |-> "none", generation |-> 0, due |-> 0,
                   at |-> None]]
  /\ latest = None
  /\ command = [q \in Command |-> Unissued]
  /\ outcome = [q \in Command |-> NoResult]
  /\ operation = [q \in Command |-> NoResult]
  /\ worker = Resting
  /\ delayed = {}
  /\ faults = 0

SightOf(a) == [target |-> a, generation |-> attempt[a].generation,
               at |-> attempt[a].at, status |-> attempt[a].status]

-----------------------------------------------------------------------------
(* The rest of the node.                                                   *)

StartAttempt(a) ==
  /\ attempt[a].status = "none"
  /\ latest # None => attempt[latest].status \in Finished
  /\ clock <= EndsAt
  /\ attempt' = [attempt EXCEPT ![a].status = "in_progress",
                   ![a].due = IF clock + Duration < EndsAt
                              THEN clock + Duration ELSE EndsAt]
  /\ latest' = a
  /\ UNCHANGED <<clock, exam, command, outcome, operation, worker,
                 delayed, faults>>

(* Mutant of FinalizeAttempt: a status of its own for what has expired.    *)
FinalizeAsExpired(a) ==
  /\ attempt[a].status = "in_progress"
  /\ attempt' = [attempt EXCEPT ![a].at = clock, ![a].status =
                   IF clock < attempt[a].due THEN "submitted" ELSE "expired"]
  /\ UNCHANGED <<clock, exam, latest, command, outcome, operation, worker,
                 delayed, faults>>

FinalizeAttempt(a) ==
  /\ attempt[a].status = "in_progress"
  /\ attempt' = [attempt EXCEPT ![a].at = clock, ![a].status =
                   IF clock > attempt[a].due THEN "auto_submitted" ELSE "submitted"]
  /\ UNCHANGED <<clock, exam, latest, command, outcome, operation, worker,
                 delayed, faults>>

MarkDeploymentFenced ==
  /\ ~exam.fenced
  /\ exam' = [exam EXCEPT !.fenced = TRUE]
  /\ UNCHANGED <<clock, attempt, latest, command, outcome, operation, worker,
                 delayed, faults>>

(* The same exam loaded for another deployment.                            *)
LoadBundle(dep) ==
  /\ dep # exam.deployment
  /\ exam' = [deployment |-> dep, fenced |-> FALSE]
  /\ UNCHANGED <<clock, attempt, latest, command, outcome, operation, worker,
                 delayed, faults>>

Tick ==
  /\ clock < MaxTime
  /\ clock' = clock + 1
  /\ UNCHANGED <<exam, attempt, latest, command, outcome, operation, worker,
                 delayed, faults>>

-----------------------------------------------------------------------------
(* Central issues commands, each once and for all; a reset expects what a  *)
(* preview has told.                                                       *)

Issue(q, kind, dep, sight) ==
  /\ command[q].kind = "none"
  /\ \A p \in Command : p < q => command[p].kind # "none"
  /\ command' = [command EXCEPT ![q] =
                   [kind |-> kind, deployment |-> dep, expected |-> sight]]
  /\ UNCHANGED <<clock, exam, attempt, latest, outcome, operation, worker,
                 delayed, faults>>

IssuePreview(q, dep) == Issue(q, "preview", dep, NoSight)

IssueReset(q, p) ==
  /\ command[p].kind = "preview"
  /\ outcome[p].status = "applied"
  /\ Issue(q, "reset", command[p].deployment, outcome[p].sight)

(* A command that will fail the validation of its fields.                  *)
IssueMalformed(q) == Issue(q, "malformed", None, NoSight)

-----------------------------------------------------------------------------
(* The worker.                                                             *)

Pending == {q \in Command : /\ command[q].kind # "none"
                            /\ outcome[q].status = "none"}

(* Central lists the oldest commands first; a poll takes as many from the  *)
(* front as it may.                                                        *)
Front(listed) ==
  {q \in listed : Cardinality({p \in listed : p < q}) < MaxPerPoll}

(* A poll that finds nothing ends at once.                                 *)
PollOnce ==
  /\ worker.pc = "idle"
  /\ worker' = IF Pending = {} THEN Resting
               ELSE [Resting EXCEPT !.pc = "next", !.batch = Front(Pending)]
  /\ UNCHANGED <<clock, exam, attempt, latest, command, outcome, operation,
                 delayed, faults>>

(* On to the next command, when there is one.                              *)
Continue ==
  worker' = LET rest == worker.batch \ {worker.current} IN
            IF rest = {} THEN Resting
            ELSE [Resting EXCEPT !.pc = "next", !.batch = rest]

(* A command that is known already but no longer equals its stored copy,   *)
(* whose DATETIME columns keep whole seconds, ends in a conflict.          *)
Unlike(q) == operation[q].status # "none" /\ q \in Fractional

Failing == {q \in Command : command[q].kind = "malformed" \/ Unlike(q)}

(* Mutant of Begin: a stored result is not looked up, so a command that    *)
(* comes again is handled again.                                           *)
BeginAgain(q) ==
  /\ worker.pc = "next" /\ q \in worker.batch
  /\ worker' = IF command[q].kind # "malformed"
               THEN [worker EXCEPT !.current = q, !.now = clock, !.pc = "tx"]
               ELSE IF worker.batch = {q} THEN Resting
               ELSE [worker EXCEPT !.batch = @ \ {q}]
  /\ UNCHANGED <<clock, exam, attempt, latest, command, outcome, operation,
                 delayed, faults>>

(* Mutant of Begin: a command that fails ends the poll, and the next poll  *)
(* starts with it.                                                         *)
BeginOrStop(q) ==
  /\ worker.pc = "next" /\ q \in worker.batch
  /\ worker.batch \cap Failing # {} => q \in Failing
  /\ worker' =
       IF q \in Failing THEN Resting
       ELSE [worker EXCEPT !.current = q, !.now = clock,
               !.pc = IF operation[q].status = "none" THEN "tx" ELSE "report"]
  /\ UNCHANGED <<clock, exam, attempt, latest, command, outcome, operation,
                 delayed, faults>>

(* The command is validated and compared, which may end it without any     *)
(* outcome; then a stored result is reported again, and a new command      *)
(* reads the time.                                                         *)
Begin(q) ==
  /\ worker.pc = "next" /\ q \in worker.batch
  /\ worker' =
       IF q \notin Failing
       THEN [worker EXCEPT !.current = q, !.now = clock,
               !.pc = IF operation[q].status = "none" THEN "tx" ELSE "report"]
       ELSE IF worker.batch = {q} THEN Resting
       ELSE [worker EXCEPT !.batch = @ \ {q}]
  /\ UNCHANGED <<clock, exam, attempt, latest, command, outcome, operation,
                 delayed, faults>>

-----------------------------------------------------------------------------
(* ApplyReset and PreviewReset, from the row locks to the commit.          *)

WrongExam(q) == exam.deployment # command[q].deployment \/ exam.fenced

WrongParticipant(q) == RowDeployment # command[q].deployment

WrongTarget(q) ==
  WrongParticipant(q) \/ latest # command[q].expected.target

(* Mutant of Changed: only the status is compared.                         *)
ChangedStatus(q) ==
  LET a == command[q].expected.target IN
  attempt[a].status # command[q].expected.status

(* The attempt is no longer as the operator saw it.                        *)
Changed(q) == SightOf(command[q].expected.target) # command[q].expected

(* The clock is read again once everything is locked.                      *)
TooLate(q, now) ==
  \/ now >= attempt[command[q].expected.target].due
  \/ clock >= attempt[command[q].expected.target].due
  \/ clock >= Deadline
  \/ clock >= EndsAt

(* The checks of ApplyReset, in their order.                               *)
Verdict(q, now) ==
  IF now >= Deadline THEN "expired"
  ELSE IF WrongExam(q) THEN "rejected"
  ELSE IF now >= EndsAt THEN "expired"
  ELSE IF WrongTarget(q) \/ Changed(q) THEN "rejected"
  ELSE IF command[q].expected.status = "in_progress"
       THEN "already_in_progress"
  ELSE IF TooLate(q, now) THEN "expired"
  ELSE "applied"

(* What finishOutcome and finishRejectedReset store: a refusal tells no    *)
(* more of the attempt than which one was asked for.                       *)
ResultOf(q, verdict) ==
  LET seen == command[q].expected IN
  [status |-> verdict,
   sight |->
     IF verdict \in {"rejected", "expired"}
     THEN [NoSight EXCEPT !.target = seen.target]
     ELSE [seen EXCEPT !.at = None, !.status = "in_progress",
             !.generation = IF verdict = "applied" THEN @ + 1 ELSE @]]

ApplyReset ==
  LET q == worker.current
      a == command[q].expected.target
      verdict == Verdict(q, worker.now)
  IN
  /\ worker.pc = "tx" /\ command[q].kind = "reset"
  /\ operation' = [operation EXCEPT ![q] = ResultOf(q, verdict)]
  /\ attempt' = IF verdict = "applied"
                THEN [attempt EXCEPT ![a].status = "in_progress",
                                     ![a].generation = @ + 1, ![a].at = None]
                ELSE attempt
  /\ worker' = [worker EXCEPT !.pc = "report"]
  /\ UNCHANGED <<clock, exam, latest, command, outcome, delayed, faults>>

PreviewReset ==
  LET q == worker.current
      ready == /\ worker.now < Deadline
               /\ ~WrongExam(q) /\ ~WrongParticipant(q)
               /\ latest # None
  IN
  /\ worker.pc = "tx" /\ command[q].kind = "preview"
  /\ operation' = [operation EXCEPT ![q] =
       IF ready THEN [status |-> "applied", sight |-> SightOf(latest)]
       ELSE [NoResult EXCEPT !.status =
               IF worker.now >= Deadline THEN "expired" ELSE "rejected"]]
  /\ worker' = [worker EXCEPT !.pc = "report"]
  /\ UNCHANGED <<clock, exam, attempt, latest, command, outcome, delayed, faults>>

(* The transaction rolls back and the worker goes on.                      *)
TxFails ==
  /\ worker.pc = "tx"
  /\ faults < MaxFaults
  /\ faults' = faults + 1
  /\ Continue
  /\ UNCHANGED <<clock, exam, attempt, latest, command, outcome, operation,
                 delayed>>

Report ==
  /\ worker.pc = "report"
  /\ outcome' = [outcome EXCEPT ![worker.current] = operation[worker.current]]
  /\ Continue
  /\ UNCHANGED <<clock, exam, attempt, latest, command, operation, delayed,
                 faults>>

(* The report ends in an error, perhaps only at the worker's end.          *)
ReportFails ==
  /\ worker.pc = "report"
  /\ faults < MaxFaults
  /\ faults' = faults + 1
  /\ delayed' = delayed \cup {[command |-> worker.current,
                               result |-> operation[worker.current]]}
  /\ Continue
  /\ UNCHANGED <<clock, exam, attempt, latest, command, outcome, operation>>

Arrive(m) ==
  /\ outcome' = [outcome EXCEPT ![m.command] = m.result]
  /\ delayed' = delayed \ {m}
  /\ UNCHANGED <<clock, exam, attempt, latest, command, operation, worker,
                 faults>>

Crash ==
  /\ worker.pc # "idle"
  /\ faults < MaxFaults
  /\ faults' = faults + 1
  /\ worker' = Resting
  /\ UNCHANGED <<clock, exam, attempt, latest, command, outcome, operation,
                 delayed>>

-----------------------------------------------------------------------------
Worker ==
  \/ PollOnce
  \/ \E q \in Command : Begin(q)
  \/ ApplyReset
  \/ PreviewReset
  \/ Report

Next ==
  \/ \E a \in AttemptId : StartAttempt(a) \/ FinalizeAttempt(a)
  \/ MarkDeploymentFenced
  \/ \E dep \in Deployment : LoadBundle(dep)
  \/ Tick
  \/ \E q \in Command :
       \/ \E dep \in Deployment : IssuePreview(q, dep)
       \/ \E p \in Command : IssueReset(q, p)
       \/ IssueMalformed(q)
  \/ Worker
  \/ TxFails
  \/ ReportFails
  \/ \E m \in delayed : Arrive(m)
  \/ Crash

(* The polling loop goes on for as long as the process does.               *)
Fairness == WF_vars(Worker)

Spec == Init /\ [][Next]_vars
FairSpec == Spec /\ Fairness
-----------------------------------------------------------------------------
(* However often a command comes, it reopens its attempt at most once, and *)
(* what is stored as applied has happened: an attempt's generation is the  *)
(* number of resets stored as applied to it.                               *)
AppliedOnce ==
  \A a \in AttemptId :
    attempt[a].generation =
      Cardinality({q \in Command : /\ command[q].kind = "reset"
                                   /\ operation[q].status = "applied"
                                   /\ operation[q].sight.target = a})

(* What Central has been told of a command is what the node holds of it,   *)
(* then and ever after, although reports are lost, late and repeated.      *)
OutcomeAgrees ==
  \A q \in Command : outcome[q].status # "none" => outcome[q] = operation[q]

Reopened(a) == /\ attempt[a].status \in Finished
               /\ attempt'[a].status = "in_progress"

(* The submission that a reset undoes is the very one that an operator was *)
(* shown, and it is undone in time: while the exam is open and not fenced, *)
(* and the command and the attempt have time left.  A command built on an  *)
(* older sight, delivered late, or kept waiting for the locks undoes none. *)
ReopensWhatWasSeen ==
  [][\A a \in AttemptId : Reopened(a) =>
       /\ \E p \in Command : /\ command[p].kind = "preview"
                             /\ outcome[p].status = "applied"
                             /\ outcome[p].sight = SightOf(a)
       /\ ~exam.fenced
       /\ clock < EndsAt /\ clock < Deadline /\ clock < attempt[a].due]_vars

(* Older commands that may come to nothing but be listed for ever: those   *)
(* that are malformed, and those that their stored copy will not equal     *)
(* once it is there.                                                       *)
HopelessBefore(q) ==
  {p \in Command : /\ p < q
                   /\ command[p].kind = "malformed" \/ p \in Fractional}

(* While fewer such commands stand before it than a poll takes, every      *)
(* well-formed command is answered in the end, whatever reports and        *)
(* transactions are lost on the way, unless it has itself become one that  *)
(* its stored copy does not equal.  With as many as a poll takes at the    *)
(* front of the list (attempt_reset_worker.go:37-39), what follows is      *)
(* never looked at.                                                        *)
EveryCommandAnswered ==
  \A q \in Command :
    (/\ command[q].kind \in {"preview", "reset"}
     /\ Cardinality(HopelessBefore(q)) < MaxPerPoll)
      ~> outcome[q].status # "none" \/ Unlike(q)

(* docs/runbook.md:95 "The reset reopens the same attempt": a preview of a *)
(* participant's latest attempt, in an open exam of that deployment, ends  *)
(* with the attempt's metadata.                                            *)
PreviewShowsAttempt ==
  [][\A q \in Command :
       /\ command[q].kind = "preview"
       /\ operation[q].status = "none" /\ operation'[q].status # "none"
       /\ latest # None /\ clock < Deadline
       /\ exam = [deployment |-> command[q].deployment, fenced |-> FALSE]
       => operation'[q].status = "applied"]_vars
=============================================================================
