-------------------------- MODULE AttemptLifecycle --------------------------
(***************************************************************************)
(* The life of exam attempts on one node, for one loaded exam: students    *)
(* start, save answers, submit and read state; sweepers finalize what has  *)
(* expired; an operator's reset reopens a finished attempt.                *)
(*                                                                         *)
(* A step is what the database makes atomic: one statement outside a       *)
(* transaction, or a transaction from its row lock to its commit.  A       *)
(* handler that reads an attempt and only later writes is therefore two    *)
(* steps, and everything else may run between them.  The one transaction   *)
(* that mixes a locked row with an InnoDB snapshot read (startAttempt) is  *)
(* two steps as well: lock and snapshot, then write and commit.            *)
(***************************************************************************)
EXTENDS Naturals, FiniteSets

CONSTANTS
  Participant, AttemptId, Device, Item,
  Request,         \* handler goroutines serving students
  Sweeper,         \* ticker, pre-harvest sweep, examharvest: each may sweep
  None,            \* no attempt, no device, no holder
  StartsAt, EndsAt, Duration, MaxAttempts,   \* columns of the exam row
  MaxTime, MaxSeq, MaxGeneration, MaxFaults  \* bounds of the model

ASSUME NoneAssumption ==
  None \notin Participant \cup AttemptId \cup Device \cup Item \cup Request

ASSUME NumbersAssumption ==
  /\ {StartsAt, EndsAt, Duration, MaxAttempts} \subseteq Nat
  /\ {MaxTime, MaxSeq, MaxGeneration, MaxFaults} \subseteq Nat

VARIABLES
  clock,
  participant,      \* row: attempt_count and latest_attempt_id
  attempt,          \* row of every attempt id, status "none" before insert
  answer,           \* answer rows, by item; client_seq 0 when there is none
  request,          \* locals of the handler each goroutine is running
  participantLock,  \* holder of SELECT ... FOR UPDATE on a participant
  sweep,            \* what each sweeper has listed and not yet finalized
  granted,          \* history: devices a start has handed each attempt to
  faults            \* crashes and failed finalizations so far

vars == <<clock, participant, attempt, answer, request, participantLock,
          sweep, granted, faults>>

Status   == {"none", "in_progress", "submitted", "auto_submitted"}
Finished == {"submitted", "auto_submitted"}
ClientSeq == 0..MaxSeq

(* An answer row: the client_seq of the content, and that of the save whose *)
(* grade its score, max_score and grading_status columns hold.             *)
Saved   == [seq: ClientSeq, graded: ClientSeq]
Answers == [Item -> Saved]

(* A score as the client_seq that each item was graded at.                 *)
Scores  == [Item -> ClientSeq]

Row == [owner: Participant \cup {None}, no: Nat, status: Status,
        device: Device \cup {None}, due: Nat, generation: Nat,
        score: Scores]

Step == {"idle", "start_lookup", "start_bind", "start_finalize", "start_tx",
         "start_commit", "save", "submit", "state"}

Local == [pc: Step, who: Participant \cup {None}, device: Device \cup {None},
          now: Nat, full: BOOLEAN, target: AttemptId \cup {None},
          bound: Device \cup {None}, seen: Scores, item: Item \cup {None},
          seq: ClientSeq]

TypeOK ==
  /\ clock \in Nat
  /\ participant \in [Participant ->
                        [count: Nat, latest: AttemptId \cup {None}]]
  /\ attempt \in [AttemptId -> Row]
  /\ answer \in [AttemptId -> Answers]
  /\ request \in [Request -> Local]
  /\ participantLock \in [Participant -> Request \cup {None}]
  /\ sweep \in [Sweeper -> SUBSET AttemptId]
  /\ granted \in [AttemptId -> SUBSET Device]
  /\ faults \in Nat

-----------------------------------------------------------------------------
NoAnswers == [i \in Item |-> [seq |-> 0, graded |-> 0]]

NoScore == [i \in Item |-> 0]

NoRow == [owner |-> None, no |-> 0, status |-> "none", device |-> None,
          due |-> 0, generation |-> 0, score |-> NoScore]

Idle == [pc |-> "idle", who |-> None, device |-> None, now |-> 0,
         full |-> FALSE, target |-> None, bound |-> None, seen |-> NoScore,
         item |-> None, seq |-> 0]

Init ==
  /\ clock = 0
  /\ participant = [p \in Participant |-> [count |-> 0, latest |-> None]]
  /\ attempt = [a \in AttemptId |-> NoRow]
  /\ answer = [a \in AttemptId |-> NoAnswers]
  /\ request = [r \in Request |-> Idle]
  /\ participantLock = [p \in Participant |-> None]
  /\ sweep = [s \in Sweeper |-> {}]
  /\ granted = [a \in AttemptId |-> {}]
  /\ faults = 0

-----------------------------------------------------------------------------
(* Queries and pieces of the handlers.                                     *)

ActiveOf(p) == {a \in AttemptId : /\ attempt[a].status = "in_progress"
                                  /\ attempt[a].owner = p}

Earlier(s, t) == IF s < t THEN s ELSE t

(* A device that may not use an attempt bound to device b.                 *)
Mismatch(b, d) == b # None /\ b # d

(* The total over the scores of the stored answers, kept as the saves that *)
(* each of them is the grade of.                                           *)
Score(a) == [i \in Item |-> answer[a][i].graded]

(* Mutants of Finalized: a status outside the enum; a forgotten re-check of *)
(* the locked row.                                                         *)
FinalizedAsExpired(a, auto) ==
  IF attempt[a].status # "in_progress" THEN attempt
  ELSE [attempt EXCEPT
          ![a].status = IF auto THEN "expired" ELSE "submitted",
          ![a].score  = Score(a)]

FinalizedUnchecked(a, auto) ==
  [attempt EXCEPT ![a].status = IF auto THEN "auto_submitted" ELSE "submitted",
                  ![a].score  = Score(a)]

(* The attempt table after finalizeAttempt: the row is locked, so one that *)
(* is no longer in progress is left alone; the score is that of the        *)
(* answers stored at this moment.                                          *)
Finalized(a, auto) ==
  IF attempt[a].status # "in_progress" THEN attempt
  ELSE [attempt EXCEPT
          ![a].status = IF auto THEN "auto_submitted" ELSE "submitted",
          ![a].score  = Score(a)]

(* Mutant of Bindable: binds a row another device took meanwhile.          *)
BindableByAnyone(a, d) == attempt[a].status = "in_progress"

(* BindAttemptDevice updates a row that is in progress and free or ours.   *)
Bindable(a, d) == /\ attempt[a].status = "in_progress"
                  /\ attempt[a].device \in {None, d}

Grant(a, d) == granted' = [granted EXCEPT ![a] = @ \cup ({d} \ {None})]

Goto(r, pc, a) ==
  request' = [request EXCEPT ![r].pc = pc, ![r].target = a]

Return(r) == request' = [request EXCEPT ![r] = Idle]

-----------------------------------------------------------------------------
(* StartAttempt                                                            *)

StartBegin(r, p, d) ==
  /\ request[r].pc = "idle"
  /\ StartsAt <= clock /\ clock <= EndsAt
  /\ request' = [request EXCEPT ![r] =
                   [Idle EXCEPT !.pc = "start_lookup", !.who = p,
                                !.device = d, !.now = clock]]
  /\ UNCHANGED <<clock, participant, attempt, answer, participantLock, sweep,
                 granted, faults>>

(* The active attempt a is ours: hand it out, or close it if it expired;   *)
(* full remembers whether the count read before is already exhausted.      *)
Resume(r, a, full) ==
  IF request[r].now > attempt[a].due
  THEN /\ request' = [request EXCEPT ![r].pc = "start_finalize",
                                     ![r].target = a, ![r].full = full]
       /\ UNCHANGED granted
  ELSE /\ Return(r)
       /\ Grant(a, request[r].device)

(* Lookup outside any transaction: a count that is already exhausted ends  *)
(* the request here, or after the expired attempt has been finalized.      *)
StartLookup(r) ==
  LET p == request[r].who
      d == request[r].device
      full == participant[p].count >= MaxAttempts
  IN
  /\ request[r].pc = "start_lookup"
  /\ \/ /\ ActiveOf(p) = {}
        /\ IF full THEN Return(r) ELSE Goto(r, "start_tx", None)
        /\ UNCHANGED granted
     \/ \E a \in ActiveOf(p) :
          \/ /\ Mismatch(attempt[a].device, d)
             /\ Return(r)
             /\ UNCHANGED granted
          \/ /\ attempt[a].device = None
             /\ d # None
             /\ request' = [request EXCEPT ![r].pc = "start_bind",
                                           ![r].target = a, ![r].full = full]
             /\ UNCHANGED granted
          \/ /\ attempt[a].device = d
             /\ Resume(r, a, full)
  /\ UNCHANGED <<clock, participant, attempt, answer, participantLock, sweep,
                 faults>>

StartBind(r) ==
  LET a == request[r].target
      d == request[r].device
  IN
  /\ request[r].pc = "start_bind"
  /\ \/ /\ Bindable(a, d)
        /\ attempt' = [attempt EXCEPT ![a].device = d]
        /\ Resume(r, a, request[r].full)
     \/ /\ ~Bindable(a, d)
        /\ Return(r)
        /\ UNCHANGED <<attempt, granted>>
  /\ UNCHANGED <<clock, participant, answer, participantLock, sweep, faults>>

StartFinalize(r) ==
  /\ request[r].pc = "start_finalize"
  /\ attempt' = Finalized(request[r].target, TRUE)
  /\ IF request[r].full THEN Return(r) ELSE Goto(r, "start_tx", None)
  /\ UNCHANGED <<clock, participant, answer, participantLock, sweep, granted,
                 faults>>

(* The transaction locks the participant; its first plain read, the active *)
(* attempt, fixes the snapshot that later plain reads will see: the free   *)
(* device and the answers, of which only the score is ever asked.          *)
StartLock(r) ==
  LET p == request[r].who IN
  /\ request[r].pc = "start_tx"
  /\ participantLock[p] = None
  /\ participantLock' = [participantLock EXCEPT ![p] = r]
  /\ \/ /\ ActiveOf(p) = {}
        /\ Goto(r, "start_commit", None)
     \/ \E a \in ActiveOf(p) :
          request' = [request EXCEPT ![r].pc = "start_commit",
                                     ![r].target = a,
                                     ![r].bound = attempt[a].device,
                                     ![r].seen = Score(a)]
  /\ UNCHANGED <<clock, participant, attempt, answer, sweep, granted, faults>>

(* Mutant of CreateAttempt: the count check lets one attempt too many by.  *)
CreateOneTooMany(r, rows) ==
  LET p == request[r].who
      n == participant[p].count + 1
  IN
  \/ /\ participant[p].count > MaxAttempts
     /\ UNCHANGED <<attempt, participant, granted>>
  \/ /\ participant[p].count <= MaxAttempts
     /\ \E a \in AttemptId :
          /\ rows[a].status = "none"
          /\ attempt' = [rows EXCEPT ![a] =
                [owner |-> p, no |-> n, status |-> "in_progress",
                 device |-> request[r].device,
                 due |-> Earlier(request[r].now + Duration, EndsAt),
                 generation |-> 0, score |-> NoScore]]
          /\ participant' = [participant EXCEPT
                               ![p] = [count |-> n, latest |-> a]]
          /\ Grant(a, request[r].device)

(* A new attempt in table rows, unless the count is exhausted: that error  *)
(* rolls the transaction back, and with it the finalization in rows.       *)
CreateAttempt(r, rows) ==
  LET p == request[r].who
      n == participant[p].count + 1
  IN
  \/ /\ participant[p].count >= MaxAttempts
     /\ UNCHANGED <<attempt, participant, granted>>
  \/ /\ participant[p].count < MaxAttempts
     /\ \E a \in AttemptId :
          /\ rows[a].status = "none"
          /\ attempt' = [rows EXCEPT ![a] =
                [owner |-> p, no |-> n, status |-> "in_progress",
                 device |-> request[r].device,
                 due |-> Earlier(request[r].now + Duration, EndsAt),
                 generation |-> 0, score |-> NoScore]]
          /\ participant' = [participant EXCEPT
                               ![p] = [count |-> n, latest |-> a]]
          /\ Grant(a, request[r].device)

(* The end of the transaction, by what its snapshot showed.                *)
EndStart(r) ==
  /\ request[r].pc = "start_commit"
  /\ Return(r)
  /\ participantLock' = [participantLock EXCEPT ![request[r].who] = None]
  /\ UNCHANGED <<clock, answer, sweep, faults>>

(* The snapshot's active attempt is to be bound to this device first.      *)
Binding(r) == request[r].bound = None /\ request[r].device # None

(* A row that is not free any more counts as taken even when this device   *)
(* took it: the update then changes no row and the check that follows      *)
(* reads the snapshot, where the row is still free.                        *)
Refused(r) ==
  \/ Mismatch(request[r].bound, request[r].device)
  \/ /\ Binding(r)
     /\ \/ attempt[request[r].target].status # "in_progress"
        \/ attempt[request[r].target].device # None

DeviceAfter(r) == IF Binding(r) THEN request[r].device
                  ELSE attempt[request[r].target].device

(* Mutant of MustFinalize: an attempt that is not due is closed too.        *)
MustFinalizeActive(r) == attempt[request[r].target].status = "in_progress"

MustFinalize(r) == /\ request[r].now > attempt[request[r].target].due
                   /\ attempt[request[r].target].status = "in_progress"

CommitNew(r) ==
  /\ EndStart(r)
  /\ request[r].target = None
  /\ CreateAttempt(r, attempt)

CommitRefused(r) ==
  /\ EndStart(r)
  /\ request[r].target # None
  /\ Refused(r)
  /\ UNCHANGED <<attempt, participant, granted>>

(* The row is read under a lock, its answers in the snapshot: one that was *)
(* saved since StartLock is in the table and not in the score.             *)
CommitExpired(r) ==
  LET a == request[r].target IN
  /\ EndStart(r)
  /\ a # None
  /\ ~Refused(r)
  /\ MustFinalize(r)
  /\ CreateAttempt(r, [Finalized(a, TRUE) EXCEPT ![a].device = DeviceAfter(r),
                                                 ![a].score = request[r].seen])

(* The active attempt is handed out.  One that the snapshot shows active   *)
(* and expired but that another finalizer closed since is found again by   *)
(* the second lookup, in the same snapshot, and handed out as well.        *)
CommitActive(r) ==
  LET a == request[r].target IN
  /\ EndStart(r)
  /\ a # None
  /\ ~Refused(r)
  /\ ~MustFinalize(r)
  /\ attempt' = [attempt EXCEPT ![a].device = DeviceAfter(r)]
  /\ Grant(a, request[r].device)
  /\ UNCHANGED participant

-----------------------------------------------------------------------------
(* AutosaveAnswer, SubmitAttempt and GetAttemptState read the attempt      *)
(* without a lock; a request the read turns away changes nothing.          *)

Accepts(a) == attempt[a].status = "in_progress" /\ clock <= attempt[a].due

AutosaveCheck(r, a, i, n) ==
  /\ request[r].pc = "idle"
  /\ Accepts(a)
  /\ request' = [request EXCEPT ![r] = [Idle EXCEPT !.pc = "save",
                    !.target = a, !.item = i, !.seq = n]]
  /\ UNCHANGED <<clock, participant, attempt, answer, participantLock, sweep,
                 granted, faults>>

(* Mutant of Upserted: the last write wins.                                *)
UpsertedLast(row, n) == [row EXCEPT !.seq = n]

(* UpsertAnswer's row after a save with client_seq n.  A lower or equal    *)
(* client_seq changes no column.  The assignments of ON DUPLICATE KEY      *)
(* UPDATE are sent in the order of their names and run from left to right: *)
(* client_seq is raised before the score columns compare with it, so they  *)
(* stay as they were inserted.                                             *)
Upserted(row, n) ==
  IF row.seq = 0 THEN [seq |-> n, graded |-> n]
  ELSE [row EXCEPT !.seq = IF n > row.seq THEN n ELSE row.seq]

AutosaveUpsert(r) ==
  LET a == request[r].target
      i == request[r].item
  IN
  /\ request[r].pc = "save"
  /\ answer' = [answer EXCEPT ![a][i] = Upserted(@, request[r].seq)]
  /\ Return(r)
  /\ UNCHANGED <<clock, participant, attempt, participantLock, sweep, granted,
                 faults>>

SubmitCheck(r, a) ==
  /\ request[r].pc = "idle"
  /\ Accepts(a)
  /\ request' = [request EXCEPT ![r] =
                   [Idle EXCEPT !.pc = "submit", !.target = a]]
  /\ UNCHANGED <<clock, participant, attempt, answer, participantLock, sweep,
                 granted, faults>>

SubmitFinalize(r) ==
  /\ request[r].pc = "submit"
  /\ attempt' = Finalized(request[r].target, FALSE)
  /\ Return(r)
  /\ UNCHANGED <<clock, participant, answer, participantLock, sweep, granted,
                 faults>>

StateCheck(r, a) ==
  /\ request[r].pc = "idle"
  /\ attempt[a].status = "in_progress" /\ clock > attempt[a].due
  /\ request' = [request EXCEPT ![r] =
                   [Idle EXCEPT !.pc = "state", !.target = a]]
  /\ UNCHANGED <<clock, participant, attempt, answer, participantLock, sweep,
                 granted, faults>>

StateFinalize(r) ==
  /\ request[r].pc = "state"
  /\ attempt' = Finalized(request[r].target, TRUE)
  /\ Return(r)
  /\ UNCHANGED <<clock, participant, answer, participantLock, sweep, granted,
                 faults>>

-----------------------------------------------------------------------------
(* SweepExpiredAttempts lists once, then finalizes each in a transaction   *)
(* of its own; a failure is counted and the loop goes on.                  *)

(* Mutants of ExpiredAttempts: due_at itself counts as expired; a reopened  *)
(* attempt is not listed again.                                            *)
ExpiredAtDue == {a \in AttemptId : /\ attempt[a].status = "in_progress"
                                   /\ attempt[a].due <= clock}

ExpiredFirstGeneration ==
  {a \in AttemptId : /\ attempt[a].status = "in_progress"
                     /\ attempt[a].due < clock
                     /\ attempt[a].generation = 0}

ExpiredAttempts == {a \in AttemptId : /\ attempt[a].status = "in_progress"
                                      /\ attempt[a].due < clock}

SweepList(s) ==
  /\ sweep[s] = {}
  /\ sweep' = [sweep EXCEPT ![s] = ExpiredAttempts]
  /\ UNCHANGED <<clock, participant, attempt, answer, request,
                 participantLock, granted, faults>>

SweepFinalize(s, a) ==
  /\ a \in sweep[s]
  /\ attempt' = Finalized(a, TRUE)
  /\ sweep' = [sweep EXCEPT ![s] = @ \ {a}]
  /\ UNCHANGED <<clock, participant, answer, request, participantLock,
                 granted, faults>>

SweepFailure(s, a) ==
  /\ a \in sweep[s]
  /\ faults < MaxFaults
  /\ faults' = faults + 1
  /\ sweep' = [sweep EXCEPT ![s] = @ \ {a}]
  /\ UNCHANGED <<clock, participant, attempt, answer, request,
                 participantLock, granted>>

-----------------------------------------------------------------------------
(* Mutant of Reset: any finished attempt is reopened, not only the latest. *)
ResetAnyAttempt(a) ==
  LET p == attempt[a].owner IN
  /\ attempt[a].status \in Finished
  /\ participantLock[p] = None
  /\ clock < attempt[a].due /\ clock < EndsAt
  /\ attempt[a].generation < MaxGeneration
  /\ attempt' = [attempt EXCEPT ![a].status = "in_progress",
                                ![a].score = NoScore,
                                ![a].generation = @ + 1]
  /\ UNCHANGED <<clock, participant, answer, request, participantLock, sweep,
                 granted, faults>>

(* ApplyReset, for a command whose expectations match the row.  It locks   *)
(* exam, participant and attempt with current reads, so it is one step.    *)
Reset(a) ==
  LET p == attempt[a].owner IN
  /\ attempt[a].status \in Finished
  /\ participantLock[p] = None
  /\ participant[p].latest = a
  /\ clock < attempt[a].due /\ clock < EndsAt
  /\ attempt[a].generation < MaxGeneration
  /\ attempt' = [attempt EXCEPT ![a].status = "in_progress",
                                ![a].score = NoScore,
                                ![a].generation = @ + 1]
  /\ UNCHANGED <<clock, participant, answer, request, participantLock, sweep,
                 granted, faults>>

(* The process dies: handlers and sweeps vanish, locks are released, open  *)
(* transactions roll back.                                                 *)
Crash ==
  /\ faults < MaxFaults
  /\ faults' = faults + 1
  /\ request' = [r \in Request |-> Idle]
  /\ participantLock' = [p \in Participant |-> None]
  /\ sweep' = [s \in Sweeper |-> {}]
  /\ UNCHANGED <<clock, participant, attempt, answer, granted>>

Tick ==
  /\ clock < MaxTime
  /\ clock' = clock + 1
  /\ UNCHANGED <<participant, attempt, answer, request, participantLock,
                 sweep, granted, faults>>

-----------------------------------------------------------------------------
Start(r) ==
  \/ \E p \in Participant, d \in Device \cup {None} : StartBegin(r, p, d)
  \/ StartLookup(r)
  \/ StartBind(r)
  \/ StartFinalize(r)
  \/ StartLock(r)
  \/ CommitNew(r)
  \/ CommitRefused(r)
  \/ CommitExpired(r)
  \/ CommitActive(r)

Write(r) ==
  \/ \E a \in AttemptId :
       \/ \E i \in Item, n \in ClientSeq \ {0} : AutosaveCheck(r, a, i, n)
       \/ SubmitCheck(r, a)
       \/ StateCheck(r, a)
  \/ AutosaveUpsert(r)
  \/ SubmitFinalize(r)
  \/ StateFinalize(r)

Sweep(s) ==
  \/ SweepList(s)
  \/ \E a \in AttemptId : SweepFinalize(s, a)

Next ==
  \/ \E r \in Request : Start(r) \/ Write(r)
  \/ \E s \in Sweeper : Sweep(s) \/ \E a \in AttemptId : SweepFailure(s, a)
  \/ \E a \in AttemptId : Reset(a)
  \/ Crash
  \/ Tick

(* The sweep ticker runs for as long as the process does.                  *)
Fairness == \A s \in Sweeper : WF_vars(Sweep(s))

Spec == Init /\ [][Next]_vars
FairSpec == Spec /\ Fairness

-----------------------------------------------------------------------------
(* Only a participant's latest attempt can be in progress, so there is     *)
(* never a second one: starts, expiry and resets never open two sittings.  *)
ActiveIsLatest ==
  \A a \in AttemptId :
    attempt[a].status = "in_progress" =>
      participant[attempt[a].owner].latest = a

(* Attempt numbers of a participant are exactly 1..attempt_count, each     *)
(* used once, the latest being the highest, never above max_attempts: no   *)
(* interleaving of starts skips, repeats or exceeds a number.              *)
AttemptsAccounted ==
  \A p \in Participant :
    LET mine == {a \in AttemptId : attempt[a].owner = p} IN
    /\ participant[p].count <= MaxAttempts
    /\ \A a \in mine : attempt[a].no \in 1..participant[p].count
    /\ \A a, b \in mine : attempt[a].no = attempt[b].no => a = b
    /\ \A n \in 1..participant[p].count : \E a \in mine : attempt[a].no = n
    /\ participant[p].count > 0 =>
         /\ participant[p].latest \in mine
         /\ attempt[participant[p].latest].no = participant[p].count

(* Whatever the order of starts, binds and expiries, an attempt is handed  *)
(* to one device only.                                                     *)
OneDevicePerAttempt ==
  \A a \in AttemptId : \A d, e \in granted[a] : d = e

(* An attempt is auto-submitted only once its due time has passed, even    *)
(* when the sweeper works from an old list and a reset comes in between.   *)
AutoSubmitOnlyExpired ==
  \A a \in AttemptId :
    attempt[a].status = "auto_submitted" => attempt[a].due < clock

(* The result of a finished attempt is final: only reopening it in the     *)
(* next generation changes its row, so late finalizers, binds and retries  *)
(* cannot rewrite it.                                                      *)
ResultIsFinal ==
  [][\A a \in AttemptId :
       attempt[a].status \in Finished =>
         \/ attempt'[a] = attempt[a]
         \/ /\ attempt'[a].status = "in_progress"
            /\ attempt'[a].generation = attempt[a].generation + 1]_vars

(* A saved answer is never replaced by an older one, whatever the order in *)
(* which autosaves, finalizations, resets and crashes arrive.              *)
AnswersNeverRegress ==
  [][\A a \in AttemptId, i \in Item : answer'[a][i].seq >= answer[a][i].seq]_vars

(* Every attempt that expires is finalized by some sweep, although sweeps  *)
(* fail and the process crashes now and then.                              *)
ExpiredIsFinalized ==
  \A a \in AttemptId :
    attempt[a].status = "in_progress" /\ attempt[a].due < clock
      ~> attempt[a].status \in Finished

(* attempt_finalizer.go:32-34: the score describes a single consistent     *)
(* sitting, so it is the total of the answers the attempt holds.           *)
ScoreDescribesAnswers ==
  \A a \in AttemptId :
    attempt[a].status \in Finished =>
      attempt[a].score = [i \in Item |-> answer[a][i].seq]

(* node_repository.go:226-227: every mutable field is guarded alike, so    *)
(* the score and the grading status in an answer row are those of the      *)
(* answer in it.                                                           *)
GradeDescribesAnswer ==
  \A a \in AttemptId, i \in Item : answer[a][i].graded = answer[a][i].seq

(* What a student sees of an attempt.                                      *)
View(a) == [status |-> attempt[a].status, device |-> attempt[a].device,
            generation |-> attempt[a].generation, due |-> attempt[a].due]

History(p) ==
  [n \in 1..participant[p].count |->
     View(CHOOSE a \in AttemptId : attempt[a].owner = p /\ attempt[a].no = n)]

Abstract == INSTANCE Sittings
              WITH sittings <- [p \in Participant |-> History(p)]

(* Whatever runs between the steps of the handlers, every student's        *)
(* attempts develop as if each request, sweep and reset were one step.     *)
ImplementsSittings == Abstract!Spec
=============================================================================
