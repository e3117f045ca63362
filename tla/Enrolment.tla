------------------------------ MODULE Enrolment ------------------------------
(***************************************************************************)
(* Bundles pushed while students sit the exam.  A push replaces the exam's *)
(* row, and with it max_attempts, and makes the participants' rows those   *)
(* of the bundle: a student who was taken off and is put on again gets a   *)
(* fresh row, which has no attempts, while the attempts stay.  A request   *)
(* to start goes on with what it read before the push.                     *)
(*                                                                         *)
(* Devices, due times and the steps of finishing are AttemptLifecycle's.   *)
(***************************************************************************)
EXTENDS Naturals, Sequences

CONSTANTS
  Student,
  StartRequest,    \* requests to start, one after the other
  Limits           \* the max_attempts of bundles

ASSUME EnrolmentAssumption ==
  Student # {} /\ Limits \subseteq Nat /\ Limits # {}

VARIABLES
  maxAttempts,  \* of the exam's row
  enrolled,     \* participant rows: attempt_count of those there are
  sitting,      \* attempts of each student, in the order of creation
  starting,     \* locals of each request
  granted       \* history: the largest max_attempts so far

enrolmentVars == <<maxAttempts, enrolled, sitting, starting, granted>>

NotStarting == [pc |-> "idle", student |-> CHOOSE s \in Student : TRUE, max |-> 0]

Attempt == [no : Nat, status : {"in_progress", "finished"}]

EnrolmentTypeOK ==
  /\ maxAttempts \in Limits /\ granted \in Limits
  /\ DOMAIN enrolled \subseteq Student /\ \A s \in DOMAIN enrolled : enrolled[s] \in Nat
  /\ sitting \in [Student -> Seq(Attempt)]
  /\ starting \in [StartRequest -> [pc : {"idle", "look", "create"},
                                    student : Student, max : Nat]]

EnrolmentInit ==
  /\ maxAttempts \in Limits
  /\ \E listed \in SUBSET Student : enrolled = [s \in listed |-> 0]
  /\ sitting = [s \in Student |-> <<>>]
  /\ starting = [r \in StartRequest |-> NotStarting]
  /\ granted = maxAttempts

-----------------------------------------------------------------------------
(* Attempts are looked up by the participant's id, whatever his row says.  *)
Sitting(s) == \E i \in DOMAIN sitting[s] : sitting[s][i].status = "in_progress"

End(r) == starting' = [starting EXCEPT ![r] = NotStarting]

(* The exam's row is read, once.                                           *)
ReadExam(r, s) ==
  /\ starting[r] = NotStarting
  /\ starting' = [starting EXCEPT ![r] = [pc |-> "look", student |-> s,
                                          max |-> maxAttempts]]
  /\ UNCHANGED <<maxAttempts, enrolled, sitting, granted>>

(* There is such a participant, with none to go on with and one left.      *)
MayBegin(s, max) ==
  s \in DOMAIN enrolled /\ ~Sitting(s) /\ enrolled[s] < max

LookUp(r) ==
  /\ starting[r].pc = "look"
  /\ IF MayBegin(starting[r].student, starting[r].max)
     THEN starting' = [starting EXCEPT ![r].pc = "create"]
     ELSE End(r)
  /\ UNCHANGED <<maxAttempts, enrolled, sitting, granted>>

(* Mutant of NumberTaken: no unique key on participant and number.         *)
NumberTakenNever(s, no) == FALSE

NumberTaken(s, no) == \E i \in DOMAIN sitting[s] : sitting[s][i].no = no

(* The transaction, with the participant's row locked: everything is       *)
(* looked at again but the exam, and a number that is taken rolls it back. *)
Create(r) ==
  LET s  == starting[r].student
      no == enrolled[s] + 1
  IN
  /\ starting[r].pc = "create"
  /\ IF MayBegin(s, starting[r].max) /\ ~NumberTaken(s, no)
     THEN /\ enrolled' = [enrolled EXCEPT ![s] = no]
          /\ sitting' = [sitting EXCEPT ![s] =
                           Append(@, [no |-> no, status |-> "in_progress"])]
     ELSE UNCHANGED <<enrolled, sitting>>
  /\ End(r)
  /\ UNCHANGED <<maxAttempts, granted>>

(* Submitted, swept, or closed by the start of the next one, with or       *)
(* without a participant's row.                                            *)
FinishSitting(s) ==
  /\ Sitting(s)
  /\ sitting' = [sitting EXCEPT ![s] =
       [i \in DOMAIN @ |-> [@[i] EXCEPT !.status = "finished"]]]
  /\ UNCHANGED <<maxAttempts, enrolled, starting, granted>>

(* ReplaceBundle: rows that stay keep their count.                         *)
PushBundle(listed, max) ==
  /\ maxAttempts' = max
  /\ enrolled' = [s \in listed |-> IF s \in DOMAIN enrolled THEN enrolled[s] ELSE 0]
  /\ granted' = IF max > granted THEN max ELSE granted
  /\ UNCHANGED <<sitting, starting>>

EnrolmentNext ==
  \/ \E r \in StartRequest :
       LookUp(r) \/ Create(r) \/ \E s \in Student : ReadExam(r, s)
  \/ \E s \in Student : FinishSitting(s)
  \/ \E listed \in SUBSET Student, max \in Limits : PushBundle(listed, max)

EnrolmentSpec == EnrolmentInit /\ [][EnrolmentNext]_enrolmentVars

-----------------------------------------------------------------------------
(* Whatever bundles come and go beside the requests, nobody is given more  *)
(* sittings than the most generous bundle allowed, nor two at once, and    *)
(* the numbers by which Central tells them apart are each used once.       *)
NoSittingTwice ==
  \A s \in Student :
    /\ Len(sitting[s]) <= granted
    /\ \A i, j \in DOMAIN sitting[s] :
         sitting[s][i].no = sitting[s][j].no => i = j
    /\ \A i \in DOMAIN sitting[s] :
         sitting[s][i].status = "in_progress" => i = Len(sitting[s])
=============================================================================
