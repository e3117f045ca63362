----------------------- MODULE AttemptLifecycleProofs -----------------------
(***************************************************************************)
(* Proofs about AttemptLifecycle for any number of students, attempts,     *)
(* devices, items, handlers and sweepers, and any bounds.                  *)
(***************************************************************************)
EXTENDS AttemptLifecycle, TLAPS

(* What handler r holds between two of its steps.                          *)
LocalOK(r) ==
  LET q == request[r] IN
  /\ q.now <= clock
  /\ q.pc \in {"start_lookup", "start_bind", "start_finalize", "start_tx",
               "start_commit"} => q.who \in Participant
  /\ q.pc \in {"start_bind", "start_finalize", "save", "submit", "state"} =>
       /\ q.target \in AttemptId
       /\ attempt[q.target].status # "none"
  /\ q.pc = "save" => q.item \in Item
  /\ q.pc = "start_finalize" => attempt[q.target].due < q.now
  /\ q.pc = "state" => attempt[q.target].due < clock

(* What a sweeper has listed exists and is past its due time.              *)
SweepOK ==
  \A s \in Sweeper : \A a \in sweep[s] :
    attempt[a].status # "none" /\ attempt[a].due < clock

(* While startAttempt holds the participant lock its snapshot stays true:  *)
(* no active attempt, or the latest one with the device it was bound to.   *)
SnapshotOK(r) ==
  LET q == request[r] IN
  q.pc = "start_commit" =>
    /\ participantLock[q.who] = r
    /\ q.target = None => ActiveOf(q.who) = {}
    /\ q.target # None =>
         /\ attempt[q.target].owner = q.who
         /\ attempt[q.target].status # "none"
         /\ participant[q.who].latest = q.target
         /\ q.bound # None => attempt[q.target].device = q.bound

(* Rows, counts and numbers.                                               *)
RowsOK ==
  /\ \A a \in AttemptId :
       /\ attempt[a].status = "none" <=> attempt[a].owner = None
       /\ attempt[a].status = "none" => granted[a] = {}
       /\ \A d \in granted[a] : attempt[a].device = d
  /\ \A p \in Participant : participant[p].count = 0 <=>
                            participant[p].latest = None

TablesInv == /\ RowsOK
             /\ ActiveIsLatest
             /\ AttemptsAccounted
             /\ AutoSubmitOnlyExpired

IInv == /\ TypeOK
        /\ TablesInv
        /\ SweepOK
        /\ \A r \in Request : LocalOK(r) /\ SnapshotOK(r)

-----------------------------------------------------------------------------
(* Updates of records keep their types.                                    *)

LEMMA ConstantRecords ==
  /\ Idle \in Local
  /\ NoRow \in Row
  /\ NoAnswers \in Answers
  /\ NoScore \in Scores
<1>1. NoScore \in Scores /\ NoAnswers \in Answers
  BY NumbersAssumption DEF NoScore, NoAnswers, Scores, Answers, Saved, ClientSeq
<1>2. Idle \in Local
  BY <1>1, NumbersAssumption DEF Idle, Local, Step, ClientSeq
<1>3. NoRow \in Row
  BY <1>1 DEF NoRow, Row, Status
<1>. QED BY <1>1, <1>2, <1>3

LEMMA ReturnType ==
  ASSUME request \in [Request -> Local], NEW r \in Request, Return(r)
  PROVE  request' \in [Request -> Local]
BY ConstantRecords DEF Return

LEMMA GotoType ==
  ASSUME request \in [Request -> Local], NEW r \in Request,
         NEW pc \in Step, NEW a \in AttemptId \cup {None}, Goto(r, pc, a)
  PROVE  request' \in [Request -> Local]
<1>. DEFINE e == [request[r] EXCEPT !.pc = pc, !.target = a]
<1>1. request[r] \in Local
  OBVIOUS
<1>2. e \in Local
  BY <1>1 DEF Local
<1>3. request' = [request EXCEPT ![r] = e]
  BY DEF Goto
<1>. HIDE DEF e
<1>. QED BY <1>2, <1>3

LEMMA GotoFullType ==
  ASSUME request \in [Request -> Local], NEW r \in Request, NEW pc \in Step,
         NEW a \in AttemptId \cup {None}, NEW full \in BOOLEAN,
         request' = [request EXCEPT ![r].pc = pc, ![r].target = a,
                                    ![r].full = full]
  PROVE  request' \in [Request -> Local]
<1>1. [request[r] EXCEPT !.pc = pc, !.target = a, !.full = full] \in Local
  BY DEF Local
<1>2. request' = [request EXCEPT ![r] =
                    [request[r] EXCEPT !.pc = pc, !.target = a, !.full = full]]
  OBVIOUS
<1>. QED BY <1>1, <1>2

LEMMA GotoBoundType ==
  ASSUME request \in [Request -> Local], NEW r \in Request, NEW pc \in Step,
         NEW a \in AttemptId \cup {None}, NEW b \in Device \cup {None},
         NEW sc \in Scores,
         request' = [request EXCEPT ![r].pc = pc, ![r].target = a,
                                    ![r].bound = b, ![r].seen = sc]
  PROVE  request' \in [Request -> Local]
<1>. DEFINE e == [request[r] EXCEPT !.pc = pc, !.target = a, !.bound = b,
                                    !.seen = sc]
<1>1. request[r] \in Local
  OBVIOUS
<1>2. e \in Local
  BY <1>1 DEF Local
<1>3. request' = [request EXCEPT ![r] = e]
  OBVIOUS
<1>. HIDE DEF e
<1>. QED BY <1>2, <1>3

LEMMA RowUpdate ==
  ASSUME NEW f \in [AttemptId -> Row], NEW a \in AttemptId,
         NEW d \in Device \cup {None}, NEW row \in Row, NEW sc \in Scores
  PROVE  /\ [f EXCEPT ![a] = row] \in [AttemptId -> Row]
         /\ [f EXCEPT ![a].device = d] \in [AttemptId -> Row]
         /\ [f EXCEPT ![a].device = d, ![a].score = sc] \in [AttemptId -> Row]
<1>. DEFINE e == [f[a] EXCEPT !.device = d, !.score = sc]
<1>1. f[a] \in Row
  OBVIOUS
<1>2. [f[a] EXCEPT !.device = d] \in Row
  BY <1>1 DEF Row
<1>3. e \in Row
  BY <1>1 DEF Row
<1>4. [f EXCEPT ![a].device = d, ![a].score = sc] = [f EXCEPT ![a] = e]
  OBVIOUS
<1>. HIDE DEF e
<1>. QED BY <1>2, <1>3, <1>4

(* A row that is finalized, and one that is reopened.                      *)
LEMMA RowFinished ==
  ASSUME NEW f \in [AttemptId -> Row], NEW a \in AttemptId, NEW s \in Status,
         NEW sc \in Scores
  PROVE  [f EXCEPT ![a].status = s, ![a].score = sc] \in [AttemptId -> Row]
<1>. DEFINE row == [f[a] EXCEPT !.status = s, !.score = sc]
<1>1. f[a] \in Row
  OBVIOUS
<1>2. row \in Row
  BY <1>1 DEF Row
<1>3. [f EXCEPT ![a].status = s, ![a].score = sc] = [f EXCEPT ![a] = row]
  OBVIOUS
<1>. HIDE DEF row
<1>. QED BY <1>2, <1>3

LEMMA RowReopened ==
  ASSUME NEW f \in [AttemptId -> Row], NEW a \in AttemptId, NEW s \in Status,
         NEW sc \in Scores, NEW g \in Nat
  PROVE  [f EXCEPT ![a].status = s, ![a].score = sc, ![a].generation = g]
           \in [AttemptId -> Row]
<1>. DEFINE row == [f[a] EXCEPT !.status = s, !.score = sc, !.generation = g]
<1>1. f[a] \in Row
  OBVIOUS
<1>2. row \in Row
  BY <1>1 DEF Row
<1>3. [f EXCEPT ![a].status = s, ![a].score = sc, ![a].generation = g]
        = [f EXCEPT ![a] = row]
  OBVIOUS
<1>. HIDE DEF row
<1>. QED BY <1>2, <1>3

-----------------------------------------------------------------------------
(* How the attempt table changes.  Without an insert or a reset, rows only *)
(* move on: an attempt in progress is bound or finalized, any other row    *)
(* stays as it is.                                                         *)
Evolves(rows) ==
  /\ rows \in [AttemptId -> Row]
  /\ \A c \in AttemptId :
       /\ rows[c].owner = attempt[c].owner
       /\ rows[c].no = attempt[c].no
       /\ rows[c].due = attempt[c].due
       /\ rows[c].generation = attempt[c].generation
       /\ attempt[c].status # "in_progress" => rows[c] = attempt[c]
       /\ rows[c].status # "none" \/ attempt[c].status = "none"
       /\ attempt[c].device # None => rows[c].device = attempt[c].device
       /\ rows[c].status = "auto_submitted" =>
            attempt[c].status = "auto_submitted" \/ attempt[c].due < clock

LEMMA KeepEvolves ==
  ASSUME TypeOK
  PROVE  Evolves(attempt)
BY DEF TypeOK, Evolves

LEMMA BindEvolves ==
  ASSUME TypeOK, NEW a \in AttemptId, NEW d \in Device \cup {None},
         attempt[a].status = "in_progress", attempt[a].device \in {None, d}
  PROVE  Evolves([attempt EXCEPT ![a].device = d])
<1>1. [attempt EXCEPT ![a].device = d] \in [AttemptId -> Row]
  BY DEF TypeOK, Row
<1>. QED BY <1>1 DEF TypeOK, Evolves, Row

(* The grades of a row of answers are a score.                             *)
LEMMA GradesType ==
  ASSUME NEW saved \in [Item -> Saved]
  PROVE  [i \in Item |-> saved[i].graded] \in Scores
<1>1. \A i \in Item : saved[i].graded \in ClientSeq
  BY DEF Saved
<1>. QED BY <1>1 DEF Scores

LEMMA ScoreType ==
  ASSUME TypeOK, NEW a \in AttemptId
  PROVE  Score(a) \in Scores
<1>1. answer[a] \in [Item -> Saved]
  BY DEF TypeOK, Answers
<1>. QED BY <1>1, GradesType DEF Score

LEMMA FinalizedEvolves ==
  ASSUME TypeOK, NEW a \in AttemptId, NEW auto \in BOOLEAN,
         auto => attempt[a].due < clock
  PROVE  Evolves(Finalized(a, auto))
<1> DEFINE s == IF auto THEN "auto_submitted" ELSE "submitted"
<1>1. CASE attempt[a].status # "in_progress"
  BY <1>1, KeepEvolves DEF Finalized
<1>2. CASE attempt[a].status = "in_progress"
  <2>1. s \in Status \ {"none"} /\ (s = "auto_submitted" => auto)
    BY DEF Status
  <2>2. Finalized(a, auto) = [attempt EXCEPT ![a].status = s,
                                             ![a].score = Score(a)]
    BY <1>2 DEF Finalized
  <2> HIDE DEF s
  <2>3. Score(a) \in Scores /\ attempt \in [AttemptId -> Row]
    BY ScoreType DEF TypeOK
  <2>4. Finalized(a, auto) \in [AttemptId -> Row]
    <3>. DEFINE sc == Score(a)
    <3>1. s \in Status /\ sc \in Scores
      BY <2>1, <2>3
    <3>2. Finalized(a, auto) = [attempt EXCEPT ![a].status = s, ![a].score = sc]
      BY <2>2
    <3>. HIDE DEF sc
    <3>3. [attempt EXCEPT ![a].status = s, ![a].score = sc] \in [AttemptId -> Row]
      BY <2>3, <3>1, RowFinished
    <3>. QED BY <3>2, <3>3
  <2>5. \A c \in AttemptId : c # a => Finalized(a, auto)[c] = attempt[c]
    BY <2>2, <2>3
  <2>6. Finalized(a, auto)[a] = [attempt[a] EXCEPT !.status = s, !.score = Score(a)]
    BY <2>2, <2>3
  <2>7. attempt[a] \in Row
    BY <2>3
  <2>8. /\ Finalized(a, auto)[a].owner = attempt[a].owner
        /\ Finalized(a, auto)[a].no = attempt[a].no
        /\ Finalized(a, auto)[a].due = attempt[a].due
        /\ Finalized(a, auto)[a].generation = attempt[a].generation
        /\ Finalized(a, auto)[a].device = attempt[a].device
        /\ Finalized(a, auto)[a].status = s
    BY <2>6, <2>7 DEF Row
  <2>. QED BY <1>2, <2>1, <2>4, <2>5, <2>8 DEF Evolves
<1>. QED BY <1>1, <1>2

-----------------------------------------------------------------------------
(* The three ways a step changes attempts and participants.                *)

(* p opens a new attempt on top of rows, in which it has none in progress. *)
Opens(rows, p, a, d, due) ==
  LET n == participant[p].count + 1 IN
  /\ Evolves(rows)
  /\ \A c \in AttemptId :
       rows[c].owner = p => rows[c].status # "in_progress"
  /\ participant[p].count < MaxAttempts
  /\ rows[a].status = "none"
  /\ attempt' = [rows EXCEPT ![a] =
        [owner |-> p, no |-> n, status |-> "in_progress", device |-> d,
         due |-> due, generation |-> 0, score |-> NoScore]]
  /\ participant' = [participant EXCEPT ![p] = [count |-> n, latest |-> a]]
  /\ granted' = [granted EXCEPT ![a] = @ \cup ({d} \ {None})]

OpenFor(p) ==
  \E rows \in [AttemptId -> Row], a \in AttemptId, d \in Device \cup {None},
     due \in Nat : Opens(rows, p, a, d, due)

(* Rows only evolve; a grant goes to the device the row is bound to.       *)
Evolve ==
  /\ Evolves(attempt')
  /\ UNCHANGED participant
  /\ \/ UNCHANGED granted
     \/ \E a \in AttemptId, d \in Device \cup {None} :
          /\ attempt'[a].status # "none"
          /\ attempt'[a].device = d \/ d = None
          /\ granted' = [granted EXCEPT ![a] = @ \cup ({d} \ {None})]

LEMMA EvolveTables ==
  ASSUME TypeOK, TypeOK', TablesInv, Evolve, clock' >= clock
  PROVE  TablesInv'
<1>0. \A c \in AttemptId :
        /\ attempt'[c].owner = attempt[c].owner
        /\ attempt'[c].status = "none" <=> attempt[c].status = "none"
        /\ attempt[c].device # None => attempt'[c].device = attempt[c].device
  BY DEF Evolve, Evolves
<1>1. RowsOK'
  <2>1. ASSUME NEW c \in AttemptId
        PROVE  /\ attempt'[c].status = "none" => granted'[c] = {}
               /\ \A e \in granted'[c] : attempt'[c].device = e
    <3>1. /\ attempt[c].status = "none" => granted[c] = {}
          /\ \A e \in granted[c] : e # None /\ attempt'[c].device = e
      BY <1>0, NoneAssumption DEF TablesInv, RowsOK, TypeOK
    <3>2. CASE UNCHANGED granted
      BY <1>0, <3>1, <3>2
    <3>3. ASSUME NEW a \in AttemptId, NEW d \in Device \cup {None},
                 attempt'[a].status # "none",
                 attempt'[a].device = d \/ d = None,
                 granted' = [granted EXCEPT ![a] = @ \cup ({d} \ {None})]
          PROVE  /\ attempt'[c].status = "none" => granted'[c] = {}
                 /\ \A e \in granted'[c] : attempt'[c].device = e
      <4>1. granted'[c] = IF c = a THEN granted[c] \cup ({d} \ {None})
                          ELSE granted[c]
        BY <3>3 DEF TypeOK
      <4>. QED BY <1>0, <3>1, <3>3, <4>1
    <3>. QED BY <3>2, <3>3 DEF Evolve
  <2>. QED BY <1>0, <2>1 DEF TablesInv, RowsOK, Evolve
<1>2. ActiveIsLatest'
  BY DEF Evolve, Evolves, TablesInv, ActiveIsLatest, TypeOK, Row, Status
<1>3. AttemptsAccounted'
  BY DEF Evolve, Evolves, TablesInv, AttemptsAccounted, TypeOK, Row
<1>4. AutoSubmitOnlyExpired'
  BY DEF Evolve, Evolves, TablesInv, AutoSubmitOnlyExpired, TypeOK, Row
<1>. QED BY <1>1, <1>2, <1>3, <1>4 DEF TablesInv

LEMMA ReopenTables ==
  ASSUME TypeOK, TypeOK', TablesInv, NEW a \in AttemptId, Reset(a)
  PROVE  TablesInv'
<1>1. attempt' = [attempt EXCEPT ![a].status = "in_progress",
                                 ![a].score = NoScore,
                                 ![a].generation = @ + 1]
  BY DEF Reset
<1>2. /\ participant' = participant /\ granted' = granted /\ clock' = clock
      /\ attempt[a].status \in Finished
      /\ participant[attempt[a].owner].latest = a
  BY DEF Reset
<1>3. \A c \in AttemptId :
        /\ attempt'[c].owner = attempt[c].owner
        /\ attempt'[c].no = attempt[c].no
        /\ attempt'[c].due = attempt[c].due
        /\ attempt'[c].device = attempt[c].device
        /\ attempt'[c].status =
             IF c = a THEN "in_progress" ELSE attempt[c].status
  BY <1>1 DEF TypeOK, Row
<1> HIDE DEF Reset
<1>4. RowsOK'
  BY <1>2, <1>3 DEF TablesInv, RowsOK, Finished
<1>5. ActiveIsLatest'
  BY <1>2, <1>3 DEF TablesInv, ActiveIsLatest
<1>6. AttemptsAccounted'
  BY <1>2, <1>3 DEF TablesInv, AttemptsAccounted
<1>7. AutoSubmitOnlyExpired'
  BY <1>2, <1>3 DEF TablesInv, AutoSubmitOnlyExpired
<1>. QED BY <1>4, <1>5, <1>6, <1>7 DEF TablesInv

LEMMA OpenTables ==
  ASSUME TypeOK, TypeOK', TablesInv, NEW p \in Participant, OpenFor(p),
         clock' = clock
  PROVE  TablesInv'
<1>1. PICK rows \in [AttemptId -> Row], a \in AttemptId,
           d \in Device \cup {None}, due \in Nat : Opens(rows, p, a, d, due)
  BY DEF OpenFor
<1> DEFINE n == participant[p].count + 1
<1>2. /\ participant[p].count \in Nat /\ n \in Nat
      /\ participant[p].count < MaxAttempts
      /\ MaxAttempts \in Nat
      /\ p # None /\ a # None
  BY <1>1, NoneAssumption, NumbersAssumption DEF TypeOK, Opens
<1>3. /\ attempt'[a] =
           [owner |-> p, no |-> n, status |-> "in_progress", device |-> d,
            due |-> due, generation |-> 0, score |-> NoScore]
      /\ \A c \in AttemptId \ {a} : attempt'[c] = rows[c]
  BY <1>1 DEF Opens
<1>4. /\ participant'[p] = [count |-> n, latest |-> a]
      /\ \A q \in Participant \ {p} : participant'[q] = participant[q]
  BY <1>1 DEF Opens, TypeOK
<1>5. /\ granted'[a] = granted[a] \cup ({d} \ {None})
      /\ \A c \in AttemptId \ {a} : granted'[c] = granted[c]
  BY <1>1 DEF Opens, TypeOK
<1>6. /\ attempt[a].status = "none" /\ attempt[a].owner = None
      /\ granted[a] = {}
  BY <1>1 DEF Opens, Evolves, TablesInv, RowsOK
<1>7. ASSUME NEW c \in AttemptId \ {a}
      PROVE  /\ attempt'[c].owner = attempt[c].owner
             /\ attempt'[c].no = attempt[c].no
             /\ attempt'[c].due = attempt[c].due
             /\ attempt'[c].status = "none" <=> attempt[c].status = "none"
             /\ attempt'[c].status = "in_progress" =>
                  /\ attempt[c].status = "in_progress"
                  /\ attempt[c].owner # p
             /\ attempt[c].device # None =>
                  attempt'[c].device = attempt[c].device
             /\ attempt'[c].status = "auto_submitted" =>
                  attempt[c].status = "auto_submitted" \/ attempt[c].due < clock
  BY <1>1, <1>3 DEF Opens, Evolves
<1>8. RowsOK'
  <2>1. ASSUME NEW c \in AttemptId
        PROVE  /\ attempt'[c].status = "none" <=> attempt'[c].owner = None
               /\ attempt'[c].status = "none" => granted'[c] = {}
               /\ \A e \in granted'[c] : attempt'[c].device = e
    <3>1. CASE c = a
      BY <1>2, <1>3, <1>5, <1>6, <3>1
    <3>2. CASE c # a
      <4>1. \A e \in granted[c] : e # None
        BY NoneAssumption DEF TypeOK
      <4>. QED BY <1>5, <1>7, <3>2, <4>1 DEF TablesInv, RowsOK
    <3>. QED BY <3>1, <3>2
  <2>2. \A q \in Participant : participant'[q].count = 0 <=>
                               participant'[q].latest = None
    BY <1>2, <1>4 DEF TablesInv, RowsOK
  <2>. QED BY <2>1, <2>2 DEF RowsOK
<1>9. ActiveIsLatest'
  <2>1. ASSUME NEW c \in AttemptId, attempt'[c].status = "in_progress"
        PROVE  participant'[attempt'[c].owner].latest = c
    <3>1. CASE c = a
      BY <1>3, <1>4, <3>1
    <3>2. CASE c # a
      <4>1. attempt[c].owner \in Participant
        BY <1>7, <2>1, <3>2 DEF TablesInv, RowsOK, TypeOK, Row
      <4>. QED BY <1>4, <1>7, <2>1, <3>2, <4>1
               DEF TablesInv, ActiveIsLatest
    <3>. QED BY <3>1, <3>2
  <2>. QED BY <2>1 DEF ActiveIsLatest
<1>10. AttemptsAccounted'
  <2> SUFFICES ASSUME NEW q \in Participant
      PROVE  /\ participant'[q].count <= MaxAttempts
             /\ \A c \in AttemptId : attempt'[c].owner = q =>
                  attempt'[c].no \in 1..participant'[q].count
             /\ \A b, c \in AttemptId :
                  /\ attempt'[b].owner = q /\ attempt'[c].owner = q
                  /\ attempt'[b].no = attempt'[c].no
                  => b = c
             /\ \A k \in 1..participant'[q].count :
                  \E c \in AttemptId :
                    attempt'[c].owner = q /\ attempt'[c].no = k
             /\ participant'[q].count > 0 =>
                  /\ participant'[q].latest \in AttemptId
                  /\ attempt'[participant'[q].latest].owner = q
                  /\ attempt'[participant'[q].latest].no = participant'[q].count
    BY DEF AttemptsAccounted
  <2>1. /\ participant[q].count \in Nat
        /\ participant[q].count <= MaxAttempts
        /\ \A c \in AttemptId : attempt[c].owner = q =>
             attempt[c].no \in 1..participant[q].count
        /\ \A b, c \in AttemptId :
             /\ attempt[b].owner = q /\ attempt[c].owner = q
             /\ attempt[b].no = attempt[c].no
             => b = c
        /\ \A k \in 1..participant[q].count :
             \E c \in AttemptId : attempt[c].owner = q /\ attempt[c].no = k
        /\ participant[q].count > 0 =>
             /\ participant[q].latest \in AttemptId
             /\ attempt[participant[q].latest].owner = q
             /\ attempt[participant[q].latest].no = participant[q].count
    BY DEF TablesInv, AttemptsAccounted, TypeOK
  <2>2. CASE q # p
    <3>1. participant'[q] = participant[q] /\ attempt'[a].owner # q
      BY <1>3, <1>4, <2>2
    <3>2. attempt[a].owner # q
      BY <1>6, NoneAssumption
    <3>. QED BY <1>7, <2>1, <3>1, <3>2
  <2>3. CASE q = p
    <3>1. /\ participant'[q].count = n /\ participant'[q].latest = a
          /\ attempt'[a].owner = q /\ attempt'[a].no = n
      BY <1>3, <1>4, <2>3
    <3>2. attempt[a].owner # q
      BY <1>6, NoneAssumption
    <3>3. n <= MaxAttempts /\ n \notin 1..participant[q].count
      BY <1>2, <2>3
    <3>4. 1..n = (1..participant[q].count) \cup {n}
      BY <1>2, <2>3
    <3> HIDE DEF n
    <3>. QED BY <1>7, <2>1, <3>1, <3>2, <3>3, <3>4
  <2>. QED BY <2>2, <2>3
<1>11. AutoSubmitOnlyExpired'
  BY <1>3, <1>7 DEF TablesInv, AutoSubmitOnlyExpired
<1>. QED BY <1>8, <1>9, <1>10, <1>11 DEF TablesInv

-----------------------------------------------------------------------------
(* The steps of startAttempt: types, and how they change the tables.       *)

LEMMA KeepEvolve ==
  ASSUME TypeOK, UNCHANGED <<attempt, participant, granted>>
  PROVE  Evolve
BY KeepEvolves DEF Evolve

(* What a grant of a to d in a step that only evolves rows comes to.       *)
LEMMA GrantEvolve ==
  ASSUME TypeOK, Evolves(attempt'), UNCHANGED participant,
         NEW a \in AttemptId, NEW d \in Device \cup {None}, Grant(a, d),
         attempt'[a].status # "none", attempt'[a].device = d \/ d = None
  PROVE  Evolve /\ granted' \in [AttemptId -> SUBSET Device]
<1>1. granted' = [granted EXCEPT ![a] = @ \cup ({d} \ {None})]
  BY DEF Grant
<1>2. granted' \in [AttemptId -> SUBSET Device]
  BY <1>1 DEF TypeOK
<1>. QED BY <1>1, <1>2 DEF Evolve

LEMMA StartBeginStep ==
  ASSUME IInv, NEW r \in Request, NEW p \in Participant,
         NEW d \in Device \cup {None}, StartBegin(r, p, d)
  PROVE  TypeOK' /\ Evolve
<1>1. [Idle EXCEPT !.pc = "start_lookup", !.who = p, !.device = d,
                   !.now = clock] \in Local
  BY ConstantRecords DEF IInv, TypeOK, Idle, Local, Step
<1>2. TypeOK'
  BY <1>1 DEF IInv, TypeOK, StartBegin
<1>. QED BY <1>2, KeepEvolve DEF IInv, StartBegin

LEMMA StartLookupStep ==
  ASSUME IInv, NEW r \in Request, StartLookup(r)
  PROVE  TypeOK' /\ Evolve
<1> USE DEF IInv
<1> DEFINE p == request[r].who
           d == request[r].device
           full == participant[p].count >= MaxAttempts
<1>1. /\ p \in Participant /\ d \in Device \cup {None}
      /\ request[r] \in Local /\ request \in [Request -> Local]
  BY DEF TypeOK, Local, LocalOK, StartLookup
<1>0. "start_tx" \in Step /\ "start_bind" \in Step /\ "start_finalize" \in Step
  BY DEF Step
<1>a. full \in BOOLEAN
  OBVIOUS
<1>2. UNCHANGED <<clock, participant, attempt, answer, participantLock, sweep,
                  faults>>
  BY DEF StartLookup
<1>3. Evolves(attempt')
  BY <1>2, KeepEvolves
<1>4. CASE /\ UNCHANGED granted
           /\ \/ Return(r)
              \/ Goto(r, "start_tx", None)
  <2>1. request' \in [Request -> Local]
    BY <1>0, <1>1, <1>4, ReturnType, GotoType
  <2>. QED BY <1>2, <1>4, <2>1, KeepEvolve DEF TypeOK
<1>5. ASSUME NEW a \in ActiveOf(p), attempt[a].device = None,
             request' = [request EXCEPT ![r].pc = "start_bind",
                                        ![r].target = a, ![r].full = full],
             UNCHANGED granted
      PROVE  TypeOK' /\ Evolve
  <2>1. request' \in [Request -> Local]
    BY <1>0, <1>1, <1>a, <1>5, GotoFullType DEF ActiveOf
  <2>. QED BY <1>2, <1>5, <2>1, KeepEvolve DEF TypeOK
<1>6. ASSUME NEW a \in ActiveOf(p), attempt[a].device = d, Resume(r, a, full)
      PROVE  TypeOK' /\ Evolve
  <2>1. a \in AttemptId /\ attempt[a].status = "in_progress"
    BY DEF ActiveOf
  <2>2. CASE request[r].now > attempt[a].due
    <3> HIDE DEF full
    <3>0. /\ UNCHANGED granted
          /\ request' = [request EXCEPT ![r].pc = "start_finalize",
                                        ![r].target = a, ![r].full = full]
      BY <1>6, <2>2 DEF Resume
    <3>1. request' \in [Request -> Local] /\ UNCHANGED granted
      BY <1>0, <1>1, <1>a, <2>1, <3>0, GotoFullType
    <3>. QED BY <1>2, <3>1, KeepEvolve DEF TypeOK
  <2>3. CASE ~(request[r].now > attempt[a].due)
    <3>1. request' \in [Request -> Local] /\ Grant(a, d)
      BY <1>1, <1>6, <2>3, ReturnType DEF Resume
    <3>2. Evolve /\ granted' \in [AttemptId -> SUBSET Device]
      <4>1. attempt'[a].status # "none" /\ attempt'[a].device = d
        BY <1>2, <1>6, <2>1
      <4>2. UNCHANGED participant
        BY <1>2
      <4> HIDE DEF d, IInv
      <4>3. TypeOK /\ a \in AttemptId /\ d \in Device \cup {None}
        BY <1>1, <2>1 DEF IInv
      <4>. QED BY <1>3, <3>1, <4>1, <4>2, <4>3, GrantEvolve
    <3>. QED BY <1>2, <3>1, <3>2 DEF TypeOK
  <2>. QED BY <2>2, <2>3
<1>7. \/ UNCHANGED granted /\ (Return(r) \/ Goto(r, "start_tx", None))
      \/ \E a \in ActiveOf(p) :
           \/ /\ attempt[a].device = None
              /\ request' = [request EXCEPT ![r].pc = "start_bind",
                                            ![r].target = a, ![r].full = full]
              /\ UNCHANGED granted
           \/ attempt[a].device = d /\ Resume(r, a, full)
  <2> HIDE DEF IInv
  <2>. QED BY DEF StartLookup
<1>. QED BY <1>4, <1>5, <1>6, <1>7

LEMMA StartBindStep ==
  ASSUME IInv, NEW r \in Request, StartBind(r)
  PROVE  TypeOK' /\ Evolve
<1> DEFINE a == request[r].target
           d == request[r].device
           full == request[r].full
<1>1. /\ a \in AttemptId /\ d \in Device \cup {None} /\ full \in BOOLEAN
      /\ request \in [Request -> Local] /\ attempt[a].status # "none"
      /\ TypeOK
  BY DEF IInv, TypeOK, Local, LocalOK, StartBind
<1>2. /\ UNCHANGED <<clock, participant, answer, participantLock, sweep,
                     faults>>
      /\ \/ /\ Bindable(a, d)
            /\ attempt' = [attempt EXCEPT ![a].device = d]
            /\ Resume(r, a, full)
         \/ Return(r) /\ UNCHANGED <<attempt, granted>>
  BY DEF StartBind
<1>3. "start_finalize" \in Step
  BY DEF Step
<1>4. CASE Return(r) /\ UNCHANGED <<attempt, granted>>
  BY <1>1, <1>2, <1>4, ReturnType, KeepEvolve DEF TypeOK
<1>5. CASE /\ Bindable(a, d)
           /\ attempt' = [attempt EXCEPT ![a].device = d]
           /\ Resume(r, a, full)
  <2> HIDE DEF a, d, full
  <2>1. Evolves(attempt')
    BY <1>1, <1>5, BindEvolves DEF Bindable
  <2>2. /\ attempt'[a].status # "none" /\ attempt'[a].device = d
        /\ attempt' \in [AttemptId -> Row]
    BY <1>1, <1>5, <2>1 DEF Bindable, Evolves, TypeOK, Row
  <2>3. CASE request[r].now > attempt[a].due
    <3>1. /\ UNCHANGED granted
          /\ request' = [request EXCEPT ![r].pc = "start_finalize",
                                        ![r].target = a, ![r].full = full]
      BY <1>5, <2>3 DEF Resume
    <3>2. request' \in [Request -> Local]
      BY <1>1, <1>3, <3>1, GotoFullType
    <3>. QED BY <1>1, <1>2, <2>1, <2>2, <3>1, <3>2 DEF TypeOK, Evolve
  <2>4. CASE ~(request[r].now > attempt[a].due)
    <3>1. Return(r) /\ Grant(a, d)
      BY <1>5, <2>4 DEF Resume, d
    <3>2. request' \in [Request -> Local]
      BY <1>1, <3>1, ReturnType
    <3>3. Evolve /\ granted' \in [AttemptId -> SUBSET Device]
      BY <1>1, <1>2, <2>1, <2>2, <3>1, GrantEvolve
    <3>. QED BY <1>1, <1>2, <2>2, <3>2, <3>3 DEF TypeOK
  <2>. QED BY <2>3, <2>4
<1>. QED BY <1>2, <1>4, <1>5

(* A step that finalizes a, if it is still in progress, and nothing else.  *)
LEMMA FinalizeStep ==
  ASSUME TypeOK, NEW a \in AttemptId, NEW auto \in BOOLEAN,
         auto => attempt[a].due < clock,
         attempt' = Finalized(a, auto), UNCHANGED <<participant, granted>>
  PROVE  attempt' \in [AttemptId -> Row] /\ Evolve
BY FinalizedEvolves DEF Evolve, Evolves

LEMMA StartFinalizeStep ==
  ASSUME IInv, NEW r \in Request, StartFinalize(r)
  PROVE  TypeOK' /\ Evolve
<1> DEFINE a == request[r].target
<1>1. /\ a \in AttemptId /\ attempt[a].due < request[r].now
      /\ request[r].now <= clock /\ TypeOK
      /\ request \in [Request -> Local]
  BY DEF IInv, TypeOK, LocalOK, StartFinalize
<1>2. attempt[a].due < clock
  BY <1>1 DEF TypeOK, Row, Local
<1>3. /\ attempt' = Finalized(a, TRUE)
      /\ Return(r) \/ Goto(r, "start_tx", None)
      /\ UNCHANGED <<clock, participant, answer, participantLock, sweep,
                     granted, faults>>
  BY DEF StartFinalize
<1>4. attempt' \in [AttemptId -> Row] /\ Evolve
  BY <1>1, <1>2, <1>3, FinalizeStep
<1>5. "start_tx" \in Step /\ None \in AttemptId \cup {None}
  BY DEF Step
<1>6. request' \in [Request -> Local]
  BY <1>1, <1>3, <1>5, ReturnType, GotoType
<1>. QED BY <1>1, <1>3, <1>4, <1>6 DEF TypeOK

LEMMA StartLockStep ==
  ASSUME IInv, NEW r \in Request, StartLock(r)
  PROVE  TypeOK' /\ Evolve
<1> DEFINE p == request[r].who
<1>1. p \in Participant /\ TypeOK /\ request \in [Request -> Local]
  BY DEF IInv, TypeOK, LocalOK, StartLock
<1>2. /\ participantLock' = [participantLock EXCEPT ![p] = r]
      /\ \/ Goto(r, "start_commit", None)
         \/ \E a \in AttemptId :
              request' = [request EXCEPT ![r].pc = "start_commit",
                                         ![r].target = a,
                                         ![r].bound = attempt[a].device,
                                         ![r].seen = Score(a)]
      /\ UNCHANGED <<clock, participant, attempt, answer, sweep, granted,
                     faults>>
  BY DEF StartLock, ActiveOf
<1>3. "start_commit" \in Step /\ None \in AttemptId \cup {None}
  BY DEF Step
<1>4. \A a \in AttemptId : /\ attempt[a].device \in Device \cup {None}
                            /\ Score(a) \in Scores
  BY <1>1, ScoreType DEF TypeOK, Row
<1>5. request' \in [Request -> Local]
  <2>1. CASE Goto(r, "start_commit", None)
    BY <1>1, <1>3, <2>1, GotoType
  <2>2. ASSUME NEW a \in AttemptId,
               request' = [request EXCEPT ![r].pc = "start_commit",
                                          ![r].target = a,
                                          ![r].bound = attempt[a].device,
                                          ![r].seen = Score(a)]
        PROVE  request' \in [Request -> Local]
    <3>. DEFINE sc == Score(a)
    <3>1. sc \in Scores
      BY <1>4
    <3>. HIDE DEF sc
    <3>. QED BY <1>1, <1>3, <1>4, <2>2, <3>1, GotoBoundType DEF sc
  <2>. QED BY <1>2, <2>1, <2>2
<1>6. participantLock' \in [Participant -> Request \cup {None}]
  BY <1>1, <1>2 DEF TypeOK
<1>. QED BY <1>1, <1>2, <1>5, <1>6, KeepEvolve DEF TypeOK

(* What is known of the transaction that r is about to end.                *)
LEMMA EndStartFacts ==
  ASSUME IInv, NEW r \in Request, EndStart(r)
  PROVE  /\ TypeOK /\ TablesInv
         /\ request[r].who \in Participant
         /\ request[r].device \in Device \cup {None}
         /\ request[r].target \in AttemptId \cup {None}
         /\ request[r].now \in Nat /\ request[r].now <= clock
         /\ SnapshotOK(r) /\ request[r].pc = "start_commit"
         /\ request' \in [Request -> Local]
         /\ participantLock' \in [Participant -> Request \cup {None}]
         /\ UNCHANGED <<clock, answer, sweep, faults>>
<1>1. /\ TypeOK /\ TablesInv /\ LocalOK(r) /\ SnapshotOK(r)
      /\ request \in [Request -> Local] /\ request[r] \in Local
  BY DEF IInv, TypeOK
<1>2. /\ Return(r)
      /\ request[r].pc = "start_commit"
      /\ participantLock' = [participantLock EXCEPT ![request[r].who] = None]
      /\ UNCHANGED <<clock, answer, sweep, faults>>
  BY DEF EndStart
<1>3. request' \in [Request -> Local]
  BY <1>1, <1>2, ReturnType
<1>4. participantLock' \in [Participant -> Request \cup {None}]
  BY <1>1, <1>2 DEF TypeOK
<1>. QED BY <1>1, <1>2, <1>3, <1>4 DEF LocalOK, Local

LEMMA CreateStep ==
  ASSUME IInv, NEW r \in Request, EndStart(r), NEW rows, Evolves(rows),
         CreateAttempt(r, rows),
         \A c \in AttemptId : rows[c].owner = request[r].who =>
                              rows[c].status # "in_progress"
  PROVE  TypeOK' /\ (Evolve \/ OpenFor(request[r].who))
<1> DEFINE p == request[r].who
           d == request[r].device
           n == participant[p].count + 1
           due == Earlier(request[r].now + Duration, EndsAt)
<1>1. /\ TypeOK
      /\ p \in Participant /\ d \in Device \cup {None}
      /\ request' \in [Request -> Local]
      /\ participantLock' \in [Participant -> Request \cup {None}]
      /\ UNCHANGED <<clock, answer, sweep, faults>>
  BY EndStartFacts
<1>2. due \in Nat
  BY EndStartFacts, NumbersAssumption DEF Earlier
<1>3. n \in Nat /\ rows \in [AttemptId -> Row]
  BY <1>1 DEF TypeOK, Evolves
<1>4. CASE UNCHANGED <<attempt, participant, granted>>
  BY <1>1, <1>4, KeepEvolve DEF TypeOK
<1>5. ASSUME NEW a \in AttemptId, rows[a].status = "none",
             participant[p].count < MaxAttempts,
             attempt' = [rows EXCEPT ![a] =
                [owner |-> p, no |-> n, status |-> "in_progress",
                 device |-> d, due |-> due,
                 generation |-> 0, score |-> NoScore]],
             participant' = [participant EXCEPT
                               ![p] = [count |-> n, latest |-> a]],
             Grant(a, d)
      PROVE  TypeOK' /\ OpenFor(p)
  <2> HIDE DEF due, n
  <2>1. [owner |-> p, no |-> n, status |-> "in_progress", device |-> d,
         due |-> due, generation |-> 0, score |-> NoScore] \in Row
    BY <1>1, <1>2, <1>3, ConstantRecords DEF Row, Status
  <2>2. attempt' \in [AttemptId -> Row]
    BY <1>3, <1>5, <2>1
  <2>3. participant' \in [Participant ->
                            [count: Nat, latest: AttemptId \cup {None}]]
    BY <1>1, <1>3, <1>5 DEF TypeOK
  <2>4. granted' = [granted EXCEPT ![a] = @ \cup ({d} \ {None})]
    BY <1>5 DEF Grant
  <2>5. granted' \in [AttemptId -> SUBSET Device]
    BY <1>1, <2>4 DEF TypeOK
  <2>6. Opens(rows, p, a, d, due)
    BY <1>5, <2>4 DEF Opens, n
  <2>7. OpenFor(p)
    BY <1>1, <1>2, <1>3, <2>6 DEF OpenFor
  <2>. QED BY <1>1, <2>2, <2>3, <2>5, <2>7 DEF TypeOK
<1>6. \/ UNCHANGED <<attempt, participant, granted>>
      \/ \E a \in AttemptId :
           /\ rows[a].status = "none"
           /\ participant[p].count < MaxAttempts
           /\ attempt' = [rows EXCEPT ![a] =
                [owner |-> p, no |-> n, status |-> "in_progress",
                 device |-> d, due |-> due,
                 generation |-> 0, score |-> NoScore]]
           /\ participant' = [participant EXCEPT
                                ![p] = [count |-> n, latest |-> a]]
           /\ Grant(a, d)
  BY DEF CreateAttempt
<1>. QED BY <1>4, <1>5, <1>6

LEMMA CommitNewStep ==
  ASSUME IInv, NEW r \in Request, CommitNew(r)
  PROVE  TypeOK' /\ (Evolve \/ OpenFor(request[r].who))
<1>1. EndStart(r) /\ request[r].target = None /\ CreateAttempt(r, attempt)
  BY DEF CommitNew
<1>2. TypeOK /\ ActiveOf(request[r].who) = {}
  BY <1>1, EndStartFacts DEF SnapshotOK
<1>3. \A c \in AttemptId : attempt[c].owner = request[r].who =>
                           attempt[c].status # "in_progress"
  BY <1>2 DEF ActiveOf
<1>. QED BY <1>1, <1>2, <1>3, KeepEvolves, CreateStep

LEMMA CommitRefusedStep ==
  ASSUME IInv, NEW r \in Request, CommitRefused(r)
  PROVE  TypeOK' /\ Evolve
<1>1. EndStart(r) /\ UNCHANGED <<attempt, participant, granted>>
  BY DEF CommitRefused
<1>2. /\ TypeOK /\ request' \in [Request -> Local]
      /\ participantLock' \in [Participant -> Request \cup {None}]
      /\ UNCHANGED <<clock, answer, sweep, faults>>
  BY <1>1, EndStartFacts
<1>. QED BY <1>1, <1>2, KeepEvolve DEF TypeOK

(* A transaction that was not refused leaves its row with the device it    *)
(* asked for, and does not take the row from another one.                  *)
LEMMA DeviceAfterFacts ==
  ASSUME IInv, NEW r \in Request, EndStart(r), request[r].target # None,
         ~Refused(r)
  PROVE  LET a == request[r].target IN
         /\ a \in AttemptId
         /\ attempt[a].status # "none"
         /\ attempt[a].owner = request[r].who
         /\ participant[request[r].who].latest = a
         /\ DeviceAfter(r) \in Device \cup {None}
         /\ DeviceAfter(r) = request[r].device \/ request[r].device = None
         /\ attempt[a].device # None => DeviceAfter(r) = attempt[a].device
         /\ attempt[a].status # "in_progress" =>
              DeviceAfter(r) = attempt[a].device
<1> DEFINE a == request[r].target
<1>1. /\ TypeOK /\ SnapshotOK(r) /\ a \in AttemptId
      /\ request[r].device \in Device \cup {None}
      /\ request[r].pc = "start_commit"
  BY EndStartFacts
<1>2. /\ attempt[a].owner = request[r].who
      /\ attempt[a].status # "none"
      /\ participant[request[r].who].latest = a
      /\ request[r].bound # None => attempt[a].device = request[r].bound
  BY <1>1 DEF SnapshotOK
<1>3. attempt[a].device \in Device \cup {None}
  BY <1>1 DEF TypeOK, Row
<1>4. CASE Binding(r)
  BY <1>1, <1>2, <1>3, <1>4 DEF Refused, DeviceAfter
<1>5. CASE ~Binding(r)
  <2>1. DeviceAfter(r) = attempt[a].device
    BY <1>5 DEF DeviceAfter
  <2>2. request[r].bound # None \/ request[r].device = None
    BY <1>5 DEF Binding
  <2>3. request[r].bound # None => request[r].bound = request[r].device
    BY DEF Refused, Mismatch
  <2>. QED BY <1>1, <1>2, <1>3, <2>1, <2>2, <2>3
<1>. QED BY <1>4, <1>5

LEMMA CommitExpiredStep ==
  ASSUME IInv, NEW r \in Request, CommitExpired(r)
  PROVE  TypeOK' /\ (Evolve \/ OpenFor(request[r].who))
<1> DEFINE a == request[r].target
           p == request[r].who
           rows == [Finalized(a, TRUE) EXCEPT ![a].device = DeviceAfter(r),
                                              ![a].score = request[r].seen]
<1>1. /\ EndStart(r) /\ a # None /\ ~Refused(r) /\ MustFinalize(r)
      /\ CreateAttempt(r, rows)
  BY DEF CommitExpired
<1>2. /\ TypeOK /\ TablesInv /\ p \in Participant
      /\ request[r].now \in Nat /\ request[r].now <= clock
  BY <1>1, EndStartFacts
<1>3. /\ a \in AttemptId /\ attempt[a].owner = p /\ participant[p].latest = a
      /\ DeviceAfter(r) \in Device \cup {None}
      /\ attempt[a].device # None => DeviceAfter(r) = attempt[a].device
  BY <1>1, DeviceAfterFacts
<1>4. attempt[a].status = "in_progress" /\ attempt[a].due < clock
  BY <1>1, <1>2, <1>3 DEF MustFinalize, TypeOK, Row
<1>5. Evolves(Finalized(a, TRUE))
  BY <1>2, <1>3, <1>4, FinalizedEvolves
<1>6. Finalized(a, TRUE)[a].status = "auto_submitted"
  BY <1>3, <1>4, <1>2 DEF Finalized, TypeOK, Row
<1>7. Finalized(a, TRUE) \in [AttemptId -> Row]
  BY <1>5 DEF Evolves
<1>a. rows \in [AttemptId -> Row]
  <2>. DEFINE f == Finalized(a, TRUE)
              d == DeviceAfter(r)
              sc == request[r].seen
  <2>1. /\ f \in [AttemptId -> Row] /\ d \in Device \cup {None}
        /\ a \in AttemptId /\ sc \in Scores
    BY <1>2, <1>3, <1>7 DEF TypeOK, Local
  <2>2. rows = [f EXCEPT ![a].device = d, ![a].score = sc]
    OBVIOUS
  <2>. HIDE DEF f, d, sc, a, rows
  <2>. QED BY <2>1, <2>2, ConstantRecords, RowUpdate
<1>b. \A c \in AttemptId :
         /\ rows[c].owner = Finalized(a, TRUE)[c].owner
         /\ rows[c].no = Finalized(a, TRUE)[c].no
         /\ rows[c].due = Finalized(a, TRUE)[c].due
         /\ rows[c].generation = Finalized(a, TRUE)[c].generation
         /\ rows[c].status = Finalized(a, TRUE)[c].status
         /\ c # a => rows[c] = Finalized(a, TRUE)[c]
         /\ c = a => rows[c].device = DeviceAfter(r)
  BY <1>3, <1>7 DEF Row
<1> HIDE DEF rows
<1>8. Evolves(rows)
  <2> DEFINE final == Finalized(a, TRUE)
  <2>1. \A c \in AttemptId : c # a => rows[c] = final[c]
    BY <1>b
  <2>2. /\ rows[a].owner = final[a].owner /\ rows[a].no = final[a].no
        /\ rows[a].due = final[a].due
        /\ rows[a].generation = final[a].generation
        /\ rows[a].status = "auto_submitted"
        /\ rows[a].device = DeviceAfter(r)
    BY <1>3, <1>6, <1>b
  <2>3. Evolves(final)
    BY <1>5
  <2> HIDE DEF final, a
  <2>. QED BY <1>3, <1>4, <1>a, <2>1, <2>2, <2>3 DEF Evolves
<1>9. \A c \in AttemptId : rows[c].owner = p => rows[c].status # "in_progress"
  <2> SUFFICES ASSUME NEW c \in AttemptId, rows[c].owner = p,
                      rows[c].status = "in_progress"
               PROVE  FALSE
    OBVIOUS
  <2>1. c # a
    BY <1>6, <1>b
  <2>2. attempt[c].owner = p /\ attempt[c].status = "in_progress"
    BY <1>5, <1>b, <2>1 DEF Evolves
  <2>. QED BY <1>2, <1>3, <2>1, <2>2 DEF TablesInv, ActiveIsLatest
<1>. QED BY <1>1, <1>8, <1>9, CreateStep

LEMMA CommitActiveStep ==
  ASSUME IInv, NEW r \in Request, CommitActive(r)
  PROVE  TypeOK' /\ Evolve
<1> DEFINE a == request[r].target
           d == request[r].device
<1>1. /\ EndStart(r) /\ a # None /\ ~Refused(r)
      /\ attempt' = [attempt EXCEPT ![a].device = DeviceAfter(r)]
      /\ Grant(a, d) /\ UNCHANGED participant
  BY DEF CommitActive
<1>2. /\ TypeOK /\ d \in Device \cup {None}
      /\ request' \in [Request -> Local]
      /\ participantLock' \in [Participant -> Request \cup {None}]
      /\ UNCHANGED <<clock, answer, sweep, faults>>
  BY <1>1, EndStartFacts
<1>3. /\ a \in AttemptId /\ attempt[a].status # "none"
      /\ DeviceAfter(r) \in Device \cup {None}
      /\ DeviceAfter(r) = d \/ d = None
      /\ attempt[a].device # None => DeviceAfter(r) = attempt[a].device
      /\ attempt[a].status # "in_progress" => DeviceAfter(r) = attempt[a].device
  BY <1>1, DeviceAfterFacts
<1>4. Evolves(attempt')
  <2>1. CASE attempt[a].status = "in_progress"
    BY <1>1, <1>2, <1>3, <2>1, BindEvolves
  <2>2. CASE attempt[a].status # "in_progress"
    <3>1. attempt' = attempt
      BY <1>1, <1>2, <1>3, <2>2 DEF TypeOK, Row
    <3>. QED BY <1>2, <3>1, KeepEvolves
  <2>. QED BY <2>1, <2>2
<1>5. /\ attempt' \in [AttemptId -> Row]
      /\ attempt'[a].status # "none"
      /\ attempt'[a].device = DeviceAfter(r)
  <2>1. attempt' \in [AttemptId -> Row]
    BY <1>4 DEF Evolves
  <2>2. attempt \in [AttemptId -> Row] /\ attempt[a] \in Row
    BY <1>2, <1>3 DEF TypeOK
  <2>3. attempt'[a] = [attempt[a] EXCEPT !.device = DeviceAfter(r)]
    BY <1>1, <1>3, <2>2
  <2>. QED BY <1>3, <2>1, <2>2, <2>3 DEF Row
<1>6. Evolve /\ granted' \in [AttemptId -> SUBSET Device]
  <2> HIDE DEF a, d
  <2>. QED BY <1>1, <1>2, <1>3, <1>4, <1>5, GrantEvolve
<1>. QED BY <1>1, <1>2, <1>5, <1>6 DEF TypeOK

-----------------------------------------------------------------------------
(* The other steps: types, and how they change the tables.                 *)

LEMMA WriteStep ==
  ASSUME IInv, NEW r \in Request, Write(r)
  PROVE  TypeOK' /\ Evolve
<1>1. TypeOK /\ LocalOK(r) /\ request \in [Request -> Local]
  BY DEF IInv, TypeOK
<1>2. ASSUME NEW a \in AttemptId, NEW i \in Item, NEW n \in ClientSeq \ {0},
             AutosaveCheck(r, a, i, n)
      PROVE  TypeOK' /\ Evolve
  <2>1. [Idle EXCEPT !.pc = "save", !.target = a, !.item = i, !.seq = n]
          \in Local
    BY ConstantRecords DEF Idle, Local, Step
  <2>. QED BY <1>1, <1>2, <2>1, KeepEvolve DEF TypeOK, AutosaveCheck
<1>3. ASSUME NEW a \in AttemptId, SubmitCheck(r, a) \/ StateCheck(r, a)
      PROVE  TypeOK' /\ Evolve
  <2>1. /\ [Idle EXCEPT !.pc = "submit", !.target = a] \in Local
        /\ [Idle EXCEPT !.pc = "state", !.target = a] \in Local
    BY ConstantRecords DEF Idle, Local, Step
  <2>. QED BY <1>1, <1>3, <2>1, KeepEvolve DEF TypeOK, SubmitCheck, StateCheck
<1>4. CASE AutosaveUpsert(r)
  <2> DEFINE a == request[r].target
             i == request[r].item
             n == request[r].seq
             kept == Upserted(answer[a][i], n)
  <2>1. /\ a \in AttemptId /\ i \in Item /\ n \in ClientSeq
        /\ answer \in [AttemptId -> [Item -> Saved]]
    BY <1>1, <1>4 DEF LocalOK, AutosaveUpsert, Local, TypeOK, Answers
  <2>2. /\ answer' = [answer EXCEPT ![a][i] = kept] /\ Return(r)
        /\ UNCHANGED <<clock, participant, attempt, participantLock, sweep,
                       granted, faults>>
    BY <1>4 DEF AutosaveUpsert
  <2>3. kept \in Saved
    <3>1. answer[a][i] \in Saved
      BY <2>1
    <3>. HIDE DEF a, i, n
    <3>. QED BY <2>1, <3>1 DEF Upserted, Saved
  <2> HIDE DEF a, i, n, kept
  <2>4. answer' \in [AttemptId -> Answers]
    BY <2>1, <2>2, <2>3 DEF Answers
  <2>5. request' \in [Request -> Local]
    BY <1>1, <2>2, ReturnType
  <2>. QED BY <1>1, <2>2, <2>4, <2>5, KeepEvolve DEF TypeOK
<1>5. CASE SubmitFinalize(r) \/ StateFinalize(r)
  <2> DEFINE a == request[r].target
  <2>1. /\ a \in AttemptId
        /\ StateFinalize(r) => attempt[a].due < clock
    BY <1>1, <1>5 DEF LocalOK, SubmitFinalize, StateFinalize
  <2>2. PICK by \in BOOLEAN : /\ attempt' = Finalized(a, by)
                              /\ by => attempt[a].due < clock
    BY <1>5, <2>1 DEF SubmitFinalize, StateFinalize
  <2>3. /\ Return(r)
        /\ UNCHANGED <<clock, participant, answer, participantLock, sweep,
                       granted, faults>>
    BY <1>5 DEF SubmitFinalize, StateFinalize
  <2>4. attempt' \in [AttemptId -> Row] /\ Evolve
    BY <1>1, <2>1, <2>2, <2>3, FinalizeStep
  <2>5. request' \in [Request -> Local]
    BY <1>1, <2>3, ReturnType
  <2>. QED BY <1>1, <2>3, <2>4, <2>5 DEF TypeOK
<1>. QED BY <1>2, <1>3, <1>4, <1>5 DEF Write

LEMMA SweepStep ==
  ASSUME IInv, NEW s \in Sweeper,
         Sweep(s) \/ \E a \in AttemptId : SweepFailure(s, a)
  PROVE  TypeOK' /\ Evolve
<1>1. TypeOK /\ SweepOK
  BY DEF IInv
<1>2. CASE SweepList(s)
  <2>1. ExpiredAttempts \in SUBSET AttemptId
    BY DEF ExpiredAttempts
  <2>. QED BY <1>1, <1>2, <2>1, KeepEvolve DEF TypeOK, SweepList
<1>3. ASSUME NEW a \in AttemptId, SweepFinalize(s, a)
      PROVE  TypeOK' /\ Evolve
  <2>1. /\ attempt[a].due < clock /\ attempt' = Finalized(a, TRUE)
        /\ sweep' = [sweep EXCEPT ![s] = @ \ {a}]
        /\ UNCHANGED <<clock, participant, answer, request, participantLock,
                       granted, faults>>
    BY <1>1, <1>3 DEF SweepOK, SweepFinalize
  <2>2. attempt' \in [AttemptId -> Row] /\ Evolve
    BY <1>1, <2>1, FinalizeStep
  <2>. QED BY <1>1, <2>1, <2>2 DEF TypeOK
<1>4. ASSUME NEW a \in AttemptId, SweepFailure(s, a)
      PROVE  TypeOK' /\ Evolve
  BY <1>1, <1>4, KeepEvolve DEF TypeOK, SweepFailure
<1>. QED BY <1>2, <1>3, <1>4 DEF Sweep

LEMMA ResetStep ==
  ASSUME TypeOK, NEW a \in AttemptId, Reset(a)
  PROVE  TypeOK'
<1>1. attempt' = [attempt EXCEPT ![a].status = "in_progress",
                                 ![a].score = NoScore,
                                 ![a].generation = attempt[a].generation + 1]
  BY DEF Reset
<1>2. attempt[a].generation + 1 \in Nat /\ "in_progress" \in Status
  BY DEF TypeOK, Row, Status
<1>3. attempt' \in [AttemptId -> Row]
  <2>. DEFINE g == attempt[a].generation + 1
  <2>1. attempt \in [AttemptId -> Row] /\ g \in Nat
    BY <1>2 DEF TypeOK
  <2>2. attempt' = [attempt EXCEPT ![a].status = "in_progress",
                                   ![a].score = NoScore, ![a].generation = g]
    BY <1>1
  <2>. HIDE DEF g
  <2>. QED BY <1>2, <2>1, <2>2, ConstantRecords, RowReopened
<1>. QED BY <1>3 DEF TypeOK, Reset

LEMMA CrashTickStep ==
  ASSUME TypeOK, Crash \/ Tick
  PROVE  TypeOK' /\ Evolve
BY ConstantRecords, KeepEvolve DEF TypeOK, Crash, Tick

-----------------------------------------------------------------------------
(* What the handlers that do not act may rely on.                          *)

(* Rows stay, with their due times.                                        *)
Stable ==
  \A a \in AttemptId : attempt[a].status # "none" =>
    /\ attempt'[a].status # "none"
    /\ attempt'[a].due = attempt[a].due

(* Nobody opens or reopens an attempt of p.                                *)
Quiet(p) ==
  /\ participant'[p] = participant[p]
  /\ \A a \in AttemptId :
       /\ attempt'[a].owner = p /\ attempt'[a].status = "in_progress" =>
            attempt[a].owner = p /\ attempt[a].status = "in_progress"
       /\ attempt[a].status # "none" =>
            /\ attempt'[a].owner = attempt[a].owner
            /\ attempt[a].device # None =>
                 attempt'[a].device = attempt[a].device

LEMMA EvolveFrame ==
  ASSUME TypeOK, Evolve
  PROVE  Stable /\ \A p \in Participant : Quiet(p)
BY DEF Evolve, Evolves, Stable, Quiet, TypeOK, Row

LEMMA OpenFrame ==
  ASSUME TypeOK, TablesInv, NEW p \in Participant, OpenFor(p)
  PROVE  Stable /\ \A q \in Participant \ {p} : Quiet(q)
<1>1. PICK rows \in [AttemptId -> Row], a \in AttemptId,
           d \in Device \cup {None}, due \in Nat : Opens(rows, p, a, d, due)
  BY DEF OpenFor
<1>2. /\ attempt'[a].owner = p
      /\ \A c \in AttemptId \ {a} : attempt'[c] = rows[c]
      /\ \A q \in Participant \ {p} : participant'[q] = participant[q]
      /\ Evolves(rows)
      /\ attempt[a].status = "none"
  BY <1>1 DEF Opens, TypeOK, Evolves
<1>3. Stable
  BY <1>2 DEF Stable, Evolves
<1>4. ASSUME NEW q \in Participant \ {p} PROVE Quiet(q)
  BY <1>2 DEF Quiet, Evolves
<1>. QED BY <1>3, <1>4

LEMMA ReopenFrame ==
  ASSUME TypeOK, NEW a \in AttemptId, Reset(a)
  PROVE  /\ Stable
         /\ participantLock[attempt[a].owner] = None
         /\ \A q \in Participant \ {attempt[a].owner} : Quiet(q)
<1>1. attempt' = [attempt EXCEPT ![a].status = "in_progress",
                                 ![a].score = NoScore,
                                 ![a].generation = @ + 1]
  BY DEF Reset
<1>2. participant' = participant /\ participantLock[attempt[a].owner] = None
  BY DEF Reset
<1>3. \A c \in AttemptId :
        /\ attempt'[c].owner = attempt[c].owner
        /\ attempt'[c].due = attempt[c].due
        /\ attempt'[c].device = attempt[c].device
        /\ attempt'[c].status =
             IF c = a THEN "in_progress" ELSE attempt[c].status
  BY <1>1 DEF TypeOK, Row
<1> HIDE DEF Reset
<1>. QED BY <1>2, <1>3 DEF Stable, Quiet

LEMMA LocalFrame ==
  ASSUME TypeOK, TypeOK', Stable, clock' >= clock, NEW r \in Request,
         LocalOK(r), request'[r] = request[r]
  PROVE  LocalOK(r)'
<1>1. /\ request[r].now \in Nat /\ clock \in Nat /\ clock' \in Nat
      /\ \A a \in AttemptId : attempt[a].due \in Nat
  BY DEF TypeOK, Local, Row
<1>. QED BY <1>1 DEF LocalOK, Stable

LEMMA SweepFrame ==
  ASSUME TypeOK, TypeOK', Stable, clock' >= clock, SweepOK,
         \A s \in Sweeper : sweep'[s] \subseteq sweep[s]
  PROVE  SweepOK'
<1>1. /\ clock \in Nat /\ clock' \in Nat
      /\ \A a \in AttemptId : attempt[a].due \in Nat
      /\ \A s \in Sweeper : sweep[s] \subseteq AttemptId
  BY DEF TypeOK, Row
<1>. QED BY <1>1 DEF SweepOK, Stable

LEMMA SnapshotFrame ==
  ASSUME TypeOK, NEW r \in Request, SnapshotOK(r), request'[r] = request[r],
         LocalOK(r), Stable,
         request[r].pc = "start_commit" =>
           /\ Quiet(request[r].who)
           /\ participantLock'[request[r].who] = r
  PROVE  SnapshotOK(r)'
<1> SUFFICES ASSUME request[r].pc = "start_commit"
             PROVE  SnapshotOK(r)'
  BY DEF SnapshotOK
<1> DEFINE p == request[r].who
           a == request[r].target
<1>1. p \in Participant /\ a \in AttemptId \cup {None}
  BY DEF LocalOK, TypeOK, Local
<1>2. a = None => ActiveOf(p)' = {}
  BY DEF SnapshotOK, Quiet, ActiveOf
<1>3. a # None => /\ attempt'[a].owner = p
                  /\ attempt'[a].status # "none"
                  /\ participant'[p].latest = a
                  /\ request[r].bound # None =>
                       attempt'[a].device = request[r].bound
  BY <1>1 DEF SnapshotOK, Quiet, Stable
<1>. QED BY <1>2, <1>3 DEF SnapshotOK, ActiveOf

(* A step of handler r preserves the invariant once what r itself holds    *)
(* after the step is established.                                          *)
LEMMA HandlerStep ==
  ASSUME IInv, TypeOK', NEW r \in Request,
         Evolve \/ \E p \in Participant : OpenFor(p) /\ participantLock[p] = r,
         UNCHANGED <<clock, sweep>>,
         \A o \in Request \ {r} : request'[o] = request[o],
         \A p \in Participant : \/ participantLock'[p] = participantLock[p]
                                \/ participantLock[p] \in {None, r},
         LocalOK(r)', SnapshotOK(r)'
  PROVE  IInv'
<1>1. TypeOK /\ TablesInv /\ SweepOK
  BY DEF IInv
<1>2. clock' >= clock
  BY <1>1 DEF TypeOK
<1>3. TablesInv'
  BY <1>1, <1>2, EvolveTables, OpenTables
<1>4. Stable
  BY <1>1, EvolveFrame, OpenFrame
<1>5. SweepOK'
  BY <1>1, <1>2, <1>4, SweepFrame
<1>6. ASSUME NEW o \in Request \ {r}
      PROVE  LocalOK(o)' /\ SnapshotOK(o)'
  <2>1. LocalOK(o) /\ SnapshotOK(o) /\ request'[o] = request[o]
    BY DEF IInv
  <2>2. ASSUME request[o].pc = "start_commit"
        PROVE  /\ Quiet(request[o].who)
               /\ participantLock'[request[o].who] = o
    <3> DEFINE q == request[o].who
    <3>1. q \in Participant /\ participantLock[q] = o /\ o # None
      BY <2>1, <2>2, NoneAssumption DEF LocalOK, SnapshotOK
    <3>2. Quiet(q)
      BY <1>1, <3>1, EvolveFrame, OpenFrame
    <3>. QED BY <3>1, <3>2
  <2>. QED BY <1>1, <1>2, <1>4, <2>1, <2>2, LocalFrame, SnapshotFrame
<1>. QED BY <1>3, <1>5, <1>6 DEF IInv

(* A handler that has returned holds nothing.                              *)
LEMMA IdleOK ==
  ASSUME TypeOK, TypeOK', NEW r \in Request, request'[r] = Idle
  PROVE  LocalOK(r)' /\ SnapshotOK(r)'
BY DEF LocalOK, SnapshotOK, Idle, TypeOK

LEMMA ReturnOK ==
  ASSUME TypeOK, TypeOK', NEW r \in Request, Return(r)
  PROVE  /\ LocalOK(r)' /\ SnapshotOK(r)'
         /\ \A o \in Request \ {r} : request'[o] = request[o]
BY IdleOK DEF Return, TypeOK

LEMMA StartBeginInv ==
  ASSUME IInv, NEW r \in Request, NEW p \in Participant,
         NEW d \in Device \cup {None}, StartBegin(r, p, d)
  PROVE  IInv'
<1>1. TypeOK /\ TypeOK' /\ Evolve
  BY StartBeginStep DEF IInv
<1>2. /\ UNCHANGED <<clock, sweep, participantLock>>
      /\ \A o \in Request \ {r} : request'[o] = request[o]
      /\ request'[r].pc = "start_lookup" /\ request'[r].who = p
      /\ request'[r].now = clock
  BY <1>1 DEF StartBegin, TypeOK, Idle
<1>3. LocalOK(r)' /\ SnapshotOK(r)'
  BY <1>1, <1>2 DEF LocalOK, SnapshotOK, TypeOK
<1>. QED BY <1>1, <1>2, <1>3, HandlerStep

(* Going on with an active attempt.                                        *)
LEMMA ResumeOK ==
  ASSUME IInv, TypeOK', Stable, NEW r \in Request, NEW a \in AttemptId,
         NEW full, Resume(r, a, full), attempt[a].status # "none",
         request[r].who \in Participant, UNCHANGED clock
  PROVE  /\ LocalOK(r)' /\ SnapshotOK(r)'
         /\ \A o \in Request \ {r} : request'[o] = request[o]
<1>1. TypeOK /\ LocalOK(r)
  BY DEF IInv
<1>2. CASE request[r].now > attempt[a].due
  <2>1. request' = [request EXCEPT ![r].pc = "start_finalize",
                                   ![r].target = a, ![r].full = full]
    BY <1>2 DEF Resume
  <2>2. /\ request'[r].pc = "start_finalize" /\ request'[r].target = a
        /\ request'[r].now = request[r].now /\ request'[r].who = request[r].who
        /\ \A o \in Request \ {r} : request'[o] = request[o]
    BY <1>1, <2>1 DEF TypeOK, Local
  <2>3. request[r].now \in Nat /\ attempt[a].due \in Nat
    BY <1>1 DEF TypeOK, Local, Row
  <2>. QED BY <1>1, <1>2, <2>2, <2>3 DEF LocalOK, SnapshotOK, Stable
<1>3. CASE ~(request[r].now > attempt[a].due)
  BY <1>1, <1>3, ReturnOK DEF Resume
<1>. QED BY <1>2, <1>3

(* Going on to the transaction.                                            *)
LEMMA GotoTxOK ==
  ASSUME IInv, NEW r \in Request, Goto(r, "start_tx", None),
         request[r].who \in Participant, UNCHANGED clock
  PROVE  /\ LocalOK(r)' /\ SnapshotOK(r)'
         /\ \A o \in Request \ {r} : request'[o] = request[o]
<1>1. TypeOK /\ LocalOK(r)
  BY DEF IInv
<1>2. /\ request'[r].pc = "start_tx"
      /\ request'[r].now = request[r].now /\ request'[r].who = request[r].who
      /\ \A o \in Request \ {r} : request'[o] = request[o]
  BY <1>1 DEF Goto, TypeOK, Local
<1>. QED BY <1>1, <1>2 DEF LocalOK, SnapshotOK

LEMMA StartLookupInv ==
  ASSUME IInv, NEW r \in Request, StartLookup(r)
  PROVE  IInv'
<1> DEFINE p == request[r].who
           d == request[r].device
           full == participant[p].count >= MaxAttempts
<1>1. TypeOK /\ TypeOK' /\ Evolve /\ LocalOK(r)
  BY StartLookupStep DEF IInv
<1>2. /\ UNCHANGED <<clock, attempt, sweep, participantLock>>
      /\ request[r].pc = "start_lookup"
      /\ \/ Return(r)
         \/ Goto(r, "start_tx", None)
         \/ \E a \in ActiveOf(p) :
              \/ request' = [request EXCEPT ![r].pc = "start_bind",
                                            ![r].target = a, ![r].full = full]
              \/ Resume(r, a, full)
  <2> HIDE DEF IInv
  <2>. QED BY DEF StartLookup
<1>3. p \in Participant /\ Stable
  BY <1>1, <1>2, EvolveFrame DEF LocalOK
<1> HIDE DEF full
<1>4. ASSUME NEW a \in ActiveOf(p),
             request' = [request EXCEPT ![r].pc = "start_bind",
                                        ![r].target = a, ![r].full = full]
      PROVE  /\ LocalOK(r)' /\ SnapshotOK(r)'
             /\ \A o \in Request \ {r} : request'[o] = request[o]
  <2>1. /\ request'[r].pc = "start_bind" /\ request'[r].target = a
        /\ request'[r].now = request[r].now /\ request'[r].who = p
        /\ \A o \in Request \ {r} : request'[o] = request[o]
    BY <1>1, <1>4 DEF TypeOK, Local
  <2>. QED BY <1>1, <1>2, <1>3, <2>1 DEF ActiveOf, LocalOK, SnapshotOK, Stable
<1>5. ASSUME NEW a \in ActiveOf(p), Resume(r, a, full)
      PROVE  /\ LocalOK(r)' /\ SnapshotOK(r)'
             /\ \A o \in Request \ {r} : request'[o] = request[o]
  <2>1. a \in AttemptId /\ attempt[a].status # "none"
    BY DEF ActiveOf
  <2>. QED BY <1>1, <1>2, <1>3, <1>5, <2>1, ResumeOK
<1>6. /\ LocalOK(r)' /\ SnapshotOK(r)'
      /\ \A o \in Request \ {r} : request'[o] = request[o]
  BY <1>1, <1>2, <1>3, <1>4, <1>5, ReturnOK, GotoTxOK
<1>. QED BY <1>1, <1>2, <1>6, HandlerStep

LEMMA StartBindInv ==
  ASSUME IInv, NEW r \in Request, StartBind(r)
  PROVE  IInv'
<1> DEFINE a == request[r].target
           full == request[r].full
<1>1. TypeOK /\ TypeOK' /\ Evolve /\ LocalOK(r)
  BY StartBindStep DEF IInv
<1>2. /\ UNCHANGED <<clock, sweep, participantLock>>
      /\ request[r].pc = "start_bind"
      /\ Resume(r, a, full) \/ Return(r)
  BY DEF StartBind
<1>3. /\ request[r].who \in Participant /\ a \in AttemptId
      /\ attempt[a].status # "none" /\ Stable
  BY <1>1, <1>2, EvolveFrame DEF LocalOK
<1> HIDE DEF a, full
<1>4. /\ LocalOK(r)' /\ SnapshotOK(r)'
      /\ \A o \in Request \ {r} : request'[o] = request[o]
  BY <1>1, <1>2, <1>3, ResumeOK, ReturnOK
<1>. QED BY <1>1, <1>2, <1>4, HandlerStep

LEMMA StartFinalizeInv ==
  ASSUME IInv, NEW r \in Request, StartFinalize(r)
  PROVE  IInv'
<1>1. TypeOK /\ TypeOK' /\ Evolve /\ LocalOK(r)
  BY StartFinalizeStep DEF IInv
<1>2. /\ UNCHANGED <<clock, sweep, participantLock>>
      /\ request[r].pc = "start_finalize"
      /\ Return(r) \/ Goto(r, "start_tx", None)
  BY DEF StartFinalize
<1>3. /\ LocalOK(r)' /\ SnapshotOK(r)'
      /\ \A o \in Request \ {r} : request'[o] = request[o]
  BY <1>1, <1>2, ReturnOK, GotoTxOK DEF LocalOK
<1>. QED BY <1>1, <1>2, <1>3, HandlerStep

LEMMA StartLockInv ==
  ASSUME IInv, NEW r \in Request, StartLock(r)
  PROVE  IInv'
<1> DEFINE p == request[r].who
<1>1. TypeOK /\ TypeOK' /\ Evolve /\ LocalOK(r) /\ ActiveIsLatest
  BY StartLockStep DEF IInv, TablesInv
<1>2. /\ UNCHANGED <<clock, attempt, participant, sweep>>
      /\ request[r].pc = "start_tx" /\ participantLock[p] = None
      /\ participantLock' = [participantLock EXCEPT ![p] = r]
      /\ \/ ActiveOf(p) = {} /\ Goto(r, "start_commit", None)
         \/ \E a \in ActiveOf(p) :
              request' = [request EXCEPT ![r].pc = "start_commit",
                                         ![r].target = a,
                                         ![r].bound = attempt[a].device,
                                         ![r].seen = Score(a)]
  BY DEF StartLock
<1>3. p \in Participant
  BY <1>1, <1>2 DEF LocalOK
<1>4. /\ participantLock'[p] = r
      /\ \A q \in Participant : \/ participantLock'[q] = participantLock[q]
                                \/ participantLock[q] \in {None, r}
  BY <1>1, <1>2, <1>3 DEF TypeOK
<1>5. CASE ActiveOf(p) = {} /\ Goto(r, "start_commit", None)
  <2>1. /\ request'[r].pc = "start_commit" /\ request'[r].target = None
        /\ request'[r].now = request[r].now /\ request'[r].who = p
        /\ \A o \in Request \ {r} : request'[o] = request[o]
    BY <1>1, <1>5 DEF Goto, TypeOK, Local
  <2>2. ActiveOf(request[r].who)' = {}
    BY <1>2, <1>5, <2>1 DEF ActiveOf
  <2>3. LocalOK(r)'
    BY <1>1, <1>2, <1>3, <2>1 DEF LocalOK
  <2>4. SnapshotOK(r)'
    BY <1>4, <2>1, <2>2 DEF SnapshotOK
  <2>. QED BY <1>1, <1>2, <1>4, <2>1, <2>3, <2>4, HandlerStep
<1>6. ASSUME NEW a \in ActiveOf(p),
             request' = [request EXCEPT ![r].pc = "start_commit",
                                        ![r].target = a,
                                        ![r].bound = attempt[a].device,
                                        ![r].seen = Score(a)]
      PROVE  IInv'
  <2>1. /\ request'[r].pc = "start_commit" /\ request'[r].target = a
        /\ request'[r].bound = attempt[a].device
        /\ request'[r].now = request[r].now /\ request'[r].who = p
        /\ \A o \in Request \ {r} : request'[o] = request[o]
    BY <1>1, <1>6 DEF TypeOK, Local
  <2>2. /\ a # None /\ attempt[a].owner = p /\ attempt[a].status # "none"
        /\ participant[p].latest = a
    BY <1>1, NoneAssumption DEF ActiveOf, ActiveIsLatest
  <2>3. LocalOK(r)'
    BY <1>1, <1>2, <1>3, <2>1 DEF LocalOK
  <2>4. SnapshotOK(r)'
    BY <1>2, <1>4, <2>1, <2>2 DEF SnapshotOK
  <2>. QED BY <1>1, <1>2, <1>4, <2>1, <2>3, <2>4, HandlerStep
<1>. QED BY <1>2, <1>5, <1>6

LEMMA CommitInv ==
  ASSUME IInv, NEW r \in Request,
         CommitNew(r) \/ CommitRefused(r) \/ CommitExpired(r) \/ CommitActive(r)
  PROVE  IInv'
<1> DEFINE p == request[r].who
<1>1. /\ EndStart(r)
      /\ TypeOK' /\ (Evolve \/ OpenFor(p))
  <2>1. EndStart(r)
    BY DEF CommitNew, CommitRefused, CommitExpired, CommitActive
  <2>. QED BY <2>1, CommitNewStep, CommitRefusedStep, CommitExpiredStep,
              CommitActiveStep
<1>2. /\ TypeOK /\ p \in Participant /\ SnapshotOK(r)
      /\ request[r].pc = "start_commit"
  BY <1>1, EndStartFacts
<1>3. /\ Return(r) /\ UNCHANGED <<clock, sweep>>
      /\ participantLock' = [participantLock EXCEPT ![p] = None]
  BY <1>1 DEF EndStart
<1>4. participantLock[p] = r
  BY <1>2 DEF SnapshotOK
<1>5. \A q \in Participant : \/ participantLock'[q] = participantLock[q]
                             \/ participantLock[q] \in {None, r}
  BY <1>2, <1>3, <1>4 DEF TypeOK
<1>. QED BY <1>1, <1>2, <1>3, <1>4, <1>5, ReturnOK, HandlerStep

LEMMA WriteInv ==
  ASSUME IInv, NEW r \in Request, Write(r)
  PROVE  IInv'
<1>1. TypeOK /\ TypeOK' /\ Evolve
  BY WriteStep DEF IInv
<1>2. UNCHANGED <<clock, sweep, participantLock>>
  BY DEF Write, AutosaveCheck, AutosaveUpsert, SubmitCheck, SubmitFinalize,
         StateCheck, StateFinalize
<1>3. CASE Return(r)
  BY <1>1, <1>2, <1>3, ReturnOK, HandlerStep
<1>4. ASSUME NEW a \in AttemptId, NEW i \in Item, NEW n \in ClientSeq \ {0},
             AutosaveCheck(r, a, i, n)
      PROVE  IInv'
  <2>1. /\ \A o \in Request \ {r} : request'[o] = request[o]
        /\ request'[r].target = a /\ request'[r].now = 0
        /\ request'[r].pc = "save" /\ request'[r].item = i
        /\ attempt'[a] = attempt[a]
        /\ attempt[a].status # "none"
    BY <1>1, <1>4 DEF AutosaveCheck, TypeOK, Idle, Accepts
  <2>2. LocalOK(r)'
    BY <1>1, <1>2, <2>1 DEF LocalOK, TypeOK
  <2>3. SnapshotOK(r)'
    BY <2>1 DEF SnapshotOK
  <2>. QED BY <1>1, <1>2, <2>1, <2>2, <2>3, HandlerStep
<1>5. ASSUME NEW a \in AttemptId, SubmitCheck(r, a) \/ StateCheck(r, a)
      PROVE  IInv'
  <2>1. /\ \A o \in Request \ {r} : request'[o] = request[o]
        /\ request'[r].target = a /\ request'[r].now = 0
        /\ \/ request'[r].pc = "submit"
           \/ request'[r].pc = "state" /\ attempt[a].due < clock
        /\ attempt'[a] = attempt[a]
        /\ attempt[a].status # "none"
    <3>1. attempt' = attempt /\ attempt[a].status = "in_progress"
      BY <1>5 DEF SubmitCheck, StateCheck, Accepts
    <3>2. CASE SubmitCheck(r, a)
      BY <1>1, <3>1, <3>2 DEF SubmitCheck, TypeOK, Idle
    <3>3. CASE StateCheck(r, a)
      <4>1. attempt[a].due < clock
        BY <1>1, <3>3 DEF StateCheck, TypeOK, Row
      <4>. QED BY <1>1, <3>1, <3>3, <4>1 DEF StateCheck, TypeOK, Idle
    <3>. QED BY <1>5, <3>2, <3>3
  <2>2. LocalOK(r)'
    BY <1>1, <1>2, <2>1 DEF LocalOK, TypeOK
  <2>3. SnapshotOK(r)'
    BY <2>1 DEF SnapshotOK
  <2>. QED BY <1>1, <1>2, <2>1, <2>2, <2>3, HandlerStep
<1>6. \/ Return(r)
      \/ \E a \in AttemptId :
           \/ \E i \in Item, n \in ClientSeq \ {0} : AutosaveCheck(r, a, i, n)
           \/ SubmitCheck(r, a)
           \/ StateCheck(r, a)
  BY DEF Write, AutosaveUpsert, SubmitFinalize, StateFinalize
<1>. QED BY <1>3, <1>4, <1>5, <1>6

(* Steps that leave all handlers and locks as they are.                    *)
LEMMA OutsideStep ==
  ASSUME IInv, TypeOK', TablesInv', SweepOK', Stable, clock' >= clock,
         UNCHANGED <<request, participantLock>>,
         \A p \in Participant : participantLock[p] # None => Quiet(p)
  PROVE  IInv'
<1>1. TypeOK
  BY DEF IInv
<1>2. ASSUME NEW o \in Request
      PROVE  LocalOK(o)' /\ SnapshotOK(o)'
  <2>1. LocalOK(o) /\ SnapshotOK(o)
    BY DEF IInv
  <2>2. request[o].pc = "start_commit" =>
          /\ Quiet(request[o].who)
          /\ participantLock'[request[o].who] = o
    BY <2>1, NoneAssumption DEF LocalOK, SnapshotOK
  <2>. QED BY <1>1, <2>1, <2>2, LocalFrame, SnapshotFrame
<1>. QED BY <1>2 DEF IInv

LEMMA SweepInv ==
  ASSUME IInv, NEW s \in Sweeper,
         Sweep(s) \/ \E a \in AttemptId : SweepFailure(s, a)
  PROVE  IInv'
<1>1. TypeOK /\ TypeOK' /\ TablesInv /\ SweepOK /\ Evolve
  BY SweepStep DEF IInv
<1>2. UNCHANGED <<clock, request, participantLock>>
  BY DEF Sweep, SweepList, SweepFinalize, SweepFailure
<1>3. clock' >= clock
  BY <1>1, <1>2 DEF TypeOK
<1>4. TablesInv' /\ Stable /\ \A p \in Participant : Quiet(p)
  BY <1>1, <1>3, EvolveTables, EvolveFrame
<1>5. SweepOK'
  <2>1. CASE SweepList(s)
    BY <1>1, <2>1 DEF SweepList, SweepOK, ExpiredAttempts, TypeOK
  <2>2. CASE \E a \in AttemptId : SweepFinalize(s, a) \/ SweepFailure(s, a)
    <3>1. \A z \in Sweeper : sweep'[z] \subseteq sweep[z]
      BY <1>1, <2>2 DEF SweepFinalize, SweepFailure, TypeOK
    <3>. QED BY <1>1, <1>3, <1>4, <3>1, SweepFrame
  <2>. QED BY <2>1, <2>2 DEF Sweep
<1>. QED BY <1>1, <1>2, <1>3, <1>4, <1>5, OutsideStep

LEMMA ResetInv ==
  ASSUME IInv, NEW a \in AttemptId, Reset(a)
  PROVE  IInv'
<1>1. TypeOK /\ TypeOK' /\ TablesInv /\ SweepOK
  BY ResetStep DEF IInv
<1>2. UNCHANGED <<clock, request, participantLock, sweep>>
  BY DEF Reset
<1>3. clock' >= clock
  BY <1>1, <1>2 DEF TypeOK
<1>4. TablesInv'
  BY <1>1, ReopenTables
<1>5. /\ Stable
      /\ \A p \in Participant : participantLock[p] # None => Quiet(p)
  BY <1>1, ReopenFrame
<1>6. SweepOK'
  BY <1>1, <1>2, <1>3, <1>5, SweepFrame
<1>. QED BY <1>1, <1>2, <1>3, <1>4, <1>5, <1>6, OutsideStep

LEMMA CrashInv ==
  ASSUME IInv, Crash
  PROVE  IInv'
<1>1. TypeOK /\ TypeOK' /\ TablesInv /\ Evolve
  BY CrashTickStep DEF IInv
<1>2. /\ \A r \in Request : request'[r] = Idle
      /\ \A s \in Sweeper : sweep'[s] = {}
      /\ clock' >= clock
  BY <1>1 DEF Crash, TypeOK
<1>3. TablesInv'
  BY <1>1, <1>2, EvolveTables
<1>4. SweepOK'
  BY <1>2 DEF SweepOK
<1>5. \A r \in Request : LocalOK(r)' /\ SnapshotOK(r)'
  BY <1>1, <1>2, IdleOK
<1>. QED BY <1>1, <1>3, <1>4, <1>5 DEF IInv

LEMMA TickInv ==
  ASSUME IInv, Tick
  PROVE  IInv'
<1>1. TypeOK /\ TypeOK' /\ TablesInv /\ SweepOK /\ Evolve
  BY CrashTickStep DEF IInv
<1>2. /\ UNCHANGED <<request, participantLock, sweep>>
      /\ clock' >= clock
  BY <1>1 DEF Tick, TypeOK
<1>3. TablesInv' /\ Stable /\ \A p \in Participant : Quiet(p)
  BY <1>1, <1>2, EvolveTables, EvolveFrame
<1>4. SweepOK'
  BY <1>1, <1>2, <1>3, SweepFrame
<1>. QED BY <1>1, <1>2, <1>3, <1>4, OutsideStep

LEMMA InitInv == Init => IInv
<1> SUFFICES ASSUME Init PROVE IInv
  OBVIOUS
<1>1. TypeOK
  BY ConstantRecords DEF Init, TypeOK
<1>2. RowsOK
  BY DEF Init, RowsOK, NoRow
<1>3. ActiveIsLatest /\ AutoSubmitOnlyExpired
  BY DEF Init, ActiveIsLatest, AutoSubmitOnlyExpired, NoRow
<1>4. AttemptsAccounted
  BY NoneAssumption, NumbersAssumption DEF Init, AttemptsAccounted, NoRow
<1>5. SweepOK /\ \A r \in Request : LocalOK(r) /\ SnapshotOK(r)
  BY DEF Init, SweepOK, LocalOK, SnapshotOK, Idle
<1>. QED BY <1>1, <1>2, <1>3, <1>4, <1>5 DEF IInv, TablesInv

LEMMA StutterInv ==
  ASSUME IInv, UNCHANGED vars
  PROVE  IInv'
<1>1. TypeOK /\ TypeOK' /\ TablesInv /\ SweepOK
  BY DEF IInv, vars, TypeOK
<1>2. Evolve /\ clock' >= clock /\ UNCHANGED <<request, participantLock, sweep>>
  BY <1>1, KeepEvolve DEF vars, TypeOK
<1>3. TablesInv' /\ Stable /\ \A p \in Participant : Quiet(p)
  BY <1>1, <1>2, EvolveTables, EvolveFrame
<1>4. SweepOK'
  BY <1>1, <1>2, <1>3, SweepFrame
<1>. QED BY <1>1, <1>2, <1>3, <1>4, OutsideStep

(* The inductive invariant: tables, sweeps and what each handler holds.    *)
THEOREM Inductive == Spec => []IInv
<1>1. ASSUME IInv, [Next]_vars PROVE IInv'
  <2>1. ASSUME NEW r \in Request, Start(r) PROVE IInv'
    <3> USE <1>1
    <3>1. ASSUME NEW p \in Participant, NEW d \in Device \cup {None},
                 StartBegin(r, p, d)
          PROVE  IInv'
      BY <3>1, StartBeginInv
    <3>2. CASE StartLookup(r)
      BY <3>2, StartLookupInv
    <3>3. CASE StartBind(r)
      BY <3>3, StartBindInv
    <3>4. CASE StartFinalize(r)
      BY <3>4, StartFinalizeInv
    <3>5. CASE StartLock(r)
      BY <3>5, StartLockInv
    <3>6. CASE \/ CommitNew(r) \/ CommitRefused(r)
               \/ CommitExpired(r) \/ CommitActive(r)
      BY <3>6, CommitInv
    <3>. QED BY <2>1, <3>1, <3>2, <3>3, <3>4, <3>5, <3>6 DEF Start
  <2>2. ASSUME NEW r \in Request, Write(r) PROVE IInv'
    BY <1>1, <2>2, WriteInv
  <2>3. ASSUME NEW s \in Sweeper,
               Sweep(s) \/ \E a \in AttemptId : SweepFailure(s, a)
        PROVE  IInv'
    BY <1>1, <2>3, SweepInv
  <2>4. ASSUME NEW a \in AttemptId, Reset(a) PROVE IInv'
    BY <1>1, <2>4, ResetInv
  <2>5. CASE Crash
    BY <1>1, <2>5, CrashInv
  <2>6. CASE Tick
    BY <1>1, <2>6, TickInv
  <2>7. CASE UNCHANGED vars
    BY <1>1, <2>7, StutterInv
  <2>. QED BY <1>1, <2>1, <2>2, <2>3, <2>4, <2>5, <2>6, <2>7 DEF Next
<1>. QED BY <1>1, InitInv, PTL DEF Spec

-----------------------------------------------------------------------------
(* The properties of AttemptLifecycle, for every value of the constants.   *)

(* Every variable keeps its type.                                          *)
THEOREM TypeCorrect == Spec => []TypeOK
BY Inductive, PTL DEF IInv

(* No interleaving of starts, expiry and resets leaves a participant with  *)
(* an attempt in progress that is not the latest one.                      *)
THEOREM OnlyLatestActive == Spec => []ActiveIsLatest
<1>1. IInv => ActiveIsLatest
  BY DEF IInv, TablesInv
<1>. QED BY <1>1, Inductive, PTL

(* Attempt numbers are used once each, without gaps, up to max_attempts.   *)
THEOREM NumbersAccounted == Spec => []AttemptsAccounted
<1>1. IInv => AttemptsAccounted
  BY DEF IInv, TablesInv
<1>. QED BY <1>1, Inductive, PTL

(* startAttempt never hands one attempt to two devices.                    *)
THEOREM DeviceExclusive == Spec => []OneDevicePerAttempt
<1>1. IInv => OneDevicePerAttempt
  BY DEF IInv, TablesInv, RowsOK, OneDevicePerAttempt
<1>. QED BY <1>1, Inductive, PTL

(* The server closes an attempt on its own only after its due time.        *)
THEOREM AutoSubmitAfterDue == Spec => []AutoSubmitOnlyExpired
<1>1. IInv => AutoSubmitOnlyExpired
  BY DEF IInv, TablesInv
<1>. QED BY <1>1, Inductive, PTL

(* Every step evolves the rows, opens an attempt or reopens one.           *)
LEMMA NextChanges ==
  ASSUME IInv, [Next]_vars
  PROVE  \/ Evolve
         \/ \E p \in Participant : OpenFor(p)
         \/ \E a \in AttemptId : Reset(a)
<1>1. TypeOK
  BY DEF IInv
<1>2. ASSUME NEW r \in Request, Start(r)
      PROVE  Evolve \/ \E p \in Participant : OpenFor(p)
  <2>1. CASE EndStart(r)
    BY <1>2, <2>1, EndStartFacts, CommitNewStep, CommitRefusedStep,
       CommitExpiredStep, CommitActiveStep, StartBeginStep, StartLookupStep,
       StartBindStep, StartFinalizeStep, StartLockStep DEF Start
  <2>2. CASE ~EndStart(r)
    BY <1>2, <2>2, StartBeginStep, StartLookupStep, StartBindStep,
       StartFinalizeStep, StartLockStep
       DEF Start, CommitNew, CommitRefused, CommitExpired, CommitActive
  <2>. QED BY <2>1, <2>2
<1>3. ASSUME UNCHANGED vars PROVE Evolve
  BY <1>1, <1>3, KeepEvolve DEF vars
<1>. QED BY <1>1, <1>2, <1>3, WriteStep, SweepStep, CrashTickStep DEF Next

(* A finished attempt changes only by being reopened, one generation on.   *)
THEOREM FinishedIsFinal == Spec => ResultIsFinal
<1> DEFINE Final(a) ==
      \/ attempt'[a] = attempt[a]
      \/ /\ attempt'[a].status = "in_progress"
         /\ attempt'[a].generation = attempt[a].generation + 1
<1>1. ASSUME IInv, [Next]_vars, NEW c \in AttemptId,
             attempt[c].status \in Finished
      PROVE  Final(c)
  <2>0. /\ TypeOK
        /\ attempt[c].status # "none" /\ attempt[c].status # "in_progress"
    BY <1>1 DEF IInv, Finished
  <2>1. CASE Evolve
    BY <2>0, <2>1 DEF Evolve, Evolves
  <2>2. ASSUME NEW p \in Participant, OpenFor(p) PROVE Final(c)
    <3>1. PICK rows \in [AttemptId -> Row], a \in AttemptId,
               d \in Device \cup {None}, due \in Nat : Opens(rows, p, a, d, due)
      BY <2>2 DEF OpenFor
    <3>2. c # a /\ rows[c] = attempt[c]
      BY <2>0, <3>1 DEF Opens, Evolves
    <3>. QED BY <3>1, <3>2 DEF Opens
  <2>3. ASSUME NEW a \in AttemptId, Reset(a) PROVE Final(c)
    BY <2>0, <2>3 DEF Reset, TypeOK, Row
  <2>. QED BY <1>1, <2>1, <2>2, <2>3, NextChanges
<1>2. IInv /\ [Next]_vars =>
        \A a \in AttemptId : attempt[a].status \in Finished => Final(a)
  BY <1>1
<1>. QED BY <1>2, Inductive, PTL DEF ResultIsFinal, Spec

(* A stored answer is only ever replaced by a newer one.                   *)
THEOREM AnswersMonotonic == Spec => AnswersNeverRegress
<1>1. ASSUME IInv, [Next]_vars, NEW c \in AttemptId, NEW j \in Item
      PROVE  answer'[c][j].seq >= answer[c][j].seq
  <2>1. answer \in [AttemptId -> [Item -> Saved]] /\ answer[c][j].seq \in Nat
    BY <1>1 DEF IInv, TypeOK, Answers, Saved, ClientSeq
  <2>2. CASE UNCHANGED answer
    BY <2>1, <2>2
  <2>3. ASSUME NEW r \in Request, AutosaveUpsert(r)
        PROVE  answer'[c][j].seq >= answer[c][j].seq
    <3> DEFINE a == request[r].target
               i == request[r].item
               n == request[r].seq
               kept == Upserted(answer[a][i], n)
    <3>1. a \in AttemptId /\ i \in Item /\ n \in Nat
      BY <1>1, <2>3 DEF IInv, TypeOK, LocalOK, AutosaveUpsert, Local, ClientSeq
    <3>2. answer' = [answer EXCEPT ![a][i] = kept]
      BY <2>3 DEF AutosaveUpsert
    <3>3. kept.seq >= answer[a][i].seq
      <4>1. answer[a][i].seq \in Nat /\ answer[a][i] \in Saved
        BY <2>1, <3>1 DEF Saved, ClientSeq
      <4>. QED BY <3>1, <4>1 DEF Upserted, Saved
    <3> HIDE DEF a, i, n, kept
    <3>. QED BY <2>1, <3>1, <3>2, <3>3
  <2>4. UNCHANGED answer \/ \E r \in Request : AutosaveUpsert(r)
    <3>1. ASSUME NEW r \in Request, Start(r)
          PROVE  UNCHANGED answer
      BY <3>1 DEF Start, StartBegin, StartLookup, StartBind, StartFinalize,
                  StartLock, CommitNew, CommitRefused, CommitExpired,
                  CommitActive, EndStart
    <3>2. ASSUME NEW r \in Request, Write(r)
          PROVE  UNCHANGED answer \/ AutosaveUpsert(r)
      BY <3>2 DEF Write, AutosaveCheck, SubmitCheck, SubmitFinalize,
                  StateCheck, StateFinalize
    <3>3. ASSUME NEW s \in Sweeper,
                 Sweep(s) \/ \E a \in AttemptId : SweepFailure(s, a)
          PROVE  UNCHANGED answer
      BY <3>3 DEF Sweep, SweepList, SweepFinalize, SweepFailure
    <3>4. ASSUME \/ \E a \in AttemptId : Reset(a)
                 \/ Crash \/ Tick \/ UNCHANGED vars
          PROVE  UNCHANGED answer
      BY <3>4 DEF Reset, Crash, Tick, vars
    <3>. QED BY <1>1, <3>1, <3>2, <3>3, <3>4 DEF Next
  <2>. QED BY <2>2, <2>3, <2>4
<1>2. IInv /\ [Next]_vars =>
        \A a \in AttemptId, i \in Item :
          answer'[a][i].seq >= answer[a][i].seq
  BY <1>1
<1>. QED BY <1>2, Inductive, PTL DEF AnswersNeverRegress, Spec

=============================================================================
