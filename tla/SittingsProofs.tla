--------------------------- MODULE SittingsProofs ---------------------------
(***************************************************************************)
(* AttemptLifecycle implements Sittings: every step of a handler, sweeper, *)
(* reset or crash is one step of some student's sittings, or none.         *)
(***************************************************************************)
EXTENDS AttemptLifecycleProofs, SequenceTheorems

(* What a student sees of a row.                                           *)
ViewOf(row) == [status |-> row.status, device |-> row.device,
                generation |-> row.generation, due |-> row.due]

(* p's attempts in a table, in the order of their numbers.                 *)
Listed(rows, p, n) ==
  [k \in 1..n |->
     ViewOf(rows[CHOOSE a \in AttemptId : rows[a].owner = p /\ rows[a].no = k])]

(* p has n attempts in a table, and they are numbered 1, ..., n.           *)
Numbered(rows, p, n) ==
  /\ n \in Nat
  /\ \A a \in AttemptId : rows[a].owner = p => rows[a].no \in 1..n
  /\ \A a, b \in AttemptId :
       rows[a].owner = p /\ rows[b].owner = p /\ rows[a].no = rows[b].no => a = b
  /\ \A k \in 1..n : \E a \in AttemptId : rows[a].owner = p /\ rows[a].no = k

Views(rows) == {ViewOf(rows[a]) : a \in AttemptId}

-----------------------------------------------------------------------------
(* Lists of numbered attempts.                                             *)

LEMMA ListedFacts ==
  ASSUME NEW rows, NEW p, NEW n, Numbered(rows, p, n), NEW V,
         \A a \in AttemptId : rows[a].owner = p => ViewOf(rows[a]) \in V
  PROVE  /\ Listed(rows, p, n) \in Seq(V)
         /\ Len(Listed(rows, p, n)) = n
         /\ \A a \in AttemptId : rows[a].owner = p =>
              Listed(rows, p, n)[rows[a].no] = ViewOf(rows[a])
         /\ \A k \in 1..n : \E a \in AttemptId :
              /\ rows[a].owner = p /\ rows[a].no = k
              /\ Listed(rows, p, n)[k] = ViewOf(rows[a])
<1>. DEFINE At(k) == CHOOSE a \in AttemptId : rows[a].owner = p /\ rows[a].no = k
            L == Listed(rows, p, n)
<1>1. n \in Nat
  BY DEF Numbered
<1>2. ASSUME NEW k \in 1..n
      PROVE  At(k) \in AttemptId /\ rows[At(k)].owner = p /\ rows[At(k)].no = k
  BY DEF Numbered
<1>3. ASSUME NEW a \in AttemptId, rows[a].owner = p
      PROVE  rows[a].no \in 1..n /\ At(rows[a].no) = a
  <2>1. rows[a].no \in 1..n
    BY <1>3 DEF Numbered
  <2>2. /\ At(rows[a].no) \in AttemptId /\ rows[At(rows[a].no)].owner = p
        /\ rows[At(rows[a].no)].no = rows[a].no
    BY <1>2, <2>1
  <2>. HIDE DEF At
  <2>. QED BY <1>3, <2>1, <2>2 DEF Numbered
<1>4. L = [k \in 1..n |-> ViewOf(rows[At(k)])]
  BY DEF Listed
<1>. HIDE DEF At, L
<1>5. L \in [1..n -> V]
  BY <1>2, <1>4
<1>6. L \in Seq(V) /\ Len(L) = n
  BY <1>1, <1>5
<1>7. \A a \in AttemptId : rows[a].owner = p => L[rows[a].no] = ViewOf(rows[a])
  BY <1>3, <1>4
<1>8. \A k \in 1..n : \E a \in AttemptId :
        rows[a].owner = p /\ rows[a].no = k /\ L[k] = ViewOf(rows[a])
  BY <1>2, <1>4
<1>. QED BY <1>6, <1>7, <1>8 DEF L

(* What p has in the second table shows what it showed in the first.       *)
LEMMA SameList ==
  ASSUME NEW rows, NEW rows2, NEW p, NEW n,
         Numbered(rows, p, n), Numbered(rows2, p, n),
         \A c \in AttemptId : rows[c].owner = p =>
           /\ rows2[c].owner = p /\ rows2[c].no = rows[c].no
           /\ ViewOf(rows2[c]) = ViewOf(rows[c])
  PROVE  Listed(rows2, p, n) = Listed(rows, p, n)
<1>. DEFINE V == Views(rows) \cup Views(rows2)
<1>0. \A a \in AttemptId : rows[a].owner = p => ViewOf(rows[a]) \in V
  BY DEF Views
<1>1. \A a \in AttemptId : rows2[a].owner = p => ViewOf(rows2[a]) \in V
  BY DEF Views
<1>. HIDE DEF V
<1>2. /\ Listed(rows, p, n) \in Seq(V) /\ Len(Listed(rows, p, n)) = n
      /\ \A k \in 1..n : \E a \in AttemptId :
           /\ rows[a].owner = p /\ rows[a].no = k
           /\ Listed(rows, p, n)[k] = ViewOf(rows[a])
  BY ONLY Numbered(rows, p, n), <1>0, ListedFacts
<1>3. /\ Listed(rows2, p, n) \in Seq(V) /\ Len(Listed(rows2, p, n)) = n
      /\ \A a \in AttemptId : rows2[a].owner = p =>
           Listed(rows2, p, n)[rows2[a].no] = ViewOf(rows2[a])
  BY ONLY Numbered(rows2, p, n), <1>1, ListedFacts
<1>4. \A k \in 1..n : Listed(rows2, p, n)[k] = Listed(rows, p, n)[k]
  BY <1>2, <1>3
<1>. QED BY <1>2, <1>3, <1>4, SeqEqual

(* Only p's last attempt looks different in the second table.              *)
LEMMA LastList ==
  ASSUME NEW rows, NEW rows2, NEW p, NEW n,
         Numbered(rows, p, n), Numbered(rows2, p, n),
         NEW a \in AttemptId, rows[a].owner = p, rows[a].no = n,
         \A c \in AttemptId : rows[c].owner = p =>
           /\ rows2[c].owner = p /\ rows2[c].no = rows[c].no
           /\ c # a => ViewOf(rows2[c]) = ViewOf(rows[c])
  PROVE  Listed(rows2, p, n) = [Listed(rows, p, n) EXCEPT ![n] = ViewOf(rows2[a])]
<1>. DEFINE V == Views(rows) \cup Views(rows2)
            L == Listed(rows, p, n)
            v == ViewOf(rows2[a])
            M == Listed(rows2, p, n)
<1>0. \A c \in AttemptId : rows[c].owner = p => ViewOf(rows[c]) \in V
  BY DEF Views
<1>1. /\ \A c \in AttemptId : rows2[c].owner = p => ViewOf(rows2[c]) \in V
      /\ v \in V
  BY DEF Views
<1>2. n \in Nat /\ n \in 1..n
  BY DEF Numbered
<1>. HIDE DEF V
<1>3. /\ L \in Seq(V) /\ Len(L) = n
      /\ \A k \in 1..n : \E c \in AttemptId :
           rows[c].owner = p /\ rows[c].no = k /\ L[k] = ViewOf(rows[c])
  BY ONLY Numbered(rows, p, n), <1>0, ListedFacts
<1>4. /\ M \in Seq(V) /\ Len(M) = n
      /\ \A c \in AttemptId : rows2[c].owner = p => M[rows2[c].no] = ViewOf(rows2[c])
  BY ONLY Numbered(rows2, p, n), <1>1, ListedFacts
<1>. HIDE DEF L, M
<1>5. /\ [L EXCEPT ![n] = v] \in Seq(V) /\ Len([L EXCEPT ![n] = v]) = n
      /\ \A k \in 1..n : [L EXCEPT ![n] = v][k] = IF k = n THEN v ELSE L[k]
  BY <1>1, <1>2, <1>3, ExceptSeq
<1>6. ASSUME NEW k \in 1..n PROVE M[k] = [L EXCEPT ![n] = v][k]
  <2>1. PICK c \in AttemptId : /\ rows[c].owner = p /\ rows[c].no = k
                               /\ L[k] = ViewOf(rows[c])
    BY <1>3
  <2>2. rows2[c].owner = p /\ rows2[c].no = k /\ M[k] = ViewOf(rows2[c])
    BY <1>4, <2>1
  <2>3. CASE c = a
    BY <1>5, <2>1, <2>2, <2>3
  <2>4. CASE c # a
    <3>1. k # n
      BY <2>1, <2>4 DEF Numbered
    <3>. QED BY <1>5, <2>1, <2>2, <2>4, <3>1
  <2>. QED BY <2>3, <2>4
<1>7. M = [L EXCEPT ![n] = v]
  BY <1>3, <1>4, <1>5, <1>6, SeqEqual
<1>. QED BY <1>7 DEF L, M

(* The second table has one attempt more.                                  *)
LEMMA MoreList ==
  ASSUME NEW rows, NEW rows2, NEW p, NEW n,
         Numbered(rows, p, n), Numbered(rows2, p, n + 1),
         NEW a \in AttemptId, rows2[a].owner = p, rows2[a].no = n + 1,
         \A c \in AttemptId : rows[c].owner = p =>
           /\ rows2[c].owner = p /\ rows2[c].no = rows[c].no
           /\ ViewOf(rows2[c]) = ViewOf(rows[c])
  PROVE  Listed(rows2, p, n + 1) = Append(Listed(rows, p, n), ViewOf(rows2[a]))
<1>. DEFINE V == Views(rows) \cup Views(rows2)
            L == Listed(rows, p, n)
            v == ViewOf(rows2[a])
            M == Listed(rows2, p, n + 1)
<1>0. \A c \in AttemptId : rows[c].owner = p => ViewOf(rows[c]) \in V
  BY DEF Views
<1>1. /\ \A c \in AttemptId : rows2[c].owner = p => ViewOf(rows2[c]) \in V
      /\ v \in V
  BY DEF Views
<1>2. n \in Nat
  BY DEF Numbered
<1>. HIDE DEF V
<1>3. /\ L \in Seq(V) /\ Len(L) = n
      /\ \A k \in 1..n : \E c \in AttemptId :
           rows[c].owner = p /\ rows[c].no = k /\ L[k] = ViewOf(rows[c])
  BY ONLY Numbered(rows, p, n), <1>0, ListedFacts
<1>4. /\ M \in Seq(V) /\ Len(M) = n + 1
      /\ \A c \in AttemptId : rows2[c].owner = p => M[rows2[c].no] = ViewOf(rows2[c])
  BY ONLY Numbered(rows2, p, n + 1), <1>1, ListedFacts
<1>. HIDE DEF L, M
<1>5. /\ Append(L, v) \in Seq(V) /\ Len(Append(L, v)) = n + 1
      /\ \A k \in 1..n : Append(L, v)[k] = L[k]
      /\ Append(L, v)[n + 1] = v
  BY <1>1, <1>3, AppendProperties
<1>6. ASSUME NEW k \in 1..(n + 1) PROVE M[k] = Append(L, v)[k]
  <2>1. CASE k = n + 1
    BY <1>4, <1>5, <2>1
  <2>2. CASE k # n + 1
    <3>1. k \in 1..n
      BY <1>2, <2>2
    <3>2. PICK c \in AttemptId : /\ rows[c].owner = p /\ rows[c].no = k
                                 /\ L[k] = ViewOf(rows[c])
      BY <1>3, <3>1
    <3>. QED BY <1>4, <1>5, <3>1, <3>2
  <2>. QED BY <2>1, <2>2
<1>7. M = Append(L, v)
  BY <1>3, <1>4, <1>5, <1>6, SeqEqual
<1>. QED BY <1>7 DEF L, M

-----------------------------------------------------------------------------
(* The sittings of every participant, and how steps change them.           *)

Sits == [p \in Participant |-> History(p)]

LEMMA HistoryNow ==
  ASSUME IInv, NEW p \in Participant
  PROVE  /\ Numbered(attempt, p, participant[p].count)
         /\ Sits[p] = Listed(attempt, p, participant[p].count)
<1>1. participant[p].count \in Nat
  BY DEF IInv, TypeOK
<1>2. Numbered(attempt, p, participant[p].count)
  BY <1>1 DEF IInv, TablesInv, AttemptsAccounted, Numbered
<1>3. History(p) = Listed(attempt, p, participant[p].count)
  BY DEF History, View, Listed, ViewOf
<1>. QED BY <1>2, <1>3 DEF Sits

LEMMA HistoryThen ==
  ASSUME IInv', NEW p \in Participant
  PROVE  /\ Numbered(attempt', p, participant'[p].count)
         /\ Sits'[p] = Listed(attempt', p, participant'[p].count)
<1>1. participant'[p].count \in Nat
  BY DEF IInv, TypeOK
<1>2. Numbered(attempt', p, participant'[p].count)
  BY <1>1 DEF IInv, TablesInv, AttemptsAccounted, Numbered
<1>3. History(p)' = Listed(attempt', p, participant'[p].count)
  BY DEF History, View, Listed, ViewOf
<1>. QED BY <1>2, <1>3 DEF Sits

(* The last sitting is the latest attempt.                                 *)
LEMMA LatestShown ==
  ASSUME IInv, NEW p \in Participant, NEW a \in AttemptId,
         attempt[a].owner = p, participant[p].latest = a
  PROVE  /\ attempt[a].no = participant[p].count
         /\ Sits[p] # <<>>
         /\ Len(Sits[p]) = participant[p].count
         /\ Sits[p][Len(Sits[p])] = ViewOf(attempt[a])
<1>. DEFINE n == participant[p].count
            V == Views(attempt)
<1>1. /\ Numbered(attempt, p, n) /\ Sits[p] = Listed(attempt, p, n)
  BY HistoryNow
<1>2. n \in Nat /\ n > 0
  <2>1. attempt[a].no \in 1..n /\ n \in Nat
    BY <1>1 DEF Numbered
  <2>. QED BY <2>1
<1>3. attempt[a].no = n
  <2>1. AttemptsAccounted
    BY DEF IInv, TablesInv
  <2>2. n > 0 => attempt[participant[p].latest].no = n
    BY <2>1 DEF AttemptsAccounted
  <2>. QED BY <1>2, <2>2
<1>4. \A c \in AttemptId : attempt[c].owner = p => ViewOf(attempt[c]) \in V
  BY DEF Views
<1>. HIDE DEF V, n
<1>5. /\ Sits[p] \in Seq(V) /\ Len(Sits[p]) = n
      /\ Sits[p][attempt[a].no] = ViewOf(attempt[a])
  <2>1. /\ Listed(attempt, p, n) \in Seq(V) /\ Len(Listed(attempt, p, n)) = n
        /\ \A c \in AttemptId : attempt[c].owner = p =>
             Listed(attempt, p, n)[attempt[c].no] = ViewOf(attempt[c])
    BY ONLY <1>1, <1>4, ListedFacts
  <2>. QED BY <1>1, <2>1
<1>6. Sits[p] # <<>>
  BY <1>2, <1>5, EmptySeq
<1>. QED BY <1>3, <1>5, <1>6 DEF n

(* Rows keep whose they are and which number they have.                    *)
Placed(rows) ==
  \A c \in AttemptId : /\ rows[c].owner = attempt[c].owner
                       /\ rows[c].no = attempt[c].no

LEMMA NothingShown ==
  ASSUME IInv, IInv', UNCHANGED participant, Placed(attempt'),
         \A c \in AttemptId : ViewOf(attempt'[c]) = ViewOf(attempt[c])
  PROVE  Sits' = Sits
<1>1. ASSUME NEW p \in Participant PROVE Sits'[p] = Sits[p]
  <2>1. /\ Numbered(attempt, p, participant[p].count)
        /\ Sits[p] = Listed(attempt, p, participant[p].count)
    BY HistoryNow
  <2>2. /\ Numbered(attempt', p, participant[p].count)
        /\ Sits'[p] = Listed(attempt', p, participant[p].count)
    BY HistoryThen
  <2>3. Listed(attempt', p, participant[p].count)
          = Listed(attempt, p, participant[p].count)
    BY <2>1, <2>2, SameList DEF Placed
  <2>. QED BY <2>1, <2>2, <2>3
<1>. QED BY <1>1 DEF Sits

LEMMA OthersShown ==
  ASSUME IInv, IInv', NEW p \in Participant, NEW q \in Participant, q # p,
         participant'[q] = participant[q],
         \A c \in AttemptId : attempt[c].owner = q =>
           /\ attempt'[c].owner = q /\ attempt'[c].no = attempt[c].no
           /\ ViewOf(attempt'[c]) = ViewOf(attempt[c])
  PROVE  Sits'[q] = Sits[q]
<1>1. /\ Numbered(attempt, q, participant[q].count)
      /\ Sits[q] = Listed(attempt, q, participant[q].count)
  BY HistoryNow
<1>2. /\ Numbered(attempt', q, participant[q].count)
      /\ Sits'[q] = Listed(attempt', q, participant[q].count)
  BY HistoryThen
<1>3. Listed(attempt', q, participant[q].count)
        = Listed(attempt, q, participant[q].count)
  BY <1>1, <1>2, SameList
<1>. QED BY <1>1, <1>2, <1>3

(* A change of one latest attempt is a change of one last sitting.         *)
LEMMA LastShown ==
  ASSUME IInv, IInv', NEW p \in Participant, NEW a \in AttemptId,
         attempt[a].owner = p, participant[p].latest = a,
         UNCHANGED participant, Placed(attempt'),
         \A c \in AttemptId : c # a => attempt'[c] = attempt[c]
  PROVE  Sits' = [Sits EXCEPT ![p] =
                    [Sits[p] EXCEPT ![Len(Sits[p])] = ViewOf(attempt'[a])]]
<1>. DEFINE n == participant[p].count
<1>1. attempt[a].no = n /\ Len(Sits[p]) = n
  BY LatestShown
<1>2. Numbered(attempt, p, n) /\ Sits[p] = Listed(attempt, p, n)
  BY HistoryNow
<1>3. Numbered(attempt', p, n) /\ Sits'[p] = Listed(attempt', p, n)
  BY HistoryThen
<1>. HIDE DEF n
<1>4. Listed(attempt', p, n) = [Listed(attempt, p, n) EXCEPT ![n] = ViewOf(attempt'[a])]
  BY <1>1, <1>2, <1>3, LastList DEF Placed
<1>5. ASSUME NEW q \in Participant, q # p PROVE Sits'[q] = Sits[q]
  BY <1>5, OthersShown DEF Placed
<1>. QED BY <1>1, <1>2, <1>3, <1>4, <1>5 DEF Sits

(* Row a is p's next attempt, on top of rows.                              *)
Adds(rows, p, a, row) ==
  /\ attempt[a].owner = None
  /\ \A c \in AttemptId : attempt[c].owner # p => ViewOf(rows[c]) = ViewOf(attempt[c])
  /\ attempt'[a] = row
  /\ \A c \in AttemptId : c # a => attempt'[c] = rows[c]
  /\ row.owner = p
  /\ row.no = participant[p].count + 1
  /\ participant' = [participant EXCEPT
                       ![p] = [count |-> participant[p].count + 1, latest |-> a]]

(* A new attempt on top of rows is one sitting more.                       *)
LEMMA MoreShown ==
  ASSUME IInv, IInv', NEW p \in Participant, NEW a \in AttemptId,
         NEW rows, NEW row, Placed(rows), Adds(rows, p, a, row)
  PROVE  Sits' = [Sits EXCEPT ![p] =
                    Append(Listed(rows, p, participant[p].count), ViewOf(row))]
<1>. DEFINE n == participant[p].count
<1>. USE DEF Adds
<1>0. /\ None \notin Participant
      /\ participant'[p].count = n + 1
      /\ \A q \in Participant : q # p => participant'[q] = participant[q]
  BY NoneAssumption DEF IInv, TypeOK
<1>1. Numbered(attempt, p, n)
  BY HistoryNow
<1>2. Numbered(attempt', p, n + 1) /\ Sits'[p] = Listed(attempt', p, n + 1)
  BY <1>0, HistoryThen
<1>. HIDE DEF n
<1>3. Numbered(rows, p, n)
  BY <1>1 DEF Numbered, Placed
<1>4. Listed(attempt', p, n + 1) = Append(Listed(rows, p, n), ViewOf(attempt'[a]))
  <2>1. attempt'[a].owner = p /\ attempt'[a].no = n + 1
    BY DEF n
  <2>2. \A c \in AttemptId : rows[c].owner = p =>
          /\ attempt'[c].owner = p /\ attempt'[c].no = rows[c].no
          /\ ViewOf(attempt'[c]) = ViewOf(rows[c])
    BY <1>0 DEF Placed
  <2>. QED BY <1>2, <1>3, <2>1, <2>2, MoreList
<1>5. ASSUME NEW q \in Participant, q # p PROVE Sits'[q] = Sits[q]
  <2>1. \A c \in AttemptId : attempt[c].owner = q =>
          /\ attempt'[c].owner = q /\ attempt'[c].no = attempt[c].no
          /\ ViewOf(attempt'[c]) = ViewOf(attempt[c])
    BY <1>0, <1>5 DEF Placed
  <2>. QED BY <1>0, <1>5, <2>1, OthersShown
<1>. QED BY <1>2, <1>4, <1>5 DEF Sits, n

-----------------------------------------------------------------------------
(* The actions of Sittings, said of Sits.                                  *)

LastSit(p) == Sits[p][Len(Sits[p])]

OpenSit(p) == Sits[p] # <<>> /\ LastSit(p).status = "in_progress"

Replaced(p, s) == [Sits[p] EXCEPT ![Len(Sits[p])] = s]

FreshSit(d, now) ==
  [status |-> "in_progress", device |-> d, generation |-> 0,
   due |-> Earlier(now + Duration, EndsAt)]

LEMMA BeginForm ==
  ASSUME NEW p \in Participant, ~OpenSit(p), Len(Sits[p]) < MaxAttempts,
         NEW d \in Device \cup {None}, NEW now \in StartsAt..clock,
         Sits' = [Sits EXCEPT ![p] = Append(Sits[p], FreshSit(d, now))],
         UNCHANGED clock
  PROVE  Abstract!Begin(p)
BY DEF Abstract!Begin, Abstract!IsOpen, Abstract!Last, Abstract!Fresh,
       OpenSit, LastSit, FreshSit, Earlier, Sits

LEMMA FollowForm ==
  ASSUME NEW p \in Participant, OpenSit(p), LastSit(p).due < clock,
         Len(Sits[p]) < MaxAttempts,
         NEW b \in Device \cup {None}, NEW d \in Device \cup {None},
         NEW now \in StartsAt..clock, LastSit(p).device \in {None, b},
         Sits' = [Sits EXCEPT ![p] =
           Append(Replaced(p, [LastSit(p) EXCEPT !.status = "auto_submitted",
                                                 !.device = b]),
                  FreshSit(d, now))],
         UNCHANGED clock
  PROVE  Abstract!Follow(p)
BY DEF Abstract!Follow, Abstract!IsOpen, Abstract!Expired, Abstract!Last,
       Abstract!WithLast, Abstract!Fresh, OpenSit, LastSit, Replaced, FreshSit,
       Earlier, Sits

LEMMA BindForm ==
  ASSUME NEW p \in Participant, OpenSit(p), LastSit(p).device = None,
         NEW d \in Device,
         Sits' = [Sits EXCEPT ![p] =
                    Replaced(p, [LastSit(p) EXCEPT !.device = d])],
         UNCHANGED clock
  PROVE  Abstract!Bind(p, d)
BY DEF Abstract!Bind, Abstract!IsOpen, Abstract!Last, Abstract!WithLast,
       OpenSit, LastSit, Replaced, Sits

LEMMA CloseForm ==
  ASSUME NEW p \in Participant, OpenSit(p), NEW how \in Finished,
         how = "auto_submitted" => LastSit(p).due < clock,
         Sits' = [Sits EXCEPT ![p] =
                    Replaced(p, [LastSit(p) EXCEPT !.status = how])],
         UNCHANGED clock
  PROVE  Abstract!Close(p, how)
BY DEF Abstract!Close, Abstract!IsOpen, Abstract!Expired, Abstract!Last,
       Abstract!WithLast, OpenSit, LastSit, Replaced, Sits

LEMMA ReopenForm ==
  ASSUME NEW p \in Participant, Sits[p] # <<>>, LastSit(p).status \in Finished,
         clock < LastSit(p).due,
         Sits' = [Sits EXCEPT ![p] =
                    Replaced(p, [LastSit(p) EXCEPT !.status = "in_progress",
                                                   !.generation = @ + 1])],
         UNCHANGED clock
  PROVE  Abstract!Reopen(p)
BY DEF Abstract!Reopen, Abstract!Last, Abstract!Over, Abstract!WithLast,
       LastSit, Replaced, Finished, Sits

(* A step of the abstract specification, or none.                          *)
SitStep == Abstract!Next \/ (Sits' = Sits /\ clock' = clock)

LEMMA ParticipantStep ==
  ASSUME NEW p \in Participant,
         \/ Abstract!Begin(p) \/ Abstract!Follow(p) \/ Abstract!Reopen(p)
         \/ \E d \in Device : Abstract!Bind(p, d)
         \/ \E how \in Finished : Abstract!Close(p, how)
  PROVE  SitStep
BY DEF SitStep, Abstract!Next, Abstract!Over, Finished

-----------------------------------------------------------------------------
(* The steps of AttemptLifecycle.                                          *)

(* A start goes on with the time it was let in at.                         *)
Starting == {"start_lookup", "start_bind", "start_finalize", "start_tx",
             "start_commit"}

NowOK == \A r \in Request : request[r].pc \in Starting => StartsAt <= request[r].now

Shown == [status: Status, device: Device \cup {None}, generation: Nat, due: Nat]

LEMMA ViewType ==
  ASSUME NEW row \in Row
  PROVE  ViewOf(row) \in Shown
BY DEF Row, ViewOf, Shown

LEMMA FinalizedRow ==
  ASSUME TypeOK, NEW a \in AttemptId, NEW auto \in BOOLEAN
  PROVE  LET how == IF auto THEN "auto_submitted" ELSE "submitted" IN
         /\ attempt[a].status # "in_progress" => Finalized(a, auto) = attempt
         /\ attempt[a].status = "in_progress" =>
              /\ Placed(Finalized(a, auto))
              /\ \A c \in AttemptId : c # a => Finalized(a, auto)[c] = attempt[c]
              /\ ViewOf(Finalized(a, auto)[a])
                   = [ViewOf(attempt[a]) EXCEPT !.status = how]
<1>. DEFINE how == IF auto THEN "auto_submitted" ELSE "submitted"
            sc == Score(a)
            row == [attempt[a] EXCEPT !.status = how, !.score = sc]
<1>1. attempt \in [AttemptId -> Row] /\ attempt[a] \in Row
  BY DEF TypeOK
<1>2. attempt[a].status # "in_progress" => Finalized(a, auto) = attempt
  BY DEF Finalized
<1>3. ASSUME attempt[a].status = "in_progress"
      PROVE  /\ Placed(Finalized(a, auto))
             /\ \A c \in AttemptId : c # a => Finalized(a, auto)[c] = attempt[c]
             /\ ViewOf(Finalized(a, auto)[a])
                  = [ViewOf(attempt[a]) EXCEPT !.status = how]
  <2>1. Finalized(a, auto) = [attempt EXCEPT ![a].status = how, ![a].score = sc]
    BY <1>3 DEF Finalized
  <2>. HIDE DEF how, sc
  <2>2. Finalized(a, auto) = [attempt EXCEPT ![a] = row]
    BY <1>1, <2>1
  <2>3. /\ row.owner = attempt[a].owner /\ row.no = attempt[a].no
        /\ row.device = attempt[a].device /\ row.status = how
        /\ row.generation = attempt[a].generation /\ row.due = attempt[a].due
    BY <1>1 DEF Row
  <2>4. ViewOf(row) = [ViewOf(attempt[a]) EXCEPT !.status = how]
    BY <2>3 DEF ViewOf
  <2>. HIDE DEF row
  <2>. QED BY <1>1, <2>2, <2>3, <2>4 DEF Placed
<1>. QED BY <1>2, <1>3

(* An attempt in progress is its owner's last sitting, and open.           *)
LEMMA ActiveShown ==
  ASSUME IInv, NEW a \in AttemptId, attempt[a].status = "in_progress"
  PROVE  /\ attempt[a].owner \in Participant
         /\ participant[attempt[a].owner].latest = a
         /\ OpenSit(attempt[a].owner)
         /\ LastSit(attempt[a].owner) = ViewOf(attempt[a])
<1>. DEFINE p == attempt[a].owner
<1>1. p \in Participant
  BY DEF IInv, TypeOK, Row, TablesInv, RowsOK
<1>2. participant[p].latest = a
  BY DEF IInv, TablesInv, ActiveIsLatest
<1>3. Sits[p] # <<>> /\ LastSit(p) = ViewOf(attempt[a])
  BY <1>1, <1>2, LatestShown DEF LastSit
<1>. QED BY <1>1, <1>2, <1>3 DEF OpenSit, ViewOf

LEMMA FinalizeShown ==
  ASSUME IInv, IInv', NEW a \in AttemptId, NEW auto \in BOOLEAN,
         auto => attempt[a].due < clock,
         attempt' = Finalized(a, auto), UNCHANGED <<participant, clock>>
  PROVE  SitStep
<1>. DEFINE p == attempt[a].owner
            how == IF auto THEN "auto_submitted" ELSE "submitted"
<1>0. TypeOK
  BY DEF IInv
<1>1. CASE attempt[a].status # "in_progress"
  <2>1. attempt' = attempt
    BY <1>0, <1>1, FinalizedRow
  <2>2. Sits' = Sits
    BY <2>1, NothingShown DEF Placed
  <2>. QED BY <2>2 DEF SitStep
<1>2. CASE attempt[a].status = "in_progress"
  <2>1. /\ p \in Participant /\ participant[p].latest = a
        /\ OpenSit(p) /\ LastSit(p) = ViewOf(attempt[a])
    BY <1>2, ActiveShown
  <2>2. /\ Placed(attempt')
        /\ \A c \in AttemptId : c # a => attempt'[c] = attempt[c]
        /\ ViewOf(attempt'[a]) = [ViewOf(attempt[a]) EXCEPT !.status = how]
    BY <1>0, <1>2, FinalizedRow
  <2>3. how \in Finished /\ (how = "auto_submitted" => LastSit(p).due < clock)
    BY <2>1 DEF Finished, ViewOf
  <2>. HIDE DEF p, how
  <2>4. attempt[a].owner = p
    BY DEF p
  <2>5. Sits' = [Sits EXCEPT ![p] =
                   Replaced(p, [LastSit(p) EXCEPT !.status = how])]
    <3>1. Sits' = [Sits EXCEPT ![p] = Replaced(p, ViewOf(attempt'[a]))]
      BY <2>1, <2>2, <2>4, LastShown DEF Replaced
    <3>. QED BY <2>1, <2>2, <3>1
  <2>6. Abstract!Close(p, how)
    BY <2>1, <2>3, <2>5, CloseForm
  <2>. QED BY <2>1, <2>3, <2>6, ParticipantStep
<1>. QED BY <1>1, <1>2

LEMMA BoundRow ==
  ASSUME TypeOK, NEW a \in AttemptId, NEW d \in Device \cup {None}
  PROVE  LET rows == [attempt EXCEPT ![a].device = d] IN
         /\ Placed(rows)
         /\ \A c \in AttemptId : c # a => rows[c] = attempt[c]
         /\ ViewOf(rows[a]) = [ViewOf(attempt[a]) EXCEPT !.device = d]
<1>. DEFINE rows == [attempt EXCEPT ![a].device = d]
            row == [attempt[a] EXCEPT !.device = d]
<1>1. attempt \in [AttemptId -> Row] /\ attempt[a] \in Row
  BY DEF TypeOK
<1>2. rows = [attempt EXCEPT ![a] = row]
  BY <1>1
<1>3. /\ row.owner = attempt[a].owner /\ row.no = attempt[a].no
      /\ row.device = d /\ row.status = attempt[a].status
      /\ row.generation = attempt[a].generation /\ row.due = attempt[a].due
  BY <1>1 DEF Row
<1>4. ViewOf(row) = [ViewOf(attempt[a]) EXCEPT !.device = d]
  BY <1>3 DEF ViewOf
<1>. HIDE DEF row
<1>. QED BY <1>1, <1>2, <1>3, <1>4 DEF Placed

(* Handing out a row: it is bound now, was bound already, or stays free.   *)
LEMMA BindShown ==
  ASSUME IInv, IInv', NEW a \in AttemptId, NEW d \in Device \cup {None},
         \/ attempt[a].device = d
         \/ attempt[a].status = "in_progress" /\ attempt[a].device = None,
         attempt' = [attempt EXCEPT ![a].device = d],
         UNCHANGED <<participant, clock>>
  PROVE  SitStep
<1>. DEFINE p == attempt[a].owner
<1>0. TypeOK /\ attempt[a] \in Row
  BY DEF IInv, TypeOK
<1>1. CASE attempt[a].device = d
  <2>1. attempt' = attempt
    BY <1>0, <1>1 DEF TypeOK, Row
  <2>2. Sits' = Sits
    BY <2>1, NothingShown DEF Placed
  <2>. QED BY <2>2 DEF SitStep
<1>2. CASE /\ attempt[a].status = "in_progress" /\ attempt[a].device = None
           /\ d \in Device
  <2>1. /\ p \in Participant /\ participant[p].latest = a
        /\ OpenSit(p) /\ LastSit(p) = ViewOf(attempt[a])
    BY <1>2, ActiveShown
  <2>2. /\ Placed(attempt')
        /\ \A c \in AttemptId : c # a => attempt'[c] = attempt[c]
        /\ ViewOf(attempt'[a]) = [ViewOf(attempt[a]) EXCEPT !.device = d]
    BY <1>0, BoundRow
  <2>3. LastSit(p).device = None
    BY <1>2, <2>1 DEF ViewOf
  <2>. HIDE DEF p
  <2>4. attempt[a].owner = p
    BY DEF p
  <2>5. Sits' = [Sits EXCEPT ![p] = Replaced(p, [LastSit(p) EXCEPT !.device = d])]
    <3>1. Sits' = [Sits EXCEPT ![p] = Replaced(p, ViewOf(attempt'[a]))]
      BY <2>1, <2>2, <2>4, LastShown DEF Replaced
    <3>. QED BY <2>1, <2>2, <3>1
  <2>6. Abstract!Bind(p, d)
    BY <1>2, <2>1, <2>3, <2>5, BindForm
  <2>. QED BY <1>2, <2>1, <2>6, ParticipantStep
<1>. QED BY <1>1, <1>2

LEMMA ResetShown ==
  ASSUME IInv, IInv', NEW a \in AttemptId, Reset(a)
  PROVE  SitStep
<1>. DEFINE p == attempt[a].owner
            g == attempt[a].generation + 1
            row == [attempt[a] EXCEPT !.status = "in_progress",
                                      !.score = NoScore, !.generation = g]
<1>1. attempt \in [AttemptId -> Row] /\ attempt[a] \in Row
  BY DEF IInv, TypeOK
<1>2. /\ attempt[a].status \in Finished /\ participant[p].latest = a
      /\ clock < attempt[a].due /\ UNCHANGED <<clock, participant>>
  BY DEF Reset
<1>3. p \in Participant
  BY <1>1, <1>2 DEF IInv, TablesInv, RowsOK, Finished, Row
<1>4. attempt' = [attempt EXCEPT ![a] = row]
  BY <1>1 DEF Reset
<1>5. /\ row.owner = attempt[a].owner /\ row.no = attempt[a].no
      /\ row.device = attempt[a].device /\ row.status = "in_progress"
      /\ row.generation = g /\ row.due = attempt[a].due
  BY <1>1 DEF Row
<1>. HIDE DEF row
<1>6. ViewOf(row) = [ViewOf(attempt[a]) EXCEPT !.status = "in_progress",
                                               !.generation = @ + 1]
  <2>1. ViewOf(attempt[a]).generation + 1 = g
    BY DEF ViewOf
  <2>. HIDE DEF g
  <2>. DEFINE w == ViewOf(attempt[a])
              v == [w EXCEPT !.status = "in_progress", !.generation = g]
  <2>2. w \in Shown /\ "in_progress" \in Status /\ g \in Nat
    BY <1>1, ViewType DEF g, Row, Status
  <2>3. /\ v \in Shown /\ v.status = "in_progress" /\ v.device = w.device
        /\ v.generation = g /\ v.due = w.due
    BY <2>2 DEF Shown
  <2>4. w.device = attempt[a].device /\ w.due = attempt[a].due
    BY DEF ViewOf
  <2>. HIDE DEF w, v
  <2>5. v = ViewOf(row)
    BY <1>5, <2>3, <2>4 DEF Shown, ViewOf
  <2>. QED BY <2>1, <2>5 DEF v, w
<1>. HIDE DEF g
<1>7. /\ Placed(attempt') /\ attempt'[a] = row
      /\ \A c \in AttemptId : c # a => attempt'[c] = attempt[c]
  BY <1>1, <1>4, <1>5 DEF Placed
<1>8. Sits[p] # <<>> /\ LastSit(p) = ViewOf(attempt[a])
  BY <1>2, <1>3, LatestShown DEF LastSit
<1>9. LastSit(p).status \in Finished /\ clock < LastSit(p).due
  BY <1>2, <1>8 DEF ViewOf
<1>. HIDE DEF p
<1>10. attempt[a].owner = p
  BY DEF p
<1>11. Sits' = [Sits EXCEPT ![p] =
                  Replaced(p, [LastSit(p) EXCEPT !.status = "in_progress",
                                                 !.generation = @ + 1])]
  <2>1. Sits' = [Sits EXCEPT ![p] = Replaced(p, ViewOf(attempt'[a]))]
    BY <1>2, <1>3, <1>7, <1>10, LastShown DEF Replaced
  <2>. QED BY <1>6, <1>7, <1>8, <2>1
<1>12. Abstract!Reopen(p)
  BY <1>2, <1>3, <1>8, <1>9, <1>11, ReopenForm
<1>. QED BY <1>3, <1>12, ParticipantStep

-----------------------------------------------------------------------------
(* The commits of startAttempt.                                            *)

LEMMA LengthShown ==
  ASSUME IInv, NEW p \in Participant
  PROVE  Len(Sits[p]) = participant[p].count
<1>. DEFINE n == participant[p].count
            V == Views(attempt)
<1>1. Numbered(attempt, p, n) /\ Sits[p] = Listed(attempt, p, n)
  BY HistoryNow
<1>2. \A a \in AttemptId : attempt[a].owner = p => ViewOf(attempt[a]) \in V
  BY DEF Views
<1>. HIDE DEF n, V
<1>3. Len(Listed(attempt, p, n)) = n
  BY ONLY <1>1, <1>2, ListedFacts
<1>. QED BY <1>1, <1>3 DEF n

LEMMA NoneOpen ==
  ASSUME IInv, NEW p \in Participant, ActiveOf(p) = {}
  PROVE  ~OpenSit(p)
<1>. DEFINE n == participant[p].count
            a == participant[p].latest
<1>1. n \in Nat /\ Len(Sits[p]) = n
  BY LengthShown DEF IInv, TypeOK
<1>2. CASE n = 0
  <2>1. /\ Numbered(attempt, p, n) /\ Sits[p] = Listed(attempt, p, n)
    BY HistoryNow
  <2>2. Sits[p] = [k \in 1..0 |->
          ViewOf(attempt[CHOOSE c \in AttemptId : attempt[c].owner = p /\ attempt[c].no = k])]
    BY <1>2, <2>1 DEF Listed
  <2>3. \A a1 \in AttemptId : attempt[a1].owner = p => ViewOf(attempt[a1]) \in Views(attempt)
    BY DEF Views
  <2>4. Sits[p] \in Seq(Views(attempt)) /\ Len(Sits[p]) = 0
    BY <1>1, <1>2, <2>1, <2>3, ListedFacts
  <2>5. Sits[p] = <<>>
    BY <2>4, EmptySeq, SeqEqual
  <2>. QED BY <2>5 DEF OpenSit
<1>3. CASE n > 0
  <2>1. a \in AttemptId /\ attempt[a].owner = p
    BY <1>3 DEF IInv, TablesInv, AttemptsAccounted
  <2>2. attempt[a].status # "in_progress"
    BY <2>1 DEF ActiveOf
  <2>3. LastSit(p) = ViewOf(attempt[a])
    BY <2>1, LatestShown DEF LastSit
  <2>. QED BY <2>2, <2>3 DEF OpenSit, ViewOf
<1>. QED BY <1>1, <1>2, <1>3

LEMMA CreateShown ==
  ASSUME IInv, IInv', NEW r \in Request, EndStart(r), NEW rows,
         rows \in [AttemptId -> Row], Placed(rows), CreateAttempt(r, rows),
         \A c \in AttemptId : /\ rows[c].status = "none" => attempt[c].status = "none"
                              /\ attempt[c].owner # request[r].who =>
                                   ViewOf(rows[c]) = ViewOf(attempt[c])
  PROVE  LET p == request[r].who IN
         \/ UNCHANGED <<attempt, participant>>
         \/ /\ participant[p].count < MaxAttempts
            /\ Sits' = [Sits EXCEPT ![p] =
                 Append(Listed(rows, p, participant[p].count),
                        FreshSit(request[r].device, request[r].now))]
<1>. DEFINE p == request[r].who
            d == request[r].device
            n == participant[p].count + 1
            due == Earlier(request[r].now + Duration, EndsAt)
            row == [owner |-> p, no |-> n, status |-> "in_progress",
                    device |-> d, due |-> due, generation |-> 0,
                    score |-> NoScore]
<1>1. p \in Participant
  BY EndStartFacts
<1>2. \/ UNCHANGED <<attempt, participant, granted>>
      \/ /\ participant[p].count < MaxAttempts
         /\ \E a \in AttemptId :
              /\ rows[a].status = "none"
              /\ attempt' = [rows EXCEPT ![a] = row]
              /\ participant' = [participant EXCEPT
                                   ![p] = [count |-> n, latest |-> a]]
  BY DEF CreateAttempt
<1>3. ViewOf(row) = FreshSit(d, request[r].now)
  BY DEF ViewOf, FreshSit
<1>4. row.owner = p /\ row.no = n
  OBVIOUS
<1>. HIDE DEF row
<1>5. ASSUME NEW a \in AttemptId, rows[a].status = "none",
             attempt' = [rows EXCEPT ![a] = row],
             participant' = [participant EXCEPT ![p] = [count |-> n, latest |-> a]]
      PROVE  Sits' = [Sits EXCEPT ![p] =
               Append(Listed(rows, p, participant[p].count), ViewOf(row))]
  <2>1. attempt[a].owner = None
    BY <1>5 DEF IInv, TablesInv, RowsOK
  <2>2. attempt'[a] = row /\ \A c \in AttemptId : c # a => attempt'[c] = rows[c]
    BY <1>5
  <2>3. Adds(rows, p, a, row)
    BY <1>4, <1>5, <2>1, <2>2 DEF Adds
  <2>. HIDE DEF p
  <2>. QED BY ONLY IInv, IInv', Placed(rows), <1>1, <2>3, MoreShown
<1>. QED BY <1>2, <1>3, <1>5

LEMMA CommitNewShown ==
  ASSUME IInv, IInv', NowOK, NEW r \in Request, CommitNew(r)
  PROVE  SitStep
<1>. DEFINE p == request[r].who
            d == request[r].device
            now == request[r].now
<1>1. EndStart(r) /\ request[r].target = None /\ CreateAttempt(r, attempt)
  BY DEF CommitNew
<1>2. /\ p \in Participant /\ d \in Device \cup {None}
      /\ now \in Nat /\ now <= clock /\ SnapshotOK(r)
      /\ request[r].pc = "start_commit" /\ clock' = clock
  BY <1>1, EndStartFacts
<1>3. now \in StartsAt..clock
  BY <1>2, NumbersAssumption DEF NowOK, Starting, IInv, TypeOK
<1>4. ~OpenSit(p)
  BY <1>1, <1>2, NoneOpen DEF SnapshotOK
<1>5. /\ Numbered(attempt, p, participant[p].count)
      /\ Sits[p] = Listed(attempt, p, participant[p].count)
      /\ Len(Sits[p]) = participant[p].count
  BY <1>2, HistoryNow, LengthShown
<1>6. \/ UNCHANGED <<attempt, participant>>
      \/ /\ participant[p].count < MaxAttempts
         /\ Sits' = [Sits EXCEPT ![p] =
              Append(Listed(attempt, p, participant[p].count), FreshSit(d, now))]
  BY <1>1, CreateShown DEF IInv, TypeOK, Placed
<1>7. CASE UNCHANGED <<attempt, participant>>
  BY <1>2, <1>7, NothingShown DEF Placed, SitStep
<1>8. CASE ~UNCHANGED <<attempt, participant>>
  <2>. HIDE DEF p, d, now
  <2>1. Sits' = [Sits EXCEPT ![p] = Append(Sits[p], FreshSit(d, now))]
    BY <1>5, <1>6, <1>8
  <2>2. Abstract!Begin(p)
    BY <1>2, <1>3, <1>4, <1>5, <1>6, <1>8, <2>1, BeginForm
  <2>. QED BY <1>2, <2>2, ParticipantStep
<1>. QED BY <1>7, <1>8

(* The table in which a's expired row is closed on device b, with score sc. *)
ClosedOn(a, b, sc) ==
  [Finalized(a, TRUE) EXCEPT ![a].device = b, ![a].score = sc]

(* Table rows is the attempts with a's row shown as expired on device b.   *)
ClosesRow(a, b, rows) ==
  /\ rows \in [AttemptId -> Row]
  /\ Placed(rows)
  /\ \A c \in AttemptId : c # a => rows[c] = attempt[c]
  /\ rows[a].status = "auto_submitted"
  /\ ViewOf(rows[a]) = [ViewOf(attempt[a]) EXCEPT !.status = "auto_submitted",
                                                  !.device = b]

LEMMA ClosedRow ==
  ASSUME TypeOK, NEW a \in AttemptId, attempt[a].status = "in_progress",
         NEW b \in Device \cup {None}, NEW sc \in Scores
  PROVE  ClosesRow(a, b, ClosedOn(a, b, sc))
<1>. DEFINE total == Score(a)
            row == [attempt[a] EXCEPT !.status = "auto_submitted", !.score = total]
            row2 == [row EXCEPT !.device = b, !.score = sc]
            rows == ClosedOn(a, b, sc)
<1>1. attempt \in [AttemptId -> Row] /\ attempt[a] \in Row
  BY DEF TypeOK
<1>2. total \in Scores
  BY ScoreType
<1>3. Finalized(a, TRUE) = [attempt EXCEPT ![a].status = "auto_submitted",
                                           ![a].score = total]
  BY DEF Finalized
<1>. HIDE DEF total
<1>4. Finalized(a, TRUE) = [attempt EXCEPT ![a] = row]
  BY <1>1, <1>3
<1>5. /\ row \in Row /\ row.status = "auto_submitted"
      /\ row.owner = attempt[a].owner /\ row.no = attempt[a].no
      /\ row.device = attempt[a].device
      /\ row.generation = attempt[a].generation /\ row.due = attempt[a].due
  BY <1>1, <1>2 DEF Row, Status
<1>. HIDE DEF row
<1>6. rows = [attempt EXCEPT ![a] = row2]
  BY <1>1, <1>4 DEF ClosedOn
<1>7. /\ row2 \in Row /\ row2.status = "auto_submitted"
      /\ row2.owner = attempt[a].owner /\ row2.no = attempt[a].no
      /\ row2.device = b
      /\ row2.generation = attempt[a].generation /\ row2.due = attempt[a].due
  BY <1>5 DEF Row
<1>. HIDE DEF row2, rows
<1>8. ViewOf(row2) = [ViewOf(attempt[a]) EXCEPT !.status = "auto_submitted",
                                                !.device = b]
  <2>. DEFINE w == ViewOf(attempt[a])
              v == [w EXCEPT !.status = "auto_submitted", !.device = b]
  <2>1. w \in Shown /\ "auto_submitted" \in Status
    BY <1>1, ViewType DEF Status
  <2>2. /\ v \in Shown /\ v.status = "auto_submitted" /\ v.device = b
        /\ v.generation = w.generation /\ v.due = w.due
    BY <2>1 DEF Shown
  <2>3. w.generation = attempt[a].generation /\ w.due = attempt[a].due
    BY DEF ViewOf
  <2>. HIDE DEF w, v
  <2>4. v = ViewOf(row2)
    BY <1>7, <2>2, <2>3 DEF Shown, ViewOf
  <2>. QED BY <2>4 DEF v, w
<1>9. ClosesRow(a, b, rows)
  BY <1>1, <1>6, <1>7, <1>8 DEF ClosesRow, Placed
<1>. QED BY <1>9 DEF rows

LEMMA CommitExpiredShown ==
  ASSUME IInv, IInv', NowOK, NEW r \in Request, CommitExpired(r)
  PROVE  SitStep
<1>. DEFINE p == request[r].who
            d == request[r].device
            now == request[r].now
            a == request[r].target
            b == DeviceAfter(r)
            n == participant[p].count
            sc == request[r].seen
            rows == ClosedOn(a, b, sc)
<1>1. /\ EndStart(r) /\ a # None /\ ~Refused(r) /\ MustFinalize(r)
      /\ CreateAttempt(r, rows)
  BY DEF CommitExpired, ClosedOn
<1>2. /\ TypeOK /\ p \in Participant /\ d \in Device \cup {None}
      /\ now \in Nat /\ now <= clock /\ request[r].pc = "start_commit"
      /\ clock' = clock /\ sc \in Scores
  BY <1>1, EndStartFacts DEF TypeOK, Local
<1>3. now \in StartsAt..clock
  BY <1>2, NumbersAssumption DEF NowOK, Starting, TypeOK
<1>4. /\ a \in AttemptId /\ attempt[a].owner = p
      /\ participant[p].latest = a /\ b \in Device \cup {None}
      /\ attempt[a].device # None => b = attempt[a].device
  BY <1>1, DeviceAfterFacts
<1>5. attempt[a].status = "in_progress" /\ attempt[a].due < now
  BY <1>1, <1>2, <1>4 DEF MustFinalize, TypeOK, Row
<1>6. /\ rows \in [AttemptId -> Row] /\ Placed(rows)
      /\ \A c \in AttemptId : c # a => rows[c] = attempt[c]
      /\ rows[a].status = "auto_submitted"
      /\ ViewOf(rows[a]) = [ViewOf(attempt[a]) EXCEPT !.status = "auto_submitted",
                                                      !.device = b]
  <2>1. /\ TypeOK /\ a \in AttemptId /\ attempt[a].status = "in_progress"
        /\ b \in Device \cup {None} /\ sc \in Scores
    BY <1>2, <1>4, <1>5
  <2>. HIDE DEF a, b, sc
  <2>2. ClosesRow(a, b, rows)
    BY <2>1, ClosedRow
  <2>. HIDE DEF rows
  <2>. QED BY <2>2 DEF ClosesRow
<1>7. /\ attempt[a].no = n /\ Len(Sits[p]) = n
      /\ OpenSit(p) /\ LastSit(p) = ViewOf(attempt[a])
  BY <1>2, <1>4, <1>5, LatestShown, ActiveShown
<1>8. LastSit(p).due < clock /\ LastSit(p).device \in {None, b}
  <2>1. LastSit(p).due = attempt[a].due /\ LastSit(p).device = attempt[a].device
    BY <1>7 DEF ViewOf
  <2>2. attempt[a].due \in Nat /\ clock \in Nat
    BY <1>2, <1>4 DEF TypeOK, Row
  <2>. QED BY <1>2, <1>4, <1>5, <2>1, <2>2
<1>. HIDE DEF rows, b, sc
<1>9. \/ UNCHANGED <<attempt, participant>>
      \/ /\ n < MaxAttempts
         /\ Sits' = [Sits EXCEPT ![p] =
              Append(Listed(rows, p, n), FreshSit(d, now))]
  <2>1. \A c \in AttemptId : /\ rows[c].status = "none" => attempt[c].status = "none"
                             /\ attempt[c].owner # p => ViewOf(rows[c]) = ViewOf(attempt[c])
    BY <1>4, <1>6
  <2>. QED BY <1>1, <1>6, <2>1, CreateShown
<1>10. Listed(rows, p, n)
         = Replaced(p, [LastSit(p) EXCEPT !.status = "auto_submitted", !.device = b])
  <2>1. Numbered(attempt, p, n) /\ Sits[p] = Listed(attempt, p, n)
    BY <1>2, HistoryNow
  <2>2. Numbered(rows, p, n)
    BY <1>6, <2>1 DEF Numbered, Placed
  <2>. HIDE DEF p, n, a
  <2>3. Listed(rows, p, n) = [Listed(attempt, p, n) EXCEPT ![n] = ViewOf(rows[a])]
    BY <1>4, <1>6, <1>7, <2>1, <2>2, LastList DEF Placed
  <2>. QED BY <1>6, <1>7, <2>1, <2>3 DEF Replaced
<1>11. CASE UNCHANGED <<attempt, participant>>
  BY <1>2, <1>11, NothingShown DEF Placed, SitStep
<1>12. CASE ~UNCHANGED <<attempt, participant>>
  <2>1. Sits' = [Sits EXCEPT ![p] =
          Append(Replaced(p, [LastSit(p) EXCEPT !.status = "auto_submitted",
                                                !.device = b]),
                 FreshSit(d, now))]
    BY <1>9, <1>10, <1>12
  <2>2. Len(Sits[p]) < MaxAttempts
    BY <1>7, <1>9, <1>12
  <2>. HIDE DEF p, d, now
  <2>3. Abstract!Follow(p)
    BY <1>2, <1>3, <1>4, <1>7, <1>8, <2>1, <2>2, FollowForm
  <2>. QED BY <1>2, <2>3, ParticipantStep
<1>. QED BY <1>11, <1>12

LEMMA CommitActiveShown ==
  ASSUME IInv, IInv', NEW r \in Request, CommitActive(r)
  PROVE  SitStep
<1>. DEFINE a == request[r].target
            b == DeviceAfter(r)
<1>1. /\ EndStart(r) /\ a # None /\ ~Refused(r)
      /\ attempt' = [attempt EXCEPT ![a].device = b] /\ UNCHANGED participant
  BY DEF CommitActive
<1>2. a \in AttemptId /\ b \in Device \cup {None}
  BY <1>1, DeviceAfterFacts
<1>3. \/ attempt[a].device = b
      \/ attempt[a].status = "in_progress" /\ attempt[a].device = None
  BY <1>1 DEF DeviceAfter, Refused
<1>4. clock' = clock
  BY <1>1, EndStartFacts
<1>. HIDE DEF a, b
<1>. QED BY <1>1, <1>2, <1>3, <1>4, BindShown

LEMMA StartBindShown ==
  ASSUME IInv, IInv', NEW r \in Request, StartBind(r)
  PROVE  SitStep
<1>. DEFINE a == request[r].target
            d == request[r].device
<1>1. /\ request[r].pc = "start_bind" /\ UNCHANGED <<participant, clock>>
      /\ \/ Bindable(a, d) /\ attempt' = [attempt EXCEPT ![a].device = d]
         \/ UNCHANGED attempt
  BY DEF StartBind
<1>2. a \in AttemptId /\ d \in Device \cup {None}
  BY <1>1 DEF IInv, LocalOK, TypeOK, Local
<1>. HIDE DEF a, d
<1>3. CASE UNCHANGED attempt
  BY <1>1, <1>3, NothingShown DEF Placed, SitStep
<1>4. CASE Bindable(a, d) /\ attempt' = [attempt EXCEPT ![a].device = d]
  BY <1>1, <1>2, <1>4, BindShown DEF Bindable
<1>. QED BY <1>1, <1>3, <1>4

LEMMA StartShown ==
  ASSUME IInv, IInv', NowOK, NEW r \in Request, Start(r)
  PROVE  SitStep
<1>1. CASE UNCHANGED <<attempt, participant, clock>>
  BY <1>1, NothingShown DEF Placed, SitStep
<1>2. CASE StartFinalize(r)
  <2>. DEFINE a == request[r].target
  <2>1. /\ request[r].pc = "start_finalize" /\ attempt' = Finalized(a, TRUE)
        /\ UNCHANGED <<participant, clock>>
    BY <1>2 DEF StartFinalize
  <2>2. a \in AttemptId /\ attempt[a].due < request[r].now
        /\ request[r].now <= clock
    BY <2>1 DEF IInv, LocalOK
  <2>3. attempt[a].due \in Nat /\ request[r].now \in Nat /\ clock \in Nat
    BY <2>2 DEF IInv, TypeOK, Row, Local
  <2>4. attempt[a].due < clock
    BY <2>2, <2>3
  <2>. HIDE DEF a
  <2>. QED BY <2>1, <2>2, <2>4, FinalizeShown
<1>3. ASSUME NEW p \in Participant, NEW d \in Device \cup {None}, StartBegin(r, p, d)
      PROVE  UNCHANGED <<attempt, participant, clock>>
  BY <1>3 DEF StartBegin
<1>4. StartLookup(r) => UNCHANGED <<attempt, participant, clock>>
  BY DEF StartLookup
<1>5. StartLock(r) => UNCHANGED <<attempt, participant, clock>>
  BY DEF StartLock
<1>6. CommitRefused(r) => UNCHANGED <<attempt, participant, clock>>
  BY DEF CommitRefused, EndStart
<1>. QED BY <1>1, <1>2, <1>3, <1>4, <1>5, <1>6, StartBindShown, CommitNewShown,
            CommitExpiredShown, CommitActiveShown DEF Start

LEMMA WriteShown ==
  ASSUME IInv, IInv', NEW r \in Request, Write(r)
  PROVE  SitStep
<1>1. CASE UNCHANGED <<attempt, participant, clock>>
  BY <1>1, NothingShown DEF Placed, SitStep
<1>2. CASE SubmitFinalize(r)
  <2>. DEFINE a == request[r].target
  <2>1. /\ request[r].pc = "submit" /\ attempt' = Finalized(a, FALSE)
        /\ UNCHANGED <<participant, clock>>
    BY <1>2 DEF SubmitFinalize
  <2>2. a \in AttemptId
    BY <2>1 DEF IInv, LocalOK
  <2>. HIDE DEF a
  <2>. QED BY <2>1, <2>2, FinalizeShown
<1>3. CASE StateFinalize(r)
  <2>. DEFINE a == request[r].target
  <2>1. /\ request[r].pc = "state" /\ attempt' = Finalized(a, TRUE)
        /\ UNCHANGED <<participant, clock>>
    BY <1>3 DEF StateFinalize
  <2>2. a \in AttemptId /\ attempt[a].due < clock
    BY <2>1 DEF IInv, LocalOK
  <2>. HIDE DEF a
  <2>. QED BY <2>1, <2>2, FinalizeShown
<1>4. ASSUME NEW a \in AttemptId, NEW i \in Item, NEW n \in ClientSeq,
             AutosaveCheck(r, a, i, n)
      PROVE  UNCHANGED <<attempt, participant, clock>>
  BY <1>4 DEF AutosaveCheck
<1>5. ASSUME NEW a \in AttemptId, SubmitCheck(r, a) \/ StateCheck(r, a)
      PROVE  UNCHANGED <<attempt, participant, clock>>
  BY <1>5 DEF SubmitCheck, StateCheck
<1>6. AutosaveUpsert(r) => UNCHANGED <<attempt, participant, clock>>
  BY DEF AutosaveUpsert
<1>. QED BY <1>1, <1>2, <1>3, <1>4, <1>5, <1>6 DEF Write

LEMMA SweepShown ==
  ASSUME IInv, IInv', NEW s \in Sweeper,
         Sweep(s) \/ \E a \in AttemptId : SweepFailure(s, a)
  PROVE  SitStep
<1>1. CASE UNCHANGED <<attempt, participant, clock>>
  BY <1>1, NothingShown DEF Placed, SitStep
<1>2. ASSUME NEW a \in AttemptId, SweepFinalize(s, a) PROVE SitStep
  <2>1. /\ attempt' = Finalized(a, TRUE) /\ attempt[a].due < clock
        /\ UNCHANGED <<participant, clock>>
    BY <1>2 DEF SweepFinalize, IInv, SweepOK
  <2>. QED BY <2>1, FinalizeShown
<1>3. SweepList(s) => UNCHANGED <<attempt, participant, clock>>
  BY DEF SweepList
<1>4. ASSUME NEW a \in AttemptId, SweepFailure(s, a)
      PROVE  UNCHANGED <<attempt, participant, clock>>
  BY <1>4 DEF SweepFailure
<1>. QED BY <1>1, <1>2, <1>3, <1>4 DEF Sweep

(* Every step is one of the sittings, or changes nothing that is seen.     *)
LEMMA NextShown ==
  ASSUME IInv, IInv', NowOK, [Next]_vars
  PROVE  SitStep
<1>1. CASE UNCHANGED <<attempt, participant, clock>>
  BY <1>1, NothingShown DEF Placed, SitStep
<1>2. CASE Tick
  <2>1. clock' = clock + 1 /\ UNCHANGED <<attempt, participant>>
    BY <1>2 DEF Tick
  <2>2. Sits' = Sits
    BY <2>1, NothingShown DEF Placed
  <2>3. Abstract!Tick
    BY <2>1, <2>2 DEF Abstract!Tick, Sits
  <2>. QED BY <2>3 DEF SitStep, Abstract!Next
<1>3. Crash => UNCHANGED <<attempt, participant, clock>>
  BY DEF Crash
<1>4. UNCHANGED vars => UNCHANGED <<attempt, participant, clock>>
  BY DEF vars
<1>. QED BY <1>1, <1>2, <1>3, <1>4, StartShown, WriteShown, SweepShown,
            ResetShown DEF Next

-----------------------------------------------------------------------------
(* Only StartBegin sets the time, once the window is open.                 *)

LEMMA OneHandler ==
  ASSUME NowOK, NEW r \in Request,
         \A q \in Request : q # r => request'[q] = request[q],
         request'[r].pc \in Starting => StartsAt <= request'[r].now
  PROVE  NowOK'
BY DEF NowOK

LEMMA NowReturn ==
  ASSUME TypeOK, NowOK, NEW r \in Request, Return(r)
  PROVE  NowOK'
<1>1. request'[r].pc = "idle" /\ \A q \in Request : q # r => request'[q] = request[q]
  BY DEF TypeOK, Return, Idle
<1>. QED BY <1>1, OneHandler DEF Starting

(* A start that goes on keeps its time.                                    *)
LEMMA NowKept ==
  ASSUME TypeOK, NowOK, NEW r \in Request, request[r].pc \in Starting, NEW e \in Local,
         request' = [request EXCEPT ![r] = e], e.now = request[r].now
  PROVE  NowOK'
<1>1. request'[r] = e /\ \A q \in Request : q # r => request'[q] = request[q]
  BY DEF TypeOK
<1>. QED BY <1>1, OneHandler DEF NowOK

LEMMA NowGoto ==
  ASSUME TypeOK, NowOK, NEW r \in Request, request[r].pc \in Starting,
         NEW pc \in Step, NEW a \in AttemptId \cup {None}, Goto(r, pc, a)
  PROVE  NowOK'
<1>. DEFINE e == [request[r] EXCEPT !.pc = pc, !.target = a]
<1>1. request[r] \in Local
  BY DEF TypeOK
<1>2. e \in Local /\ e.now = request[r].now
  BY <1>1 DEF Local
<1>3. request' = [request EXCEPT ![r] = e]
  BY DEF Goto, TypeOK
<1>. HIDE DEF e
<1>. QED BY <1>2, <1>3, NowKept

LEMMA NowFull ==
  ASSUME TypeOK, NowOK, NEW r \in Request, request[r].pc \in Starting,
         NEW pc \in Step, NEW a \in AttemptId \cup {None}, NEW full \in BOOLEAN,
         request' = [request EXCEPT ![r].pc = pc, ![r].target = a, ![r].full = full]
  PROVE  NowOK'
<1>. DEFINE e == [request[r] EXCEPT !.pc = pc, !.target = a, !.full = full]
<1>1. request[r] \in Local
  BY DEF TypeOK
<1>2. e \in Local /\ e.now = request[r].now
  BY <1>1 DEF Local
<1>3. request' = [request EXCEPT ![r] = e]
  BY DEF TypeOK
<1>. HIDE DEF e
<1>. QED BY <1>2, <1>3, NowKept

LEMMA NowBound ==
  ASSUME TypeOK, NowOK, NEW r \in Request, request[r].pc \in Starting,
         NEW pc \in Step, NEW a \in AttemptId \cup {None},
         NEW b \in Device \cup {None}, NEW sc \in Scores,
         request' = [request EXCEPT ![r].pc = pc, ![r].target = a, ![r].bound = b,
                                    ![r].seen = sc]
  PROVE  NowOK'
<1>. DEFINE e == [request[r] EXCEPT !.pc = pc, !.target = a, !.bound = b,
                                    !.seen = sc]
<1>1. request[r] \in Local
  BY DEF TypeOK
<1>2. e \in Local /\ e.now = request[r].now
  BY <1>1 DEF Local
<1>3. request' = [request EXCEPT ![r] = e]
  BY DEF TypeOK
<1>. HIDE DEF e
<1>. QED BY <1>2, <1>3, NowKept

LEMMA NowResume ==
  ASSUME TypeOK, NowOK, NEW r \in Request, request[r].pc \in Starting,
         NEW a \in AttemptId, NEW full \in BOOLEAN, Resume(r, a, full)
  PROVE  NowOK'
<1>1. CASE request' = [request EXCEPT ![r].pc = "start_finalize",
                                      ![r].target = a, ![r].full = full]
  BY <1>1, NowFull DEF Step
<1>2. CASE Return(r)
  BY <1>2, NowReturn
<1>. QED BY <1>1, <1>2 DEF Resume

LEMMA NowStart ==
  ASSUME IInv, NowOK, NEW r \in Request, Start(r)
  PROVE  NowOK'
<1>0. TypeOK /\ request[r] \in Local
  BY DEF IInv, TypeOK
<1>1. ASSUME NEW p \in Participant, NEW d \in Device \cup {None}, StartBegin(r, p, d)
      PROVE  NowOK'
  <2>. DEFINE e == [Idle EXCEPT !.pc = "start_lookup", !.who = p, !.device = d,
                                !.now = clock]
  <2>1. StartsAt <= clock /\ request' = [request EXCEPT ![r] = e]
    BY <1>1 DEF StartBegin
  <2>2. e.now = clock
    BY DEF Idle
  <2>. HIDE DEF e
  <2>3. request'[r] = e /\ \A q \in Request : q # r => request'[q] = request[q]
    BY <1>0, <2>1 DEF TypeOK
  <2>. QED BY <2>1, <2>2, <2>3, OneHandler
<1>2. CASE StartLookup(r)
  <2>1. request[r].pc \in Starting
    BY <1>2 DEF StartLookup, Starting
  <2>2. CASE Return(r)
    BY <1>0, <2>2, NowReturn
  <2>3. CASE Goto(r, "start_tx", None)
    BY <1>0, <2>1, <2>3, NowGoto DEF Step
  <2>4. ASSUME NEW a \in AttemptId, NEW full \in BOOLEAN,
               \/ request' = [request EXCEPT ![r].pc = "start_bind",
                                             ![r].target = a, ![r].full = full]
               \/ Resume(r, a, full)
        PROVE  NowOK'
    <3>1. CASE Resume(r, a, full)
      BY <1>0, <2>1, <3>1, NowResume
    <3>2. CASE request' = [request EXCEPT ![r].pc = "start_bind",
                                          ![r].target = a, ![r].full = full]
      BY <1>0, <2>1, <3>2, NowFull DEF Step
    <3>. QED BY <2>4, <3>1, <3>2
  <2>5. ActiveOf(request[r].who) \subseteq AttemptId
    BY DEF ActiveOf
  <2>. DEFINE f == participant[request[r].who].count >= MaxAttempts
  <2>6. f \in BOOLEAN
    OBVIOUS
  <2>7. \/ Return(r) \/ Goto(r, "start_tx", None)
        \/ \E a \in AttemptId :
             \/ request' = [request EXCEPT ![r].pc = "start_bind",
                                           ![r].target = a, ![r].full = f]
             \/ Resume(r, a, f)
    BY <1>2, <2>5 DEF StartLookup
  <2>. HIDE DEF f
  <2>. QED BY <2>2, <2>3, <2>4, <2>6, <2>7
<1>3. CASE StartBind(r)
  <2>1. request[r].pc = "start_bind" /\ request[r].pc \in Starting
    BY <1>3 DEF StartBind, Starting
  <2>2. request[r].target \in AttemptId /\ request[r].full \in BOOLEAN
    BY <1>0, <2>1 DEF IInv, LocalOK, Local
  <2>3. Return(r) \/ Resume(r, request[r].target, request[r].full)
    BY <1>3 DEF StartBind
  <2>. QED BY <1>0, <2>1, <2>2, <2>3, NowReturn, NowResume
<1>4. CASE StartFinalize(r)
  <2>1. request[r].pc \in Starting
    BY <1>4 DEF StartFinalize, Starting
  <2>2. Return(r) \/ Goto(r, "start_tx", None)
    BY <1>4 DEF StartFinalize
  <2>3. "start_tx" \in Step
    BY DEF Step
  <2>. QED BY <1>0, <2>1, <2>2, <2>3, NowReturn, NowGoto
<1>5. CASE StartLock(r)
  <2>1. request[r].pc \in Starting /\ "start_commit" \in Step
    BY <1>5 DEF StartLock, Starting, Step
  <2>2. CASE Goto(r, "start_commit", None)
    BY <1>0, <2>1, <2>2, NowGoto
  <2>3. ASSUME NEW a \in AttemptId,
               request' = [request EXCEPT ![r].pc = "start_commit",
                                          ![r].target = a,
                                          ![r].bound = attempt[a].device,
                                          ![r].seen = Score(a)]
        PROVE  NowOK'
    <3>1. attempt[a].device \in Device \cup {None} /\ Score(a) \in Scores
      BY <1>0, ScoreType DEF TypeOK, Row
    <3>. QED BY <1>0, <2>1, <2>3, <3>1, NowBound
  <2>4. ActiveOf(request[r].who) \subseteq AttemptId
    BY DEF ActiveOf
  <2>. QED BY <1>5, <2>2, <2>3, <2>4 DEF StartLock
<1>6. CASE EndStart(r)
  BY <1>0, <1>6, NowReturn DEF EndStart
<1>. QED BY <1>1, <1>2, <1>3, <1>4, <1>5, <1>6
         DEF Start, CommitNew, CommitRefused, CommitExpired, CommitActive

LEMMA NowWrite ==
  ASSUME IInv, NowOK, NEW r \in Request, Write(r)
  PROVE  NowOK'
<1>0. TypeOK /\ request \in [Request -> Local]
  BY DEF IInv, TypeOK
<1>1. ASSUME NEW a \in AttemptId,
             \/ \E i \in Item, n \in ClientSeq \ {0} : AutosaveCheck(r, a, i, n)
             \/ SubmitCheck(r, a)
             \/ StateCheck(r, a)
      PROVE  NowOK'
  <2>1. ASSUME NEW e, request' = [request EXCEPT ![r] = e],
               e.pc \in {"save", "submit", "state"}
        PROVE  NowOK'
    <3>1. request'[r] = e /\ \A q \in Request : q # r => request'[q] = request[q]
      BY <1>0, <2>1
    <3>2. e.pc \notin Starting
      BY <2>1 DEF Starting
    <3>. QED BY <3>1, <3>2, OneHandler
  <2>2. ASSUME NEW i \in Item, NEW n \in ClientSeq, AutosaveCheck(r, a, i, n)
        PROVE  NowOK'
    <3>. DEFINE e == [Idle EXCEPT !.pc = "save", !.target = a, !.item = i, !.seq = n]
    <3>1. request' = [request EXCEPT ![r] = e] /\ e.pc = "save"
      BY <2>2 DEF AutosaveCheck, Idle
    <3>. HIDE DEF e
    <3>. QED BY <2>1, <3>1
  <2>3. CASE SubmitCheck(r, a)
    <3>. DEFINE e == [Idle EXCEPT !.pc = "submit", !.target = a]
    <3>1. request' = [request EXCEPT ![r] = e] /\ e.pc = "submit"
      BY <2>3 DEF SubmitCheck, Idle
    <3>. HIDE DEF e
    <3>. QED BY <2>1, <3>1
  <2>4. CASE StateCheck(r, a)
    <3>. DEFINE e == [Idle EXCEPT !.pc = "state", !.target = a]
    <3>1. request' = [request EXCEPT ![r] = e] /\ e.pc = "state"
      BY <2>4 DEF StateCheck, Idle
    <3>. HIDE DEF e
    <3>. QED BY <2>1, <3>1
  <2>. QED BY <1>1, <2>2, <2>3, <2>4
<1>2. CASE Return(r)
  BY <1>0, <1>2, NowReturn
<1>. QED BY <1>1, <1>2 DEF Write, AutosaveUpsert, SubmitFinalize, StateFinalize

LEMMA NowNext ==
  ASSUME IInv, NowOK, [Next]_vars
  PROVE  NowOK'
<1>1. CASE UNCHANGED request
  BY <1>1 DEF NowOK
<1>2. CASE Crash
  BY <1>2 DEF Crash, Idle, NowOK, Starting
<1>3. ASSUME NEW s \in Sweeper, Sweep(s) \/ \E a \in AttemptId : SweepFailure(s, a)
      PROVE  UNCHANGED request
  BY <1>3 DEF Sweep, SweepList, SweepFinalize, SweepFailure
<1>4. ASSUME NEW a \in AttemptId, Reset(a) PROVE UNCHANGED request
  BY <1>4 DEF Reset
<1>5. Tick => UNCHANGED request
  BY DEF Tick
<1>6. UNCHANGED vars => UNCHANGED request
  BY DEF vars
<1>. QED BY <1>1, <1>2, <1>3, <1>4, <1>5, <1>6, NowStart, NowWrite DEF Next

-----------------------------------------------------------------------------
(* Whatever runs between the steps of the handlers, every student's        *)
(* attempts develop as Sittings says, each request, sweep and reset being  *)
(* one step or none.                                                       *)
THEOREM Implements == Spec => ImplementsSittings
<1>1. Init => Abstract!Init /\ NowOK
  <2>. SUFFICES ASSUME Init PROVE Abstract!Init /\ NowOK
    OBVIOUS
  <2>1. IInv
    BY InitInv
  <2>2. ASSUME NEW p \in Participant PROVE History(p) = <<>>
    <3>1. participant[p].count = 0
      BY DEF Init
    <3>. QED BY <3>1 DEF History
  <2>3. NowOK
    BY DEF Init, Idle, NowOK, Starting
  <2>. QED BY <2>2, <2>3 DEF Init, Abstract!Init
<1>2. IInv /\ IInv' /\ NowOK /\ [Next]_vars =>
        NowOK' /\ [Abstract!Next]_(Abstract!vars)
  <2>. SUFFICES ASSUME IInv, IInv', NowOK, [Next]_vars
                PROVE  NowOK' /\ [Abstract!Next]_(Abstract!vars)
    OBVIOUS
  <2>1. NowOK'
    BY NowNext
  <2>2. SitStep
    BY NextShown
  <2>. QED BY <2>1, <2>2 DEF SitStep, Sits, Abstract!vars
<1>. QED BY <1>1, <1>2, Inductive, PTL DEF Spec, ImplementsSittings, Abstract!Spec
=============================================================================
