-------------------------- MODULE NodeLimitsProofs ---------------------------
(***************************************************************************)
(* Proofs about the node's small components whose properties are counts or *)
(* grades: the integrity events, the login limit and grading; and the      *)
(* types of all of the parts.                                              *)
(***************************************************************************)
EXTENDS MCNodeParts, NodePartsProofs, FiniteSetTheorems, SequenceTheorems,
        WellFoundedInduction, FunctionTheorems

-----------------------------------------------------------------------------
(* Integrity events.                                                       *)

(* Rounding to seconds takes less than a third tick off, and adds no more. *)
LEMMA RoundedType ==
  ASSUME NEW t \in Nat
  PROVE  /\ Rounded(t) \in Nat /\ Rounded(t) % Second = 0
         /\ Rounded(t) + 1 >= t
  BY DEF Rounded, Second

(* Between lock and release only one request is at work, its time is not   *)
(* before any event's, and past its checks they hold of what is stored.    *)
SenderOK(s) ==
  sender[s].pc # "idle" =>
    /\ rowLock = s
    /\ sender[s].at <= ticks
    /\ \A e \in events : e.at <= sender[s].at
    /\ sender[s].pc = "insert" => ~Flooded(s) /\ ~Duplicate(s)

EventOK(e) == e.at <= ticks /\ e.stored + 1 >= e.at

IntegrityInv ==
  /\ IntegrityTypeOK
  /\ IsFiniteSet(events)
  /\ \A e \in events : EventOK(e)
  /\ \A s \in Sender : SenderOK(s)
  /\ EventsAreLimited

LEMMA IntegrityInitial == IntegrityInit => IntegrityInv
<1> SUFFICES ASSUME IntegrityInit PROVE IntegrityInv
  OBVIOUS
<1>1. (CHOOSE k \in Kind : TRUE) \in Kind
  BY IntegrityAssumption
<1>2. IntegrityTypeOK
  BY <1>1 DEF IntegrityInit, IntegrityTypeOK, Quiet
<1>3. IsFiniteSet(events)
  BY FS_EmptySet DEF IntegrityInit
<1> QED
  BY <1>2, <1>3 DEF IntegrityInit, IntegrityInv, SenderOK, Quiet, EventsAreLimited

(* What a new event of time at adds to a window that it falls into.        *)
Around(E, e) ==
  {f \in E : e.at <= f.at /\ f.at + 1 <= e.at + RateWindow}

LEMMA AroundNew ==
  ASSUME IntegrityInv, NEW g, g.at \in Nat,
         \A f \in events : f.at <= g.at,
         Cardinality(Since(g.at, RateWindow)) < RateLimit,
         NEW e \in events \cup {g}
  PROVE  Cardinality(Around(events \cup {g}, e)) <= RateLimit
<1> DEFINE E == events \cup {g}
           Recents == Since(g.at, RateWindow)
<1>1. /\ IsFiniteSet(events) /\ RateLimit \in Nat \ {0} /\ RateWindow \in Nat
      /\ \A f \in events : {f.stored, f.at} \subseteq Nat /\ f.stored + 1 >= f.at
  BY IntegrityAssumption DEF IntegrityInv, IntegrityTypeOK, EventOK
<1>2. \A f \in E : f.at \in Nat
  BY <1>1
<1>3. IsFiniteSet(Recents) /\ Cardinality(Recents) \in Nat
  BY <1>1, FS_Subset, FS_CardinalityType DEF Since
<1>4. CASE g \in Around(E, e)
  <2>1. \A f \in Around(E, e) \ {g} : f \in Recents
    <3> SUFFICES ASSUME NEW f \in events, e.at <= f.at
                 PROVE  f.stored + RateWindow >= g.at
      BY DEF Around, Since
    <3>1. /\ e.at \in Nat /\ f.at \in Nat /\ f.stored \in Nat /\ RateWindow \in Nat
          /\ g.at \in Nat /\ f.stored + 1 >= f.at /\ g.at + 1 <= e.at + RateWindow
      BY <1>1, <1>2, <1>4 DEF Around
    <3> QED
      BY <3>1
  <2>2. Around(E, e) \subseteq Recents \cup {g}
    BY <2>1
  <2>3. /\ IsFiniteSet(Recents \cup {g})
        /\ Cardinality(Recents \cup {g}) <= Cardinality(Recents) + 1
        /\ Cardinality(Recents \cup {g}) \in Nat
    <3>1. /\ IsFiniteSet(Recents \cup {g})
          /\ Cardinality(Recents \cup {g})
               = IF g \in Recents THEN Cardinality(Recents) ELSE Cardinality(Recents) + 1
      BY <1>3, FS_AddElement
    <3> QED
      BY <1>3, <3>1
  <2>4. /\ Cardinality(Around(E, e)) <= Cardinality(Recents \cup {g})
        /\ Cardinality(Around(E, e)) \in Nat
    BY <2>2, <2>3, FS_Subset, FS_CardinalityType
  <2> QED
    BY <1>1, <1>3, <2>3, <2>4
<1>5. CASE g \notin Around(E, e) /\ e \in events
  <2>1. Around(E, e) = Around(events, e)
    BY <1>5 DEF Around
  <2> QED
    BY <1>5, <2>1 DEF IntegrityInv, EventsAreLimited, Around
<1>6. CASE g \notin Around(E, e) /\ e = g
  <2>1. Around(E, e) = {}
    <3> SUFFICES ASSUME NEW f \in E, g.at <= f.at, f.at + 1 <= g.at + RateWindow
                 PROVE  FALSE
      BY <1>6 DEF Around
    <3>1. f.at <= g.at
      BY <1>2
    <3>2. f.at = g.at
      BY <1>2, <3>1
    <3> QED
      BY <1>6, <3>2 DEF Around
  <2>2. Cardinality(Around(E, e)) = 0
    BY <2>1, FS_EmptySet
  <2> QED
    BY <1>1, <2>2
<1> QED
  BY <1>4, <1>5, <1>6

LEMMA IntegrityStep ==
  IntegrityInv /\ [IntegrityNext]_integrityVars => IntegrityInv'
<1> SUFFICES ASSUME IntegrityInv, [IntegrityNext]_integrityVars
             PROVE  IntegrityInv'
  OBVIOUS
<1> USE IntegrityAssumption
<1>q. Quiet \in [pc : {"idle", "check", "insert"}, kind : Kind, at : Nat]
  BY DEF Quiet
<1>t. IntegrityTypeOK /\ IsFiniteSet(events)
  BY DEF IntegrityInv
<1>1. ASSUME NEW s \in Sender, NEW k \in Kind, LockAttempt(s, k)
      PROVE  IntegrityInv'
  <2>1. /\ IntegrityTypeOK' /\ UNCHANGED <<ticks, events>>
        /\ sender'[s] = [pc |-> "check", kind |-> k, at |-> ticks]
        /\ \A o \in Sender \ {s} : sender'[o] = sender[o]
        /\ rowLock' = s
    BY <1>1, <1>t DEF LockAttempt, IntegrityTypeOK
  <2>2. \A o \in Sender \ {s} : sender[o].pc = "idle"
    BY <1>1, <1>t DEF IntegrityInv, SenderOK, LockAttempt, Locked, IntegrityTypeOK
  <2>3. SenderOK(s)'
    BY <1>t, <2>1 DEF SenderOK, IntegrityInv, EventOK, IntegrityTypeOK
  <2>4. \A o \in Sender \ {s} : SenderOK(o)'
    BY <2>1, <2>2 DEF SenderOK
  <2> QED
    BY <2>1, <2>3, <2>4 DEF IntegrityInv, EventOK, EventsAreLimited
<1>2. ASSUME NEW s \in Sender, sender[s].pc # "idle", Release(s)
      PROVE  /\ sender' \in [Sender -> [pc : {"idle", "check", "insert"},
                                         kind : Kind, at : Nat]]
             /\ rowLock' \in Sender \cup {Nobody}
             /\ \A o \in Sender : sender'[o].pc = "idle"
  <2>1. \A o \in Sender \ {s} : sender[o].pc = "idle"
    BY <1>2 DEF IntegrityInv, SenderOK
  <2> QED
    BY <1>2, <1>q, <1>t, <2>1 DEF Release, IntegrityTypeOK, Quiet
<1>3. ASSUME NEW s \in Sender, sender[s].pc # "idle", Release(s),
             UNCHANGED <<ticks, events>>
      PROVE  IntegrityInv'
  <2>1. IntegrityTypeOK'
    BY <1>2, <1>3, <1>t DEF IntegrityTypeOK
  <2> QED
    BY <1>2, <1>3, <2>1 DEF IntegrityInv, SenderOK, EventOK, EventsAreLimited
<1>4. ASSUME NEW s \in Sender, Check(s)
      PROVE  IntegrityInv'
  <2>1. CASE Flooded(s) \/ Duplicate(s)
    BY <1>3, <1>4, <2>1 DEF Check
  <2>2. CASE ~Flooded(s) /\ ~Duplicate(s)
    <3>1. /\ IntegrityTypeOK' /\ UNCHANGED <<ticks, rowLock, events>>
          /\ sender'[s].kind = sender[s].kind /\ sender'[s].at = sender[s].at
          /\ \A o \in Sender \ {s} : sender'[o] = sender[o]
      BY <1>4, <1>t, <2>2 DEF Check, IntegrityTypeOK
    <3>2. SenderOK(s)'
      BY <1>4, <2>2, <3>1
         DEF IntegrityInv, SenderOK, Check, Flooded, Duplicate, Since
    <3>3. \A o \in Sender \ {s} : SenderOK(o)'
      BY <3>1 DEF IntegrityInv, SenderOK, Flooded, Duplicate, Since
    <3> QED
      BY <3>1, <3>2, <3>3 DEF IntegrityInv, EventOK, EventsAreLimited
  <2> QED
    BY <2>1, <2>2
<1>5. ASSUME NEW s \in Sender, Insert(s)
      PROVE  IntegrityInv'
  <2> DEFINE at == sender[s].at
             g == [id |-> Cardinality(events), kind |-> sender[s].kind,
                   at |-> at, stored |-> Rounded(at)]
  <2>1. /\ at \in Nat /\ ticks \in Nat /\ sender[s].kind \in Kind
        /\ Cardinality(events) \in Nat
        /\ Cardinality(Since(at, RateWindow)) \in Nat /\ RateLimit \in Nat
    <3>1. IsFiniteSet(Since(at, RateWindow))
      BY <1>t, FS_Subset DEF Since
    <3> QED
      BY <1>t, <3>1, FS_CardinalityType DEF IntegrityTypeOK
  <2>2. /\ at <= ticks
        /\ \A e \in events : e.at <= at
        /\ ~Flooded(s) /\ ~Duplicate(s)
    BY <1>5 DEF Insert, IntegrityInv, SenderOK
  <2>3. /\ Rounded(at) \in Nat /\ Rounded(at) % Second = 0
        /\ Rounded(at) + 1 >= at
    BY <2>1, RoundedType
  <2>4. /\ g.at = at /\ g.kind = sender[s].kind /\ g.stored = Rounded(at)
        /\ g.id = Cardinality(events)
    OBVIOUS
  <2>5. events' = events \cup {g} /\ ticks' = ticks
    BY <1>5 DEF Insert
  <2> HIDE DEF g
  <2>6. /\ sender' \in [Sender -> [pc : {"idle", "check", "insert"},
                                    kind : Kind, at : Nat]]
        /\ rowLock' \in Sender \cup {Nobody}
        /\ \A o \in Sender : sender'[o].pc = "idle"
    BY <1>2, <1>5 DEF Insert
  <2>7. IntegrityTypeOK'
    BY <1>t, <2>1, <2>3, <2>4, <2>5, <2>6 DEF IntegrityTypeOK
  <2>8. IsFiniteSet(events')
    BY <1>t, <2>5, FS_AddElement
  <2>9. \A e \in events' : EventOK(e)'
    BY <2>2, <2>3, <2>4, <2>5 DEF IntegrityInv, EventOK
  <2>10. Cardinality(Since(at, RateWindow)) < RateLimit
    BY <2>1, <2>2 DEF Flooded
  <2>11. \A e \in events' : Cardinality(Around(events', e)) <= RateLimit
    BY <2>1, <2>2, <2>4, <2>5, <2>10, AroundNew
  <2>12. \A e \in events' : \A f \in events' \ {e} :
           e.kind = f.kind /\ e.at <= f.at => f.at + 1 > e.at + DedupWindow
    <3> SUFFICES ASSUME NEW e \in events', NEW f \in events' \ {e},
                        e.kind = f.kind, e.at <= f.at
                 PROVE  f.at + 1 > e.at + DedupWindow
      OBVIOUS
    <3>1. \A h \in events : h.kind = g.kind => ~(h.stored + DedupWindow >= at)
      BY <2>2, <2>4 DEF Duplicate, Since
    <3>2. /\ DedupWindow \in Nat
          /\ \A h \in events : /\ h.at \in Nat /\ h.stored \in Nat
                                /\ h.stored + 1 >= h.at /\ h.at <= at
      BY <1>t, <2>2 DEF IntegrityInv, IntegrityTypeOK, EventOK
    <3>3. CASE e \in events /\ f \in events
      BY <3>3 DEF IntegrityInv, EventsAreLimited
    <3>4. CASE e \in events /\ f = g
      BY <2>1, <2>4, <3>1, <3>2, <3>4
    <3>5. CASE e = g /\ f \in events
      BY <2>1, <2>4, <3>1, <3>2, <3>5
    <3> QED
      BY <2>5, <3>3, <3>4, <3>5
  <2>13. EventsAreLimited'
    BY <2>11, <2>12 DEF EventsAreLimited, Around
  <2> QED
    BY <2>6, <2>7, <2>8, <2>9, <2>13 DEF IntegrityInv, SenderOK
<1>6. ASSUME NEW s \in Sender, RollBack(s)
      PROVE  IntegrityInv'
  BY <1>3, <1>6 DEF RollBack
<1>7. CASE IntegrityTick
  <2>1. /\ UNCHANGED <<rowLock, sender, events>>
        /\ ticks \in Nat /\ ticks' = ticks + 1
    BY <1>7, <1>t DEF IntegrityTick, IntegrityTypeOK
  <2>2. IntegrityTypeOK'
    BY <1>t, <2>1 DEF IntegrityTypeOK
  <2>3. \A e \in events : EventOK(e)'
    BY <1>t, <2>1 DEF IntegrityInv, EventOK, IntegrityTypeOK
  <2>4. \A s \in Sender : SenderOK(s)'
    <3> SUFFICES ASSUME NEW s \in Sender PROVE SenderOK(s)'
      OBVIOUS
    <3>1. sender[s].at \in Nat
      BY <1>t DEF IntegrityTypeOK
    <3>2. CASE sender[s].pc = "idle"
      BY <2>1, <3>2 DEF SenderOK
    <3>3. CASE sender[s].pc # "idle"
      <4>1. /\ rowLock = s /\ \A e \in events : e.at <= sender[s].at
            /\ sender[s].pc = "insert" => ~Flooded(s) /\ ~Duplicate(s)
            /\ sender[s].at <= ticks
        BY <3>3 DEF IntegrityInv, SenderOK
      <4>2. Flooded(s)' = Flooded(s) /\ Duplicate(s)' = Duplicate(s)
        BY <2>1 DEF Flooded, Duplicate, Since
      <4>3. sender[s].at <= ticks'
        BY <2>1, <3>1, <4>1
      <4> QED
        BY <2>1, <4>1, <4>2, <4>3 DEF SenderOK
    <3> QED
      BY <3>2, <3>3
  <2> QED
    BY <2>1, <2>2, <2>3, <2>4 DEF IntegrityInv, EventsAreLimited
<1>8. CASE UNCHANGED integrityVars
  BY <1>8 DEF integrityVars, IntegrityInv, IntegrityTypeOK, EventOK, SenderOK,
              Flooded, Duplicate, Since, EventsAreLimited
<1> QED
  BY <1>1, <1>4, <1>5, <1>6, <1>7, <1>8 DEF IntegrityNext

(* The inductive invariant of RecordEvent holds of every behaviour.        *)
THEOREM IntegrityInductive == IntegritySpec => []IntegrityInv
<1> QED
  BY IntegrityInitial, IntegrityStep, PTL DEF IntegritySpec

(* However many reports of an attempt come at once, no more events than    *)
(* the limit are stored within a window, and no duplicate within its own.  *)
THEOREM LimitedEvents == IntegritySpec => []EventsAreLimited
<1>1. IntegrityInv => EventsAreLimited
  BY DEF IntegrityInv
<1> QED
  BY IntegrityInductive, <1>1, PTL

-----------------------------------------------------------------------------
(* The login limit.                                                        *)

Smallest(S, m) == m \in S /\ \A n \in S : m <= n

LEMMA HasSmallest ==
  ASSUME NEW S, S \subseteq Nat, S # {}
  PROVE  \E m \in S : Smallest(S, m)
<1>1. \E m \in S : \A n \in S : ~(<<n, m>> \in OpToRel(<, Nat))
  BY WFMin, NatLessThanWellFounded
<1>2. PICK m \in S : \A n \in S : ~(<<n, m>> \in OpToRel(<, Nat))
  BY <1>1
<1>3. \A n \in S : ~(n < m)
  BY <1>2 DEF OpToRel
<1> QED
  BY <1>3 DEF Smallest

Ascending(times) ==
  \A i, j \in 1..Len(times) : i <= j => times[i] <= times[j]

(* The first m times have left the window, the others have not.            *)
Split(times, m) ==
  /\ m \in 0..Len(times)
  /\ \A i \in 1..m : times[i] + Window <= now
  /\ \A i \in (m + 1)..Len(times) : times[i] + Window > now

LEMMA SplitExists ==
  ASSUME NEW times \in Seq(Nat), Ascending(times), now \in Nat, Window \in Nat
  PROVE  \E m : Split(times, m)
<1> DEFINE S == {n \in 0..Len(times) :
                   \A i \in (n + 1)..Len(times) : times[i] + Window > now}
<1>1. Len(times) \in Nat /\ Len(times) \in S /\ S \subseteq 0..Len(times)
  OBVIOUS
<1> HIDE DEF S
<1>0. S \subseteq Nat /\ S # {}
  BY <1>1
<1>2. PICK m \in S : Smallest(S, m)
  BY <1>0, HasSmallest
<1>3. \A i \in 1..Len(times) : times[i] \in Nat
  OBVIOUS
<1>4. \A i \in 1..m : times[i] + Window <= now
  <2>1. CASE m = 0
    BY <2>1
  <2>2. CASE m # 0
    <3>1. m - 1 \in 0..Len(times) /\ m - 1 \notin S /\ m \in 1..Len(times)
      BY <1>1, <1>2, <2>2 DEF Smallest
    <3>2. PICK i \in ((m - 1) + 1)..Len(times) : ~(times[i] + Window > now)
      BY <3>1 DEF S
    <3>3. i = m
      BY <1>1, <1>2, <3>1, <3>2 DEF S
    <3>4. m \in 1..Len(times) /\ times[m] + Window <= now
      BY <1>1, <1>2, <1>3, <2>2, <3>2, <3>3
    <3>5. \A k \in 1..m : times[k] <= times[m] /\ times[k] \in Nat
      BY <1>1, <1>3, <3>4 DEF Ascending
    <3>6. times[m] \in Nat
      BY <1>3, <3>4
    <3> QED
      BY <3>4, <3>5, <3>6
  <2> QED
    BY <2>1, <2>2
<1> QED
  BY <1>1, <1>2, <1>4 DEF Split, S

(* What is still within the window is the end of a list that ascends.      *)
LEMMA RecentIsEnd ==
  ASSUME NEW times \in Seq(Nat), NEW m, Split(times, m),
         now \in Nat, Window \in Nat
  PROVE  Recent(times) = SubSeq(times, m + 1, Len(times))
<1> DEFINE D == 0..Len(times)
           Loop(g) == [n \in D |->
             IF n = 0 THEN <<>>
             ELSE IF times[n] + Window > now THEN Append(g[n - 1], times[n])
             ELSE g[n - 1]]
           Rest == [n \in D |-> IF n <= m THEN <<>> ELSE SubSeq(times, m + 1, n)]
           kept == CHOOSE g : g = Loop(g)
<1>1. Len(times) \in Nat /\ m \in D
  BY DEF Split
<1>2. Recent(times) = kept[Len(times)]
  BY DEF Recent
<1>3. ASSUME NEW n \in D, n # 0
      PROVE  Rest[n] = IF times[n] + Window > now THEN Append(Rest[n - 1], times[n])
                      ELSE Rest[n - 1]
  <2>1. n - 1 \in D /\ n \in 1..Len(times) /\ times[n] \in Nat
    BY <1>1, <1>3
  <2>2. CASE n <= m
    <3>1. ~(times[n] + Window > now)
      BY <1>1, <2>1, <2>2 DEF Split
    <3> QED
      BY <1>1, <2>1, <2>2, <3>1
  <2>3. CASE n = m + 1
    <3>1. times[n] + Window > now
      BY <1>1, <2>1, <2>3 DEF Split
    <3>2. Rest[n - 1] = <<>> /\ Rest[n] = SubSeq(times, n, n)
      BY <1>1, <2>1, <2>3
    <3>3. SubSeq(times, n, n) = Append(<<>>, times[n])
      <4>1. SubSeq(times, n, n) = <<times[n]>>
        <5>1. \A i \in n..n : times[i] \in Nat
          BY <2>1
        <5>2. /\ SubSeq(times, n, n) \in Seq(Nat) /\ Len(SubSeq(times, n, n)) = 1
              /\ SubSeq(times, n, n)[1] = times[n]
          BY <2>1, <5>1, SubSeqProperties
        <5>3. <<times[n]>> \in Seq(Nat) /\ Len(<<times[n]>>) = 1
          BY <2>1
        <5>4. \A i \in 1..1 : SubSeq(times, n, n)[i] = <<times[n]>>[i]
          BY <5>2
        <5> QED
          BY <5>2, <5>3, <5>4, SeqEqual
      <4>2. Append(<<>>, times[n]) = <<times[n]>>
        BY <2>1
      <4> QED
        BY <4>1, <4>2
    <3> QED
      BY <3>1, <3>2, <3>3
  <2>4. CASE n > m + 1
    <3>1. times[n] + Window > now
      BY <1>1, <2>1, <2>4 DEF Split
    <3>2. Rest[n - 1] = SubSeq(times, m + 1, n - 1) /\ Rest[n] = SubSeq(times, m + 1, n)
      BY <1>1, <2>1, <2>4
    <3>3. SubSeq(times, m + 1, n) = Append(SubSeq(times, m + 1, n - 1), times[n])
      BY <1>1, <2>1, <2>4
    <3> QED
      BY <3>1, <3>2, <3>3
  <2> QED
    BY <1>1, <2>1, <2>2, <2>3, <2>4
<1>4. Rest[0] = <<>>
  BY <1>1
<1>5. Rest = Loop(Rest)
  <2>1. \A n \in D : Rest[n] = Loop(Rest)[n]
    BY <1>3, <1>4
  <2>2. Rest = [n \in D |-> Rest[n]] /\ Loop(Rest) = [n \in D |-> Loop(Rest)[n]]
    OBVIOUS
  <2> HIDE DEF Rest, Loop, D
  <2> QED
    BY <2>1, <2>2
<1>6. kept = Loop(kept)
  BY <1>5
<1> HIDE DEF kept, Rest
<1>7. \A n \in D : kept[n] = Rest[n]
  <2> DEFINE S == {n \in D : kept[n] # Rest[n]}
  <2>1. SUFFICES ASSUME S # {} PROVE FALSE
    OBVIOUS
  <2>2. S \in SUBSET Nat
    OBVIOUS
  <2>3. PICK n \in S : Smallest(S, n)
    BY <2>1, <2>2, HasSmallest
  <2>4. kept[0] = <<>>
    BY <1>1, <1>6
  <2>5. n \in D /\ n # 0 /\ kept[n] # Rest[n]
    BY <1>4, <2>3, <2>4
  <2>6. n - 1 \in D /\ n - 1 \notin S
    BY <1>1, <2>3, <2>5 DEF Smallest
  <2>7. kept[n] = IF times[n] + Window > now THEN Append(kept[n - 1], times[n])
                  ELSE kept[n - 1]
    BY <1>6, <2>5
  <2> QED
    BY <1>3, <2>5, <2>6, <2>7
<1>8. Rest[Len(times)] = SubSeq(times, m + 1, Len(times))
  <2>1. CASE m = Len(times)
    BY <1>1, <2>1 DEF Rest
  <2>2. CASE m # Len(times)
    BY <1>1, <2>2 DEF Rest
  <2> QED
    BY <2>1, <2>2
<1>9. Len(times) \in D
  BY <1>1
<1> HIDE DEF D, Loop
<1>10. kept[Len(times)] = Rest[Len(times)]
  BY <1>7, <1>9
<1> QED
  BY <1>2, <1>8, <1>10

(* The end of a list, after its first m.                                   *)
LEMMA EndIs ==
  ASSUME NEW S, NEW h \in Seq(S), NEW m \in 0..Len(h)
  PROVE  /\ SubSeq(h, m + 1, Len(h)) \in Seq(S)
         /\ Len(SubSeq(h, m + 1, Len(h))) = Len(h) - m
         /\ \A i \in 1..(Len(h) - m) : SubSeq(h, m + 1, Len(h))[i] = h[m + i]
<1> DEFINE e == SubSeq(h, m + 1, Len(h))
<1>1. /\ Len(h) \in Nat /\ m \in Nat /\ m <= Len(h)
      /\ \A i \in 1..Len(h) : h[i] \in S
  BY LenProperties, ElementOfSeq
<1>2. (m + 1)..Len(h) \subseteq 1..Len(h)
  BY <1>1
<1>3. \A i \in (m + 1)..Len(h) : h[i] \in S
  BY <1>1, <1>2
<1>4. m + 1 \in Int /\ Len(h) \in Int
  BY <1>1
<1>5. /\ e \in Seq(S)
      /\ Len(e) = IF m + 1 <= Len(h) THEN Len(h) - (m + 1) + 1 ELSE 0
      /\ \A i \in 1..(Len(h) - (m + 1) + 1) : e[i] = h[(m + 1) + i - 1]
  BY <1>3, <1>4, SubSeqProperties
<1> HIDE DEF e
<1>6. Len(e) = Len(h) - m
  BY <1>1, <1>5
<1>7. ASSUME NEW i \in 1..(Len(h) - m) PROVE e[i] = h[m + i]
  <2>1. i \in 1..(Len(h) - (m + 1) + 1) /\ (m + 1) + i - 1 = m + i
    BY <1>1
  <2> QED
    BY <1>5, <2>1
<1> QED
  BY <1>5, <1>6, <1>7 DEF e

(* What the server remembers of a key is the end of what it let in, and    *)
(* all that came before has left the window.                               *)
KeyOK(k) ==
  /\ Ascending(history[k])
  /\ k \notin Remembered => history[k] = <<>>
  /\ k \in Remembered =>
       \E n \in 0..Len(history[k]) :
         /\ hits[k] = SubSeq(history[k], n + 1, Len(history[k]))
         /\ \A i \in 1..n : history[k][i] + Window <= now

LoginInv ==
  /\ LoginTypeOK
  /\ IsFiniteSet(Remembered)
  /\ \A k \in Key : KeyOK(k)
  /\ LimitIsExact

LEMMA LoginInitial == LoginInit => LoginInv
<1> SUFFICES ASSUME LoginInit PROVE LoginInv
  OBVIOUS
<1>1. (CHOOSE k \in Key : TRUE) \in Key
  BY LoginAssumption
<1>2. Remembered = {} /\ IsFiniteSet({}) /\ Cardinality({}) = 0 /\ MaxKeys \in Nat
  BY LoginAssumption, FS_EmptySet DEF LoginInit, Remembered
<1>3. \A k \in Key : history[k] = <<>>
  BY DEF LoginInit
<1>4. LoginTypeOK
  BY <1>1, <1>2 DEF LoginInit, LoginTypeOK, Result, Remembered
<1>5. \A k \in Key : KeyOK(k)
  BY <1>2, <1>3 DEF KeyOK, Ascending
<1>6. LimitIsExact
  <2>1. Limit \in Nat \ {0}
    BY LoginAssumption
  <2>2. login.result # "too_many"
    BY DEF LoginInit
  <2> QED
    BY <1>3, <2>1, <2>2 DEF LimitIsExact
<1> QED
  BY <1>2, <1>4, <1>5, <1>6 DEF LoginInv

LEMMA LoginFacts ==
  ASSUME LoginInv
  PROVE  /\ now \in Nat /\ Window \in Nat /\ Limit \in Nat \ {0} /\ MaxKeys \in Nat \ {0}
         /\ \A k \in Remembered : k \in Key /\ hits[k] \in Seq(Nat)
         /\ \A k \in Key : /\ history[k] \in Seq(Nat)
                           /\ \A i \in 1..Len(history[k]) :
                                history[k][i] \in Nat /\ history[k][i] <= now
  BY LoginAssumption DEF LoginInv, LoginTypeOK, Remembered

(* The end of a key's history, from where it is within the window.         *)
LEMMA RecentOfKey ==
  ASSUME LoginInv, NEW k \in Key
  PROVE  \E m : /\ Split(history[k], m)
                /\ RecentOf(k) = SubSeq(history[k], m + 1, Len(history[k]))
<1> DEFINE h == history[k]
<1>1. /\ h \in Seq(Nat) /\ now \in Nat /\ Window \in Nat /\ Len(h) \in Nat
      /\ \A i \in 1..Len(h) : h[i] \in Nat
  BY LoginFacts
<1>2. Ascending(h)
  BY DEF LoginInv, KeyOK
<1> HIDE DEF h
<1>3. PICK m : Split(h, m)
  BY <1>1, <1>2, SplitExists
<1>4. m \in 0..Len(h)
  BY <1>3 DEF Split
<1>5. CASE k \notin Remembered
  <2>1. h = <<>> /\ RecentOf(k) = <<>>
    BY <1>5 DEF LoginInv, KeyOK, RecentOf, h
  <2>2. m = 0 /\ SubSeq(h, 1, 0) = <<>>
    BY <1>4, <2>1, SubSeqEmpty
  <2> QED
    BY <1>3, <2>1, <2>2 DEF h
<1>6. CASE k \in Remembered
  <2>1. PICK n \in 0..Len(h) : /\ hits[k] = SubSeq(h, n + 1, Len(h))
                               /\ \A i \in 1..n : h[i] + Window <= now
    BY <1>6 DEF LoginInv, KeyOK, h
  <2>2. n <= m
    <3> SUFFICES ASSUME n > m PROVE FALSE
      BY <1>4, <2>1
    <3>1. n \in 1..n /\ n \in (m + 1)..Len(h) /\ h[n] \in Nat
      BY <1>1, <1>4, <2>1
    <3> QED
      BY <1>1, <1>3, <2>1, <3>1 DEF Split
  <2>3. /\ hits[k] \in Seq(Nat) /\ Len(hits[k]) = Len(h) - n
        /\ \A i \in 1..(Len(h) - n) : hits[k][i] = h[n + i]
    BY <1>1, <2>1, EndIs
  <2> DEFINE t == hits[k]
  <2>4. Split(t, m - n)
    <3>1. m - n \in 0..Len(t)
      BY <1>1, <1>4, <2>1, <2>2, <2>3
    <3>2. \A i \in 1..(m - n) : t[i] + Window <= now
      <4> SUFFICES ASSUME NEW i \in 1..(m - n) PROVE t[i] + Window <= now
        OBVIOUS
      <4>1. n + i \in 1..m /\ i \in 1..(Len(h) - n)
        BY <1>1, <1>4, <2>1
      <4> QED
        BY <1>3, <2>3, <4>1 DEF Split
    <3>3. \A i \in ((m - n) + 1)..Len(t) : t[i] + Window > now
      <4> SUFFICES ASSUME NEW i \in ((m - n) + 1)..Len(t) PROVE t[i] + Window > now
        OBVIOUS
      <4>1. n + i \in (m + 1)..Len(h) /\ i \in 1..(Len(h) - n)
        BY <1>1, <1>4, <2>1, <2>2, <2>3
      <4> QED
        BY <1>3, <2>3, <4>1 DEF Split
    <3> QED
      BY <3>1, <3>2, <3>3 DEF Split
  <2>5. RecentOf(k) = SubSeq(t, (m - n) + 1, Len(t))
    BY <1>1, <1>6, <2>3, <2>4, RecentIsEnd DEF RecentOf
  <2>6. SubSeq(t, (m - n) + 1, Len(t)) = SubSeq(h, m + 1, Len(h))
    <3> DEFINE r == SubSeq(t, (m - n) + 1, Len(t))
               w == SubSeq(h, m + 1, Len(h))
    <3>0. /\ n \in 0..m /\ m \in 0..Len(h) /\ Len(t) = Len(h) - n
          /\ n \in Nat /\ m \in Nat /\ Len(t) \in Nat
      BY <1>1, <1>4, <2>1, <2>2, <2>3
    <3>1. m - n \in 0..Len(t) /\ t \in Seq(Nat) /\ Len(t) - (m - n) = Len(h) - m
      BY <2>3, <3>0
    <3>2. /\ r \in Seq(Nat) /\ Len(r) = Len(t) - (m - n)
          /\ \A i \in 1..(Len(t) - (m - n)) : r[i] = t[(m - n) + i]
      BY <3>1, EndIs
    <3>3. /\ w \in Seq(Nat) /\ Len(w) = Len(h) - m
          /\ \A i \in 1..(Len(h) - m) : w[i] = h[m + i]
      BY <1>1, <3>0, EndIs
    <3> HIDE DEF r, w, t
    <3>4. Len(r) = Len(h) - m /\ Len(w) = Len(h) - m
      BY <3>1, <3>2, <3>3
    <3>5. ASSUME NEW i \in 1..Len(r)
          PROVE  r[i] = w[i]
      <4>1. /\ i \in 1..(Len(t) - (m - n)) /\ i \in 1..(Len(h) - m)
            /\ (m - n) + i \in 1..(Len(h) - n) /\ n + ((m - n) + i) = m + i
        BY <1>1, <3>0, <3>1, <3>4
      <4>2. t[(m - n) + i] = h[n + ((m - n) + i)]
        BY <2>3, <4>1 DEF t
      <4> QED
        BY <3>2, <3>3, <4>1, <4>2
    <3> QED
      BY <3>2, <3>3, <3>4, <3>5, SeqEqual DEF r, w
  <2> QED
    BY <1>3, <2>5, <2>6 DEF h
<1> QED
  BY <1>5, <1>6

LEMMA RecentLength ==
  ASSUME LoginInv, NEW k \in Key, NEW m, Split(history[k], m),
         RecentOf(k) = SubSeq(history[k], m + 1, Len(history[k]))
  PROVE  /\ m \in 0..Len(history[k]) /\ Len(history[k]) \in Nat
         /\ Len(RecentOf(k)) = Len(history[k]) - m
         /\ RecentOf(k) \in Seq(0..now)
<1>1. /\ history[k] \in Seq(0..now) /\ Len(history[k]) \in Nat
      /\ m \in 0..Len(history[k]) /\ m \in Nat
  BY DEF Split, LoginInv, LoginTypeOK
<1> QED
  BY <1>1, EndIs

LEMMA EndOfLonger ==
  ASSUME NEW S, NEW h \in Seq(S), NEW m \in 0..Len(h), NEW x \in S
  PROVE  SubSeq(Append(h, x), m + 1, Len(h) + 1)
           = Append(SubSeq(h, m + 1, Len(h)), x)
<1> DEFINE g == Append(h, x)
           r == SubSeq(g, m + 1, Len(h) + 1)
           e == SubSeq(h, m + 1, Len(h))
           w == Append(e, x)
<1>1. /\ Len(h) \in Nat /\ m \in Nat /\ m <= Len(h)
      /\ g \in Seq(S) /\ Len(g) = Len(h) + 1
      /\ g[Len(h) + 1] = x /\ \A i \in 1..Len(h) : g[i] = h[i] /\ h[i] \in S
  OBVIOUS
<1>4. /\ r \in Seq(S) /\ Len(r) = (Len(h) + 1) - m
      /\ \A i \in 1..((Len(h) + 1) - m) : r[i] = g[m + i]
  <2> HIDE DEF g
  <2>1. m \in 0..Len(g)
    BY <1>1
  <2>2. /\ SubSeq(g, m + 1, Len(g)) \in Seq(S)
        /\ Len(SubSeq(g, m + 1, Len(g))) = Len(g) - m
        /\ \A i \in 1..(Len(g) - m) : SubSeq(g, m + 1, Len(g))[i] = g[m + i]
    BY <1>1, <2>1, EndIs
  <2> QED
    BY <1>1, <2>2
<1>5. /\ e \in Seq(S) /\ Len(e) = Len(h) - m
      /\ \A i \in 1..(Len(h) - m) : e[i] = h[m + i]
  BY EndIs
<1> HIDE DEF g, r, e
<1>6. /\ w \in Seq(S) /\ Len(w) = (Len(h) - m) + 1
      /\ \A i \in 1..(Len(h) - m) : w[i] = e[i]
      /\ w[(Len(h) - m) + 1] = x
  BY <1>5
<1> HIDE DEF w
<1>7. ASSUME NEW i \in 1..Len(r)
      PROVE  r[i] = w[i]
  <2>1. CASE i <= Len(h) - m
    <3>1. i \in 1..(Len(h) - m) /\ i \in 1..((Len(h) + 1) - m) /\ m + i \in 1..Len(h)
      BY <1>1, <2>1
    <3> QED
      BY <1>1, <1>4, <1>5, <1>6, <3>1
  <2>2. CASE i = (Len(h) - m) + 1
    <3>1. i \in 1..((Len(h) + 1) - m) /\ m + i = Len(h) + 1
      BY <1>1, <2>2
    <3> QED
      BY <1>1, <1>4, <1>6, <2>2, <3>1
  <2> QED
    BY <1>1, <1>4, <2>1, <2>2
<1>8. Len(r) = Len(w)
  BY <1>1, <1>4, <1>6
<1>9. r = w
  BY <1>4, <1>6, <1>7, <1>8, SeqEqual
<1> QED
  BY <1>9 DEF r, w, g, e

AtMostLimit(times) ==
  \A i \in 1..Len(times) :
    i + Limit <= Len(times) => times[i + Limit] >= times[i] + Window

(* One more login let in, where less than Limit were within the window.    *)
LEMMA OneMoreLogin ==
  ASSUME LoginInv, NEW h \in Seq(0..now), Ascending(h), AtMostLimit(h),
         NEW m, Split(h, m), Len(h) - m < Limit
  PROVE  Ascending(Append(h, now)) /\ AtMostLimit(Append(h, now))
<1> DEFINE g == Append(h, now)
<1>1. /\ now \in Nat /\ Window \in Nat /\ Limit \in Nat \ {0} /\ Len(h) \in Nat
      /\ m \in 0..Len(h) /\ \A i \in 1..m : h[i] + Window <= now
  BY LoginFacts DEF Split
<1>2. \A i \in 1..Len(h) : h[i] \in 0..now
  BY ElementOfSeq
<1>3. /\ g \in Seq(0..now) /\ Len(g) = Len(h) + 1 /\ g[Len(h) + 1] = now
      /\ \A i \in 1..Len(h) : g[i] = h[i]
  BY <1>1
<1> HIDE DEF g
<1>4. Ascending(g)
  <2> SUFFICES ASSUME NEW i \in 1..Len(g), NEW j \in 1..Len(g), i <= j
               PROVE  g[i] <= g[j]
    BY DEF Ascending
  <2>1. CASE j \in 1..Len(h)
    <3>1. i \in 1..Len(h)
      BY <1>1, <2>1
    <3> QED
      BY <1>3, <2>1, <3>1 DEF Ascending
  <2>2. CASE j = Len(h) + 1
    <3>1. g[i] \in 0..now
      BY <1>3, ElementOfSeq
    <3> QED
      BY <1>1, <1>3, <2>2, <3>1
  <2> QED
    BY <1>1, <1>3, <2>1, <2>2
<1>5. AtMostLimit(g)
  <2> SUFFICES ASSUME NEW i \in 1..Len(g), i + Limit <= Len(g)
               PROVE  g[i + Limit] >= g[i] + Window
    BY DEF AtMostLimit
  <2>0. i \in 1..Len(h)
    BY <1>1, <1>3
  <2>1. CASE i + Limit <= Len(h)
    <3>1. i + Limit \in 1..Len(h)
      BY <1>1, <2>1
    <3> QED
      BY <1>3, <2>0, <2>1, <3>1 DEF AtMostLimit
  <2>2. CASE i + Limit = Len(h) + 1
    <3>1. i \in 1..m
      BY <1>1, <2>0, <2>2
    <3>2. h[i] + Window <= now
      BY <1>1, <3>1
    <3>3. g[i + Limit] = now
      BY <1>3, <2>2
    <3>4. g[i] = h[i] /\ h[i] \in 0..now
      BY <1>2, <1>3, <2>0
    <3> QED
      BY <1>1, <3>2, <3>3, <3>4
  <2>3. i \in Nat /\ i + Limit <= Len(h) + 1
    BY <1>1, <1>3
  <2>4. Limit \in Nat /\ Len(h) \in Nat
    BY <1>1
  <2>5. i + Limit <= Len(h) \/ i + Limit = Len(h) + 1
    BY <2>3, <2>4
  <2> QED
    BY <2>1, <2>2, <2>5
<1> QED
  BY <1>4, <1>5 DEF g

(* As many logins within the window as the limit allows.                   *)
LEMMA WindowIsFull ==
  ASSUME LoginInv, NEW k \in Key, Exhausted(k)
  PROVE  Cardinality({i \in 1..Len(history[k]) : history[k][i] + Window > now})
           >= Limit
<1> DEFINE h == history[k]
           W == {i \in 1..Len(h) : h[i] + Window > now}
<1>1. PICK m : /\ Split(h, m)
               /\ RecentOf(k) = SubSeq(h, m + 1, Len(h))
  BY RecentOfKey
<1>2. /\ m \in 0..Len(h) /\ Len(h) \in Nat
      /\ Len(RecentOf(k)) = Len(h) - m /\ Limit \in Nat
  BY <1>1, RecentLength, LoginFacts
<1>3. (m + 1)..Len(h) \subseteq W
  BY <1>1, <1>2 DEF Split
<1>4. IsFiniteSet(1..Len(h))
  BY <1>2, FS_Interval
<1>5. IsFiniteSet(W) /\ Cardinality(W) \in Nat
  BY <1>4, FS_Subset, FS_CardinalityType
<1> HIDE DEF W
<1>6. /\ Cardinality((m + 1)..Len(h)) <= Cardinality(W)
      /\ Cardinality((m + 1)..Len(h))
           = IF m + 1 > Len(h) THEN 0 ELSE Len(h) - (m + 1) + 1
  <2>1. m + 1 \in Int /\ Len(h) \in Int
    BY <1>2
  <2>2. Cardinality((m + 1)..Len(h)) <= Cardinality(W)
    BY <1>3, <1>5, FS_Subset
  <2> QED
    BY <2>1, <2>2, FS_Interval
<1>7. Len(h) - m >= Limit
  BY <1>2 DEF Exhausted
<1>8. Cardinality(W) >= Limit
  BY <1>2, <1>5, <1>6, <1>7
<1> QED
  BY <1>8 DEF W

(* The limiter's work on a request keeps what holds of it, whichever key   *)
(* it forgets.                                                             *)
LEMMA AllowStep ==
  ASSUME LoginInv, NEW k \in Key, NEW gone, gone \subseteq Remembered \ {k},
         Allow(k, gone), now' = now,
         k \in Remembered \/ Cardinality(Remembered \ gone) < MaxKeys
  PROVE  /\ IsFiniteSet(Remembered') /\ Cardinality(Remembered') <= MaxKeys
         /\ Remembered' \subseteq Key
         /\ \A j \in Remembered' : hits'[j] \in Seq(0..now) /\ Len(hits'[j]) <= Limit
         /\ history' \in [Key -> Seq(0..now)]
         /\ \A j \in Key : KeyOK(j)' /\ AtMostLimit(history'[j])
         /\ Exhausted(k) => history'[k] = history[k]
<1> DEFINE kept == (Remembered \ gone) \cup {k}
           h == history[k]
           times == IF Exhausted(k) THEN RecentOf(k) ELSE Append(RecentOf(k), now)
           longer == IF Exhausted(k) THEN h ELSE Append(h, now)
<1>1. /\ now \in Nat /\ Window \in Nat /\ Limit \in Nat \ {0} /\ MaxKeys \in Nat \ {0}
      /\ IsFiniteSet(Remembered) /\ Remembered \subseteq Key
      /\ Cardinality(Remembered) <= MaxKeys
      /\ history \in [Key -> Seq(0..now)]
      /\ \A j \in Remembered : hits[j] \in Seq(0..now) /\ Len(hits[j]) <= Limit
      /\ \A j \in Key : KeyOK(j) /\ AtMostLimit(history[j])
  BY LoginFacts DEF LoginInv, LoginTypeOK, Remembered, LimitIsExact, AtMostLimit
<1>2. /\ hits' = [j \in kept |-> IF j = k THEN times ELSE hits[j]]
      /\ Remembered' = kept
  BY DEF Allow, Remembered
<1>3. history' = [j \in Key |-> CASE j \in gone -> <<>>
                                  [] j = k /\ ~Exhausted(k) -> Append(history[j], now)
                                  [] OTHER -> history[j]]
  BY DEF Allow
<1>4. \A j \in Key : /\ j \in gone => history'[j] = <<>>
                     /\ j = k => history'[j] = longer
                     /\ j \notin gone /\ j # k => history'[j] = history[j]
  BY <1>3
<1>a. /\ Exhausted(k) => times = RecentOf(k) /\ longer = h
      /\ ~Exhausted(k) => times = Append(RecentOf(k), now) /\ longer = Append(h, now)
  OBVIOUS
<1> HIDE DEF times, longer
<1>5. PICK m : /\ Split(h, m)
               /\ RecentOf(k) = SubSeq(h, m + 1, Len(h))
  BY RecentOfKey
<1>6. /\ m \in 0..Len(h) /\ Len(h) \in Nat
      /\ Len(RecentOf(k)) = Len(h) - m
      /\ RecentOf(k) \in Seq(0..now)
      /\ h \in Seq(0..now)
  BY <1>1, <1>5, RecentLength
<1>7. IsFiniteSet(kept) /\ Cardinality(kept) <= MaxKeys /\ kept \subseteq Key
  <2>1. CASE k \in Remembered
    <3>1. kept \subseteq Remembered
      BY <2>1
    <3>2. /\ IsFiniteSet(kept) /\ Cardinality(kept) <= Cardinality(Remembered)
          /\ Cardinality(kept) \in Nat /\ Cardinality(Remembered) \in Nat
      BY <1>1, <3>1, FS_Subset, FS_CardinalityType
    <3> QED
      BY <1>1, <3>2
  <2>2. CASE Cardinality(Remembered \ gone) < MaxKeys
    <3>1. IsFiniteSet(Remembered \ gone) /\ Cardinality(Remembered \ gone) \in Nat
      BY <1>1, FS_Subset, FS_CardinalityType
    <3>2. /\ IsFiniteSet(kept)
          /\ Cardinality(kept) = IF k \in Remembered \ gone THEN Cardinality(Remembered \ gone)
                                 ELSE Cardinality(Remembered \ gone) + 1
      BY <3>1, FS_AddElement
    <3> QED
      BY <1>1, <2>2, <3>1, <3>2
  <2> QED
    BY <2>1, <2>2
<1>8. times \in Seq(0..now) /\ Len(times) <= Limit
  <2>1. CASE ~Exhausted(k)
    <3>1. ~(Len(h) - m >= Limit) /\ Len(RecentOf(k)) \in Nat
      BY <1>6, <2>1 DEF Exhausted
    <3>2. times = Append(RecentOf(k), now) /\ now \in 0..now
      BY <1>1, <1>a, <2>1
    <3>3. times \in Seq(0..now) /\ Len(times) = Len(RecentOf(k)) + 1
      <4>1. RecentOf(k) \in Seq(0..now) /\ now \in 0..now
        BY <1>6, <3>2
      <4> QED
        BY ONLY <3>2, <4>1, AppendProperties
    <3> QED
      BY <1>1, <1>6, <3>1, <3>3
  <2>2. CASE Exhausted(k)
    <3>1. k \in Remembered
      <4>1. Len(RecentOf(k)) # 0
        BY <1>1, <2>2 DEF Exhausted
      <4> QED
        BY <4>1 DEF RecentOf
    <3>2. Len(hits[k]) <= Limit
      BY <1>1, <3>1
    <3>3. PICK n \in 0..Len(h) : /\ hits[k] = SubSeq(h, n + 1, Len(h))
                                 /\ \A i \in 1..n : h[i] + Window <= now
      BY <1>1, <3>1 DEF KeyOK
    <3>4. n <= m
      <4> SUFFICES ASSUME n > m PROVE FALSE
        BY <1>6
      <4>1. n \in 1..n /\ n \in (m + 1)..Len(h) /\ n \in 1..Len(h)
        BY <1>6
      <4>2. h[n] \in 0..now
        BY <1>6, <4>1, ElementOfSeq
      <4> QED
        BY <1>1, <1>5, <3>3, <4>1, <4>2 DEF Split
    <3>5. Len(hits[k]) = Len(h) - n
      BY <1>6, <3>3, EndIs
    <3> QED
      BY <1>1, <1>6, <1>a, <2>2, <3>2, <3>4, <3>5
  <2> QED
    BY <2>1, <2>2
<1>9. /\ longer \in Seq(0..now) /\ Ascending(longer) /\ AtMostLimit(longer)
      /\ times = SubSeq(longer, m + 1, Len(longer))
      /\ m \in 0..Len(longer) /\ \A i \in 1..m : longer[i] + Window <= now
  <2>0. Ascending(h) /\ AtMostLimit(h) /\ \A i \in 1..m : h[i] + Window <= now
    BY <1>1, <1>5 DEF KeyOK, Split
  <2>1. CASE Exhausted(k)
    BY <1>5, <1>6, <1>a, <2>0, <2>1
  <2>2. CASE ~Exhausted(k)
    <3>1. Len(h) - m < Limit
      BY <1>1, <1>6, <2>2 DEF Exhausted
    <3>2. longer = Append(h, now) /\ now \in 0..now /\ times = Append(RecentOf(k), now)
      BY <1>1, <1>a, <2>2
    <3>3. Ascending(longer) /\ AtMostLimit(longer)
      BY <1>5, <1>6, <2>0, <3>1, <3>2, OneMoreLogin
    <3>4. /\ longer \in Seq(0..now) /\ Len(longer) = Len(h) + 1
          /\ \A i \in 1..Len(h) : longer[i] = h[i]
      BY <1>6, <3>2
    <3>5. times = SubSeq(longer, m + 1, Len(longer))
      <4>1. SubSeq(Append(h, now), m + 1, Len(h) + 1)
              = Append(SubSeq(h, m + 1, Len(h)), now)
        BY <1>6, <3>2, EndOfLonger
      <4> QED
        BY <1>5, <3>2, <3>4, <4>1
    <3>6. m \in 0..Len(longer) /\ \A i \in 1..m : longer[i] = h[i]
      BY <1>6, <3>4
    <3> QED
      BY <2>0, <3>3, <3>4, <3>5, <3>6
  <2> QED
    BY <2>1, <2>2
<1> HIDE DEF kept
<1>10. \A j \in Remembered' : hits'[j] \in Seq(0..now) /\ Len(hits'[j]) <= Limit
  BY <1>1, <1>2, <1>8 DEF kept
<1>11. history' \in [Key -> Seq(0..now)]
  <2>1. ASSUME NEW j \in Key
        PROVE  history'[j] \in Seq(0..now)
    <3>1. CASE j \in gone
      BY <1>4, <3>1, EmptySeq
    <3>2. CASE j = k
      BY <1>4, <1>9, <3>2
    <3>3. CASE j \notin gone /\ j # k
      BY <1>1, <1>4, <3>3
    <3> QED
      BY <3>1, <3>2, <3>3
  <2>2. history' = [j \in Key |-> history'[j]]
    BY <1>3
  <2> QED
    BY <2>1, <2>2
<1>12. ASSUME NEW j \in Key
       PROVE  KeyOK(j)' /\ AtMostLimit(history'[j])
  <2>1. CASE j \in gone
    <3>1. history'[j] = <<>> /\ j \notin Remembered'
      BY <1>2, <1>4, <2>1 DEF kept
    <3> QED
      BY <3>1 DEF KeyOK, Ascending, AtMostLimit
  <2>2. CASE j = k
    <3>1. history'[j] = longer /\ j \in Remembered' /\ hits'[j] = times
      BY <1>2, <1>4, <2>2 DEF kept
    <3> QED
      BY <1>9, <3>1 DEF KeyOK, Ascending
  <2>3. CASE j \notin gone /\ j # k
    <3>1. /\ history'[j] = history[j]
          /\ j \in Remembered' <=> j \in Remembered
          /\ j \in Remembered => hits'[j] = hits[j]
      BY <1>2, <1>4, <2>3 DEF kept
    <3> QED
      BY <1>1, <3>1 DEF KeyOK, Ascending
  <2> QED
    BY <2>1, <2>2, <2>3
<1> QED
  BY <1>2, <1>4, <1>7, <1>10, <1>11, <1>12 DEF longer

LEMMA LoginStep == LoginInv /\ [LoginNext]_loginVars => LoginInv'
<1> SUFFICES ASSUME LoginInv, [LoginNext]_loginVars
             PROVE  LoginInv'
  OBVIOUS
<1>t. /\ LoginTypeOK /\ IsFiniteSet(Remembered) /\ LimitIsExact
      /\ \A k \in Key : KeyOK(k)
  BY DEF LoginInv
<1>1. ASSUME NEW k \in Key, LoginMalformed(k)
      PROVE  LoginInv'
  <2>1. /\ UNCHANGED <<now, hits, history>>
        /\ login' = [key |-> k, at |-> now, result |-> "malformed"]
    BY <1>1 DEF LoginMalformed, Logged
  <2>2. LoginTypeOK'
    BY <1>t, <2>1 DEF LoginTypeOK, Result
  <2>3. LimitIsExact'
    BY <1>t, <2>1 DEF LimitIsExact
  <2>4. \A j \in Key : KeyOK(j)'
    BY <1>t, <2>1 DEF KeyOK, Remembered
  <2> QED
    BY <1>t, <2>1, <2>2, <2>3, <2>4 DEF LoginInv, Remembered
<1>2. ASSUME NEW k \in Key, Login(k)
      PROVE  LoginInv'
  <2>1. PICK gone : /\ gone \subseteq Remembered \ {k} /\ Allow(k, gone)
                    /\ \/ k \in Remembered
                       \/ Cardinality(Remembered \ gone) < MaxKeys
    <3>1. CASE Room(k) /\ Allow(k, {})
      <4>1. Remembered \ {} = Remembered /\ {} \subseteq Remembered \ {k}
        OBVIOUS
      <4> QED
        BY <3>1, <4>1 DEF Room
    <3>2. ASSUME ~Room(k), NEW j \in Forgettable, Allow(k, {j})
          PROVE  /\ {j} \subseteq Remembered \ {k}
                 /\ Cardinality(Remembered \ {j}) < MaxKeys
      <4>1. j \in Remembered /\ k \notin Remembered
        BY <3>2 DEF Forgettable, Room
      <4>2. /\ Cardinality(Remembered \ {j}) = Cardinality(Remembered) - 1
            /\ Cardinality(Remembered) \in Nat
        BY <1>t, <4>1, FS_RemoveElement, FS_CardinalityType
      <4>3. Cardinality(Remembered) <= MaxKeys /\ MaxKeys \in Nat
        BY <1>t, LoginFacts DEF LoginTypeOK, Remembered
      <4> QED
        BY <4>1, <4>2, <4>3
    <3> QED
      BY <1>2, <3>1, <3>2 DEF Login
  <2>2. now' = now
    BY <1>2 DEF Login
  <2>3. /\ IsFiniteSet(Remembered') /\ Cardinality(Remembered') <= MaxKeys
        /\ Remembered' \subseteq Key
        /\ \A j \in Remembered' : hits'[j] \in Seq(0..now) /\ Len(hits'[j]) <= Limit
        /\ history' \in [Key -> Seq(0..now)]
        /\ \A j \in Key : KeyOK(j)' /\ AtMostLimit(history'[j])
        /\ Exhausted(k) => history'[k] = history[k]
    BY <2>1, <2>2, AllowStep
  <2>4. PICK result \in {"too_many", "invalid", "token"} :
          /\ login' = [key |-> k, at |-> now, result |-> result]
          /\ result = "too_many" => Exhausted(k)
    BY <1>2 DEF Login, Logged
  <2>5. LoginTypeOK'
    <3>1. now \in 0..now /\ now \in Nat
      BY <1>t DEF LoginTypeOK
    <3> QED
      BY <2>2, <2>3, <2>4, <3>1 DEF LoginTypeOK, Result, Remembered
  <2>6. LimitIsExact'
    <3>1. ASSUME login'.result = "too_many"
          PROVE  Cardinality({i \in 1..Len(history'[login'.key]) :
                               history'[login'.key][i] + Window > login'.at}) >= Limit
      <4>1. Exhausted(k) /\ login'.key = k /\ login'.at = now
        BY <2>4, <3>1
      <4>2. history'[k] = history[k]
        BY <2>3, <4>1
      <4> QED
        BY <4>1, <4>2, WindowIsFull
    <3> QED
      BY <2>3, <3>1 DEF LimitIsExact, AtMostLimit
  <2> QED
    BY <2>3, <2>5, <2>6 DEF LoginInv
<1>3. CASE LoginTick
  <2>1. /\ UNCHANGED <<hits, login, history>> /\ now \in Nat /\ now' = now + 1
        /\ Window \in Nat
    BY <1>3, <1>t, LoginAssumption DEF LoginTick, LoginTypeOK
  <2>2. 0..now \subseteq 0..now'
    BY <2>1
  <2>3. \A s \in Seq(0..now) : s \in Seq(0..now')
    BY <2>2, SeqMonotonic
  <2>4. LoginTypeOK'
    <3>1. \A k \in DOMAIN hits' : hits'[k] \in Seq(0..now') /\ Len(hits'[k]) <= Limit
      BY <1>t, <2>1, <2>3 DEF LoginTypeOK
    <3>2. login' \in [key : Key, at : 0..now', result : Result]
      BY <1>t, <2>1, <2>2 DEF LoginTypeOK
    <3>3. history' \in [Key -> Seq(0..now')]
      BY <1>t, <2>1, <2>3 DEF LoginTypeOK
    <3> QED
      BY <1>t, <2>1, <3>1, <3>2, <3>3 DEF LoginTypeOK
  <2>5. ASSUME NEW k \in Key
        PROVE  KeyOK(k)'
    <3>0. KeyOK(k) /\ UNCHANGED Remembered
      BY <1>t, <2>1 DEF Remembered
    <3>1. CASE k \notin Remembered
      BY <2>1, <3>0, <3>1 DEF KeyOK, Ascending
    <3>2. CASE k \in Remembered
      <4>1. PICK n \in 0..Len(history[k]) :
              /\ hits[k] = SubSeq(history[k], n + 1, Len(history[k]))
              /\ \A i \in 1..n : history[k][i] + Window <= now
        BY <3>0, <3>2 DEF KeyOK
      <4>2. history[k] \in Seq(0..now) /\ Len(history[k]) \in Nat
        BY <1>t DEF LoginTypeOK
      <4>3. \A i \in 1..n : history[k][i] + Window <= now'
        <5> SUFFICES ASSUME NEW i \in 1..n PROVE history[k][i] + Window <= now'
          OBVIOUS
        <5>1. i \in 1..Len(history[k])
          BY <4>1, <4>2
        <5>2. history[k][i] \in 0..now
          BY <4>2, <5>1, ElementOfSeq
        <5> QED
          BY <2>1, <4>1, <5>2
      <4> QED
        BY <2>1, <3>0, <3>2, <4>1, <4>3 DEF KeyOK, Ascending
    <3> QED
      BY <3>1, <3>2
  <2>6. LimitIsExact'
    BY <1>t, <2>1 DEF LimitIsExact
  <2> QED
    BY <1>t, <2>1, <2>4, <2>5, <2>6 DEF LoginInv, Remembered
<1>4. CASE UNCHANGED loginVars
  <2>1. UNCHANGED <<now, hits, login, history>>
    BY <1>4 DEF loginVars
  <2>2. LoginTypeOK'
    BY <1>t, <2>1 DEF LoginTypeOK
  <2>3. LimitIsExact'
    BY <1>t, <2>1 DEF LimitIsExact
  <2>4. \A j \in Key : KeyOK(j)'
    BY <1>t, <2>1 DEF KeyOK, Remembered
  <2> QED
    BY <1>t, <2>1, <2>2, <2>3, <2>4 DEF LoginInv, Remembered
<1> QED
  BY <1>1, <1>2, <1>3, <1>4 DEF LoginNext

(* The inductive invariant of the limiter holds of every behaviour.        *)
THEOREM LoginInductive == LoginSpec => []LoginInv
<1> QED
  BY LoginInitial, LoginStep, PTL DEF LoginSpec

(* As long as a key is remembered the limit holds in every window, and a   *)
(* client is turned away only where it is used up.                         *)
THEOREM LoginsAreLimited == LoginSpec => []LimitIsExact
<1>1. LoginInv => LimitIsExact
  BY DEF LoginInv
<1> QED
  BY LoginInductive, <1>1, PTL

-----------------------------------------------------------------------------
(* Grading.                                                                *)

LEMMA NormalIsWord ==
  ASSUME NEW s \in Scalar
  PROVE  Normal(s) \in Word \cup {Nil}
<1>1. CASE s \in String
  BY <1>1, GradingAssumption DEF String, Normal
<1>2. CASE s \in [kind : {"literal"}, value : Literal]
  BY <1>2, GradingAssumption DEF Normal
<1>3. CASE s = Null
  BY <1>3 DEF Null, Normal
<1> QED
  BY <1>1, <1>2, <1>3 DEF Scalar

(* Strings mean the same when they are printed the same.                   *)
LEMMA StringsMean ==
  ASSUME NEW s \in String, NEW t \in String
  PROVE  Means(s, t) <=> Normal(s) = Normal(t)
  BY DEF String, Means, Meaning, Normal

(* Other scalars do where they can be compared.                            *)
LEMMA ScalarsMean ==
  ASSUME NEW s \in Scalar, NEW t \in Scalar, Comparable(s, t)
  PROVE  Means(s, t) <=> Normal(s) = Normal(t)
<1> DEFINE Literals == [kind : {"literal"}, value : Literal]
<1>1. CASE s = Null \/ t = Null
  <2>1. ~Means(s, t)
    BY <1>1 DEF Null, Means
  <2>2. Normal(Null) = Nil
    BY DEF Null, Normal
  <2> QED
    BY <1>1, <2>1, <2>2 DEF Comparable
<1>2. CASE s \in String /\ t \in String
  BY <1>2, StringsMean
<1>3. CASE s \in Literals /\ t \in Literals
  <2>1. /\ Means(s, t) <=> Written[s.value] = Written[t.value]
        /\ Normal(s) = Sprinted[s.value] /\ Normal(t) = Sprinted[t.value]
        /\ s.value \in Literal /\ t.value \in Literal
    BY <1>3 DEF Means, Meaning, Normal
  <2> QED
    BY <2>1, GradingAssumption
<1>4. ASSUME NEW a \in String, NEW b \in Literals, {a, b} = {s, t}
      PROVE  Means(s, t) <=> Normal(s) = Normal(t)
  <2>1. a.kind = "string" /\ b.kind = "literal"
    BY DEF String
  <2>2. ~PrintsOddly(b)
    BY <1>4, <2>1 DEF Comparable
  <2>3. Meaning(a) = Normal(a) /\ Meaning(b) = Normal(b)
    BY <2>1, <2>2 DEF Meaning, Normal, PrintsOddly
  <2>4. Means(s, t) <=> Meaning(s) = Meaning(t)
    BY <1>4, <2>1 DEF Means
  <2> QED
    BY <1>4, <2>3, <2>4
<1> QED
  BY <1>1, <1>2, <1>3, <1>4 DEF Scalar

LEMMA AnswerDocument ==
  ASSUME NEW type, type \in Single \cup {"short_answer", "essay"},
         NEW doc \in Documents(type)
  PROVE  doc.answer \in Scalar /\ doc.pairs = {}
<1>1. PICK s \in Scalar : doc = [Blank EXCEPT !.answer = s]
  <2>1. type \notin Listing /\ type # "matching"
    BY DEF Single, Listing
  <2>2. Documents(type) = {[Blank EXCEPT !.answer = s] : s \in Scalar}
    BY <2>1, Zenon DEF Documents
  <2> HIDE DEF Documents, Blank
  <2> QED
    BY <2>2
<1> QED
  BY <1>1 DEF Blank

LEMMA ListDocument ==
  ASSUME NEW type \in Listing, NEW doc \in Documents(type)
  PROVE  Entries(doc) \in Seq(Scalar) /\ doc.pairs = {}
<1>1. ASSUME NEW l \in Lists PROVE l \in Seq(Scalar)
  <2>1. PICK n \in 0..MaxList : l \in [1..n -> IF n > MaxMixed THEN String ELSE Scalar]
    BY <1>1 DEF Lists
  <2>2. l \in [1..n -> Scalar]
    BY <2>1 DEF Scalar
  <2> QED
    BY <2>1, <2>2, GradingAssumption
<1>2. type \notin Single \cup {"short_answer", "essay"} /\ type # "matching"
  BY DEF Single, Listing
<1>3. PICK l \in Lists : \/ doc = [Blank EXCEPT !.answers = l]
                         \/ doc = [Blank EXCEPT !.order = l]
  <2>1. Documents(type) = {[Blank EXCEPT !.answers = l] : l \in Lists}
                            \cup {[Blank EXCEPT !.order = l] : l \in Lists}
    BY <1>2, Zenon DEF Documents
  <2> HIDE DEF Documents, Blank, Lists
  <2> QED
    BY <2>1
<1>4. \/ doc = [answer |-> Null, answers |-> l, order |-> <<>>, pairs |-> {}]
      \/ doc = [answer |-> Null, answers |-> <<>>, order |-> l, pairs |-> {}]
  BY <1>3 DEF Blank
<1>5. <<>> \in Seq(Scalar)
  BY EmptySeq
<1> QED
  BY <1>1, <1>4, <1>5 DEF Entries

LEMMA PairsDocument ==
  ASSUME NEW doc \in Documents("matching")
  PROVE  \A p \in doc.pairs : p[1] \in String /\ p[2] \in Scalar
<1>1. "matching" \notin Single \cup {"short_answer", "essay"} /\ "matching" \notin Listing
  BY DEF Single, Listing
<1>2. PICK ps \in Pairings : doc = [Blank EXCEPT !.pairs = ps]
  <2>1. Documents("matching") = {[Blank EXCEPT !.pairs = qs] : qs \in Pairings}
    BY <1>1, Zenon DEF Documents
  <2> HIDE DEF Documents, Pairings, Blank
  <2> QED
    BY <2>1
<1>3. doc.pairs = ps
  BY <1>2 DEF Blank
<1>4. PICK names \in {ss \in SUBSET String : Cardinality(ss) <= MaxPairs} :
        ps \in {{<<s, f[s]>> : s \in names} : f \in [names -> Scalar]}
  BY Zenon DEF Pairings
<1>5. PICK f \in [names -> Scalar] : ps = {<<s, f[s]>> : s \in names}
  BY <1>4
<1>6. ASSUME NEW p \in ps PROVE p[1] \in String /\ p[2] \in Scalar
  <2>1. PICK s \in names : p = <<s, f[s]>>
    BY <1>5, <1>6
  <2>2. s \in String /\ f[s] \in Scalar
    BY <1>4, <1>5, <2>1
  <2> QED
    BY <2>1, <2>2
<1> QED
  BY <1>3, <1>6

LEMMA EntriesAreListed ==
  ASSUME NEW doc
  PROVE  Listed(doc) = Words(Entries(doc))
  BY DEF Listed, Entries

LEMMA WordsFacts ==
  ASSUME NEW l \in Seq(Scalar)
  PROVE  /\ Len(l) \in Nat /\ DOMAIN l = 1..Len(l)
         /\ Words(l) \in Seq(Word \cup {Nil}) /\ Len(Words(l)) = Len(l)
         /\ DOMAIN Words(l) = 1..Len(l)
         /\ \A i \in 1..Len(l) : l[i] \in Scalar /\ Words(l)[i] = Normal(l[i])
<1>1. Len(l) \in Nat /\ DOMAIN l = 1..Len(l) /\ \A i \in 1..Len(l) : l[i] \in Scalar
  BY LenProperties, ElementOfSeq
<1>2. Words(l) = [i \in 1..Len(l) |-> Normal(l[i])]
  BY <1>1 DEF Words
<1>3. \A i \in 1..Len(l) : Normal(l[i]) \in Word \cup {Nil}
  BY <1>1, NormalIsWord
<1>4. Words(l) \in [1..Len(l) -> Word \cup {Nil}]
  BY <1>2, <1>3
<1>5. Words(l) \in Seq(Word \cup {Nil}) /\ Len(Words(l)) = Len(l)
  BY <1>1, <1>2, <1>4
<1> QED
  BY <1>1, <1>2, <1>5

(* Lists of which each entry of the one can be compared with each of the   *)
(* other.                                                                  *)
ComparableLists(l, m) ==
  \A s \in {l[i] : i \in DOMAIN l}, t \in {m[i] : i \in DOMAIN m} : Comparable(s, t)

LEMMA EntriesMean ==
  ASSUME NEW l \in Seq(Scalar), NEW m \in Seq(Scalar), ComparableLists(l, m),
         NEW i \in 1..Len(l), NEW j \in 1..Len(m)
  PROVE  Means(m[j], l[i]) <=> Normal(m[j]) = Normal(l[i])
<1>1. l[i] \in Scalar /\ m[j] \in Scalar /\ i \in DOMAIN l /\ j \in DOMAIN m
  BY LenProperties, ElementOfSeq
<1>2. Comparable(l[i], m[j])
  BY <1>1 DEF ComparableLists
<1>3. Means(l[i], m[j]) <=> Normal(l[i]) = Normal(m[j])
  BY <1>1, <1>2, ScalarsMean
<1> QED
  BY <1>3 DEF Means

(* Scalars in the same order, compared by their words.                     *)
LEMMA OrderingGraded ==
  ASSUME NEW l \in Seq(Scalar), NEW m \in Seq(Scalar), ComparableLists(l, m)
  PROVE  Words(l) = Words(m) <=> AllMean(m, l)
<1>1. /\ Len(l) \in Nat /\ Len(m) \in Nat
      /\ DOMAIN m = 1..Len(m)
      /\ Words(l) \in Seq(Word \cup {Nil}) /\ Len(Words(l)) = Len(l)
      /\ Words(m) \in Seq(Word \cup {Nil}) /\ Len(Words(m)) = Len(m)
      /\ \A i \in 1..Len(l) : l[i] \in Scalar /\ Words(l)[i] = Normal(l[i])
      /\ \A i \in 1..Len(m) : m[i] \in Scalar /\ Words(m)[i] = Normal(m[i])
  BY WordsFacts
<1>2. ASSUME Words(l) = Words(m) PROVE AllMean(m, l)
  BY <1>1, <1>2, EntriesMean DEF AllMean
<1>3. ASSUME AllMean(m, l) PROVE Words(l) = Words(m)
  <2>1. Len(m) = Len(l) /\ \A i \in 1..Len(l) : Words(l)[i] = Words(m)[i]
    BY <1>1, <1>3, EntriesMean DEF AllMean
  <2> QED
    BY <1>1, <2>1, SeqEqual
<1> QED
  BY <1>2, <1>3

(* Where no two names read alike, normalizedMap has but one outcome.       *)
LEMMA NormalizedIs ==
  ASSUME NEW ps, \A p, q \in ps : Normal(p[1]) = Normal(q[1]) => p = q,
         NEW f \in Normalized(ps)
  PROVE  /\ f \in [{Normal(p[1]) : p \in ps} -> {Normal(p[2]) : p \in ps}]
         /\ \A p \in ps : f[Normal(p[1])] = Normal(p[2])
<1>1. /\ f \in [{Normal(p[1]) : p \in ps} -> {Normal(p[2]) : p \in ps}]
      /\ \A n \in {Normal(p[1]) : p \in ps} :
           \E p \in ps : Normal(p[1]) = n /\ Normal(p[2]) = f[n]
  BY DEF Normalized
<1> QED
  BY <1>1

LEMMA MatchingGraded ==
  ASSUME NEW ks, NEW ds,
         \A p \in ks : p[1] \in String /\ p[2] \in Scalar,
         \A p \in ds : p[1] \in String /\ p[2] \in Scalar,
         \A p \in ks, q \in ds : Comparable(p[2], q[2]),
         \A p, q \in ks : Normal(p[1]) = Normal(q[1]) => p = q,
         \A p, q \in ds : Normal(p[1]) = Normal(q[1]) => p = q,
         NEW f \in Normalized(ks), NEW g \in Normalized(ds)
  PROVE  f = g <=> PairsIn(ks, ds) /\ PairsIn(ds, ks)
<1>a. /\ f \in Normalized(ks) /\ \A p, q \in ks : Normal(p[1]) = Normal(q[1]) => p = q
      /\ g \in Normalized(ds) /\ \A p, q \in ds : Normal(p[1]) = Normal(q[1]) => p = q
  OBVIOUS
<1>1. /\ f \in [{Normal(p[1]) : p \in ks} -> {Normal(p[2]) : p \in ks}]
      /\ \A p \in ks : f[Normal(p[1])] = Normal(p[2])
  BY ONLY <1>a, NormalizedIs
<1>2. /\ g \in [{Normal(p[1]) : p \in ds} -> {Normal(p[2]) : p \in ds}]
      /\ \A p \in ds : g[Normal(p[1])] = Normal(p[2])
  BY ONLY <1>a, NormalizedIs
<1>3. ASSUME NEW p \in ks, NEW q \in ds
      PROVE  /\ Means(p[1], q[1]) <=> Normal(p[1]) = Normal(q[1])
             /\ Means(p[2], q[2]) <=> Normal(p[2]) = Normal(q[2])
             /\ Means(q[1], p[1]) <=> Normal(p[1]) = Normal(q[1])
             /\ Means(q[2], p[2]) <=> Normal(p[2]) = Normal(q[2])
  <2>1. /\ Means(p[1], q[1]) <=> Normal(p[1]) = Normal(q[1])
        /\ Means(p[2], q[2]) <=> Normal(p[2]) = Normal(q[2])
    BY StringsMean, ScalarsMean
  <2> QED
    BY <2>1 DEF Means
<1>4. ASSUME f = g PROVE PairsIn(ks, ds) /\ PairsIn(ds, ks)
  <2>1. {Normal(p[1]) : p \in ks} = {Normal(p[1]) : p \in ds}
    BY <1>1, <1>2, <1>4
  <2>2. ASSUME NEW p \in ks
        PROVE  \E q \in ds : Means(p[1], q[1]) /\ Means(p[2], q[2])
    <3>1. PICK q \in ds : Normal(q[1]) = Normal(p[1])
      BY <2>1
    <3>2. Normal(q[2]) = Normal(p[2])
      BY <1>1, <1>2, <1>4, <3>1
    <3> QED
      BY <1>3, <3>1, <3>2
  <2>3. ASSUME NEW p \in ds
        PROVE  \E q \in ks : Means(p[1], q[1]) /\ Means(p[2], q[2])
    <3>1. PICK q \in ks : Normal(q[1]) = Normal(p[1])
      BY <2>1
    <3>2. Normal(q[2]) = Normal(p[2])
      BY <1>1, <1>2, <1>4, <3>1
    <3> QED
      BY <1>3, <3>1, <3>2
  <2> QED
    BY <2>2, <2>3 DEF PairsIn
<1>5. ASSUME PairsIn(ks, ds), PairsIn(ds, ks) PROVE f = g
  <2>1. \A p \in ks : \E q \in ds : Normal(p[1]) = Normal(q[1]) /\ Normal(p[2]) = Normal(q[2])
    BY <1>3, <1>5 DEF PairsIn
  <2>2. \A p \in ds : \E q \in ks : Normal(p[1]) = Normal(q[1]) /\ Normal(p[2]) = Normal(q[2])
    BY <1>3, <1>5 DEF PairsIn
  <2>3. {Normal(p[1]) : p \in ks} = {Normal(p[1]) : p \in ds}
    BY <2>1, <2>2
  <2>4. \A n \in {Normal(p[1]) : p \in ks} : f[n] = g[n]
    BY <1>1, <1>2, <2>1
  <2> DEFINE D == {Normal(p[1]) : p \in ks}
  <2>5. f = [n \in D |-> f[n]] /\ g = [n \in D |-> g[n]]
    BY <1>1, <1>2, <2>3
  <2> HIDE DEF D
  <2>6. \A n \in D : f[n] = g[n]
    BY <2>4 DEF D
  <2> QED
    BY ONLY <2>5, <2>6
<1> QED
  BY <1>4, <1>5

(* What normalizedMap returns is what it returns for one of the readings.  *)
LEMMA ReadingOf ==
  ASSUME NEW ps, \A p \in ps : p[1] \in String, NEW f \in Normalized(ps)
  PROVE  \E rs \in OneOfEach(ps) :
           /\ f \in Normalized(rs)
           /\ \A p, q \in rs : Normal(p[1]) = Normal(q[1]) => p = q
<1> DEFINE names == {Normal(p[1]) : p \in ps}
           pair(n) == CHOOSE p \in ps : Normal(p[1]) = n /\ Normal(p[2]) = f[n]
           rs == {pair(n) : n \in names}
<1>1. /\ f \in [names -> {Normal(p[2]) : p \in ps}]
      /\ \A n \in names : \E p \in ps : Normal(p[1]) = n /\ Normal(p[2]) = f[n]
  BY DEF Normalized
<1>2. \A n \in names :
        pair(n) \in ps /\ Normal(pair(n)[1]) = n /\ Normal(pair(n)[2]) = f[n]
  BY <1>1
<1> HIDE DEF pair
<1>3. rs \subseteq ps
  BY <1>2
<1>4. \A p \in rs : Normal(p[1]) \in names /\ p = pair(Normal(p[1]))
  BY <1>2
<1>5. \A p, q \in rs : Normal(p[1]) = Normal(q[1]) => p = q
  BY <1>4
<1>6. \A p \in ps : pair(Normal(p[1])) \in rs
  OBVIOUS
<1>7. \A p, q \in ps : Means(p[1], q[1]) <=> Normal(p[1]) = Normal(q[1])
  BY StringsMean
<1>8. rs \in OneOfEach(ps)
  <2>1. ASSUME NEW p \in ps PROVE \E r \in rs : Means(p[1], r[1])
    <3>1. /\ pair(Normal(p[1])) \in rs /\ pair(Normal(p[1])) \in ps
          /\ Normal(pair(Normal(p[1]))[1]) = Normal(p[1])
      BY <1>2, <1>6
    <3> QED
      BY <1>7, <3>1
  <2>2. \A q, r \in rs : Means(q[1], r[1]) => q = r
    BY <1>3, <1>5, <1>7
  <2> QED
    BY <1>3, <2>1, <2>2 DEF OneOfEach
<1>9. f \in Normalized(rs)
  <2>1. {Normal(p[1]) : p \in rs} = names
    BY <1>2, <1>4
  <2>2. \A n \in names : \E p \in rs : Normal(p[1]) = n /\ Normal(p[2]) = f[n]
    BY <1>2
  <2>3. \A n \in names : f[n] \in {Normal(p[2]) : p \in rs}
    BY <2>2
  <2>4. f \in [names -> {Normal(p[2]) : p \in rs}]
    BY <1>1, <2>3
  <2> HIDE DEF rs, names
  <2> QED
    BY <2>1, <2>2, <2>4 DEF Normalized
<1> QED
  BY <1>5, <1>8, <1>9

(* The places of a word in a list.                                         *)
Places(l, w) == {i \in 1..Len(l) : Normal(l[i]) = w}

LEMMA PlacesFinite ==
  ASSUME NEW l \in Seq(Scalar), NEW w
  PROVE  IsFiniteSet(Places(l, w)) /\ Places(l, w) \subseteq 1..Len(l)
<1>1. Len(l) \in Int /\ 1 \in Int
  BY LenProperties
<1>2. IsFiniteSet(1..Len(l))
  BY <1>1, FS_Interval
<1>3. Places(l, w) \subseteq 1..Len(l)
  BY DEF Places
<1> QED
  BY <1>2, <1>3, FS_Subset

(* SameBag, in terms of places.                                            *)
LEMMA BagsOfWords ==
  ASSUME NEW l \in Seq(Scalar), NEW m \in Seq(Scalar)
  PROVE  SameBag(Words(l), Words(m)) <=>
           /\ Len(l) = Len(m)
           /\ \A w \in {Normal(l[i]) : i \in 1..Len(l)} \cup {Normal(m[i]) : i \in 1..Len(m)} :
                Cardinality(Places(l, w)) = Cardinality(Places(m, w))
<1>1. /\ Len(Words(l)) = Len(l) /\ DOMAIN Words(l) = 1..Len(l)
      /\ \A i \in 1..Len(l) : Words(l)[i] = Normal(l[i])
  BY WordsFacts
<1>2. /\ Len(Words(m)) = Len(m) /\ DOMAIN Words(m) = 1..Len(m)
      /\ \A i \in 1..Len(m) : Words(m)[i] = Normal(m[i])
  BY WordsFacts
<1>3. \A w : /\ {i \in DOMAIN Words(l) : Words(l)[i] = w} = Places(l, w)
             /\ {i \in DOMAIN Words(m) : Words(m)[i] = w} = Places(m, w)
  BY <1>1, <1>2 DEF Places
<1>4. /\ {Words(l)[i] : i \in DOMAIN Words(l)} = {Normal(l[i]) : i \in 1..Len(l)}
      /\ {Words(m)[i] : i \in DOMAIN Words(m)} = {Normal(m[i]) : i \in 1..Len(m)}
  BY <1>1, <1>2
<1> QED
  BY <1>1, <1>2, <1>3, <1>4 DEF SameBag

(* A choice of places of m for those of l, each with the same word.        *)
Matches(l, m, g) ==
  /\ g \in [1..Len(l) -> 1..Len(l)]
  /\ \A i, j \in 1..Len(l) : g[i] = g[j] => i = j
  /\ \A i \in 1..Len(l) : Normal(m[g[i]]) = Normal(l[i])

LEMMA ReorderingsMatch ==
  ASSUME NEW l \in Seq(Scalar), NEW m \in Seq(Scalar), ComparableLists(l, m)
  PROVE  (\E r \in Reorderings(m) : AllMean(r, l))
           <=> Len(l) = Len(m) /\ \E g : Matches(l, m, g)
<1> DEFINE D == 1..Len(m)
           G == {g \in [D -> D] : \A i, j \in D : g[i] = g[j] => i = j}
           Reordered(g) == [i \in D |-> m[g[i]]]
<1>1. /\ Len(l) \in Nat /\ Len(m) \in Nat /\ DOMAIN m = D
      /\ \A i \in 1..Len(l) : l[i] \in Scalar
      /\ \A i \in D : m[i] \in Scalar
  BY WordsFacts
<1>a. \A i \in 1..Len(l), j \in D : Means(m[j], l[i]) <=> Normal(m[j]) = Normal(l[i])
  BY EntriesMean
<1>2. Reorderings(m) = {Reordered(g) : g \in G}
  BY <1>1 DEF Reorderings
<1>3. ASSUME NEW g \in G
      PROVE  /\ Len(Reordered(g)) = Len(m) /\ DOMAIN Reordered(g) = D
             /\ \A i \in D : /\ Reordered(g)[i] = m[g[i]]
                             /\ m[g[i]] \in Scalar
  <2>1. \A i \in D : m[g[i]] \in Scalar
    BY <1>1
  <2>2. Reordered(g) \in [1..Len(m) -> Scalar]
    BY <2>1
  <2>3. Len(Reordered(g)) = Len(m)
    BY <1>1, <2>2
  <2> QED
    BY <2>1, <2>3
<1> HIDE DEF Reordered
<1>4. ASSUME NEW r \in Reorderings(m), AllMean(r, l)
      PROVE  Len(l) = Len(m) /\ \E g : Matches(l, m, g)
  <2>1. PICK g \in G : r = Reordered(g)
    BY <1>2
  <2>2. Len(l) = Len(m)
    BY <1>3, <1>4, <2>1 DEF AllMean
  <2>3. \A i \in D : Normal(m[g[i]]) = Normal(l[i])
    BY <1>a, <1>3, <1>4, <2>1, <2>2 DEF AllMean
  <2>4. Matches(l, m, g)
    BY <2>2, <2>3 DEF Matches
  <2> QED
    BY <2>2, <2>4
<1>5. ASSUME Len(l) = Len(m), NEW g, Matches(l, m, g)
      PROVE  \E r \in Reorderings(m) : AllMean(r, l)
  <2>1. g \in G /\ \A i \in D : Normal(m[g[i]]) = Normal(l[i])
    BY <1>5 DEF Matches
  <2>2. Reordered(g) \in Reorderings(m)
    BY <1>2, <2>1
  <2>3. AllMean(Reordered(g), l)
    <3>1. \A i \in D : g[i] \in D /\ Reordered(g)[i] = m[g[i]]
      BY <1>3, <2>1
    <3>2. \A i \in D : Means(m[g[i]], l[i])
      BY <1>a, <1>5, <2>1, <3>1
    <3>3. Len(Reordered(g)) = Len(l) /\ DOMAIN Reordered(g) = D
      BY <1>3, <1>5, <2>1
    <3> QED
      BY <3>1, <3>2, <3>3 DEF AllMean
  <2> QED
    BY <2>2, <2>3
<1> QED
  BY <1>4, <1>5

(* A match takes the places of a word to all of its places.                *)
LEMMA MatchedBags ==
  ASSUME NEW l \in Seq(Scalar), NEW m \in Seq(Scalar), Len(l) = Len(m),
         NEW g, Matches(l, m, g), NEW w
  PROVE  Cardinality(Places(l, w)) = Cardinality(Places(m, w))
<1> DEFINE D == 1..Len(l)
           P == Places(l, w)
           Q == Places(m, w)
           h == [i \in P |-> g[i]]
<1>1. /\ g \in [D -> D] /\ \A i, j \in D : g[i] = g[j] => i = j
      /\ \A i \in D : Normal(m[g[i]]) = Normal(l[i])
  BY DEF Matches
<1>2. IsFiniteSet(D)
  <2>1. Len(l) \in Int /\ 1 \in Int
    BY LenProperties
  <2> QED
    BY <2>1, FS_Interval
<1>3. \A j \in D : \E i \in D : g[i] = j
  <2>1. g \in Injection(D, D)
    BY <1>1, Fun_IsInj
  <2>2. g \in Surjection(D, D)
    BY <1>2, <2>1, FS_Injection
  <2> QED
    BY <2>2 DEF Surjection
<1>4. P \subseteq D /\ IsFiniteSet(P)
  BY PlacesFinite
<1>5. h \in [P -> Q]
  BY <1>1, <1>4 DEF Places
<1>6. \A i, j \in P : h[i] = h[j] => i = j
  BY <1>1, <1>4
<1>7. ASSUME NEW j \in Q PROVE \E i \in P : h[i] = j
  <2>1. j \in D /\ Normal(m[j]) = w
    BY DEF Places
  <2>2. PICK i \in D : g[i] = j
    BY <1>3, <2>1
  <2>3. i \in P
    BY <1>1, <2>1, <2>2 DEF Places
  <2> QED
    BY <2>2, <2>3
<1> HIDE DEF h, P, Q
<1>8. h \in Bijection(P, Q)
  BY <1>5, <1>6, <1>7, Fun_IsBij
<1>9. ExistsBijection(P, Q)
  BY <1>8 DEF ExistsBijection
<1> QED
  BY <1>4, <1>9, FS_Bijection DEF P, Q

(* And where every word has as many places in both, there is a match.      *)
LEMMA BagsMatch ==
  ASSUME NEW l \in Seq(Scalar), NEW m \in Seq(Scalar), Len(l) = Len(m),
         \A w \in {Normal(l[i]) : i \in 1..Len(l)} :
           Cardinality(Places(l, w)) = Cardinality(Places(m, w))
  PROVE  \E g : Matches(l, m, g)
<1> DEFINE D == 1..Len(l)
           B(w) == Bijection(Places(l, w), Places(m, w))
           b(w) == CHOOSE f : f \in B(w)
           g == [i \in D |-> b(Normal(l[i]))[i]]
<1>1. ASSUME NEW i \in D
      PROVE  /\ b(Normal(l[i])) \in [Places(l, Normal(l[i])) -> Places(m, Normal(l[i]))]
             /\ \A j, k \in Places(l, Normal(l[i])) :
                  b(Normal(l[i]))[j] = b(Normal(l[i]))[k] => j = k
             /\ i \in Places(l, Normal(l[i]))
  <2> DEFINE w == Normal(l[i])
  <2>1. IsFiniteSet(Places(l, w)) /\ IsFiniteSet(Places(m, w))
    BY PlacesFinite
  <2>2. Cardinality(Places(l, w)) = Cardinality(Places(m, w))
    OBVIOUS
  <2>3. i \in Places(l, w)
    BY DEF Places
  <2> HIDE DEF w
  <2>4. B(w) # {}
    BY <2>1, <2>2, FS_SameCardinalityBij DEF ExistsBijection
  <2>5. b(w) \in B(w)
    BY <2>4
  <2> HIDE DEF b
  <2>6. /\ b(w) \in [Places(l, w) -> Places(m, w)]
        /\ \A j, k \in Places(l, w) : b(w)[j] = b(w)[k] => j = k
    BY <2>5, Fun_BijectionProperties
  <2> QED
    BY <2>3, <2>6 DEF w
<1> HIDE DEF b
<1>2. \A i \in D : g[i] \in Places(m, Normal(l[i]))
  BY <1>1
<1>3. \A i \in D : g[i] \in D /\ Normal(m[g[i]]) = Normal(l[i])
  BY <1>2 DEF Places
<1>4. ASSUME NEW i \in D, NEW j \in D, g[i] = g[j]
      PROVE  i = j
  <2>1. Normal(l[i]) = Normal(l[j])
    BY <1>3, <1>4
  <2>2. j \in Places(l, Normal(l[i]))
    BY <2>1 DEF Places
  <2>3. b(Normal(l[i]))[i] = b(Normal(l[i]))[j]
    BY <1>4, <2>1
  <2> QED
    BY <1>1, <2>2, <2>3
<1>5. g \in [D -> D]
  BY <1>3
<1>6. Matches(l, m, g)
  BY <1>3, <1>4, <1>5 DEF Matches
<1> QED
  BY <1>6

(* Sorted lists are equal when some reordering of one means the other.     *)
LEMMA MultipleChoiceGraded ==
  ASSUME NEW l \in Seq(Scalar), NEW m \in Seq(Scalar), ComparableLists(l, m)
  PROVE  SameBag(Words(l), Words(m)) <=> \E r \in Reorderings(m) : AllMean(r, l)
<1>1. ASSUME SameBag(Words(l), Words(m))
      PROVE  \E r \in Reorderings(m) : AllMean(r, l)
  <2>1. /\ Len(l) = Len(m)
        /\ \A w \in {Normal(l[i]) : i \in 1..Len(l)} :
             Cardinality(Places(l, w)) = Cardinality(Places(m, w))
    BY <1>1, BagsOfWords
  <2>2. \E g : Matches(l, m, g)
    BY <2>1, BagsMatch
  <2> QED
    BY <2>1, <2>2, ReorderingsMatch
<1>2. ASSUME \E r \in Reorderings(m) : AllMean(r, l)
      PROVE  SameBag(Words(l), Words(m))
  <2>1. PICK g : Len(l) = Len(m) /\ Matches(l, m, g)
    BY <1>2, ReorderingsMatch
  <2>2. \A w : Cardinality(Places(l, w)) = Cardinality(Places(m, w))
    BY <2>1, MatchedBags
  <2> QED
    BY <2>1, <2>2, BagsOfWords
<1> QED
  BY <1>1, <1>2

QuestionOK ==
  /\ question.type \in QuestionType /\ question.key \in Documents(question.type)
  /\ question.accepted \subseteq Scalar /\ question.manual \in BOOLEAN

LEMMA WithPairs ==
  ASSUME NEW type \in QuestionType, NEW doc \in Documents(type), NEW ps
  PROVE  /\ [doc EXCEPT !.pairs = ps].pairs = ps
         /\ [doc EXCEPT !.pairs = doc.pairs] = doc
<1>1. PICK a, as, o, qs :
        doc = [answer |-> a, answers |-> as, order |-> o, pairs |-> qs]
  <2>1. CASE type \in Single \cup {"short_answer", "essay"}
    <3>1. PICK t \in Scalar : doc = [Blank EXCEPT !.answer = t]
      <4>a. type \notin Listing /\ type # "matching"
        BY <2>1 DEF Single, Listing
      <4>1. Documents(type) = {[Blank EXCEPT !.answer = t] : t \in Scalar}
        BY <2>1, <4>a, Zenon DEF Documents
      <4> HIDE DEF Documents, Blank
      <4> QED
        BY <4>1
    <3>2. doc = [answer |-> t, answers |-> <<>>, order |-> <<>>, pairs |-> {}]
      BY <3>1 DEF Blank
    <3> QED
      BY <3>2
  <2>2. CASE type \in Listing
    <3>1. type \notin Single \cup {"short_answer", "essay"} /\ type # "matching"
      BY <2>2 DEF Single, Listing
    <3>2. PICK l \in Lists : \/ doc = [Blank EXCEPT !.answers = l]
                             \/ doc = [Blank EXCEPT !.order = l]
      <4>1. Documents(type) = {[Blank EXCEPT !.answers = l] : l \in Lists}
                                \cup {[Blank EXCEPT !.order = l] : l \in Lists}
        BY <2>2, <3>1, Zenon DEF Documents
      <4> HIDE DEF Documents, Blank, Lists
      <4> QED
        BY <4>1
    <3>3. \/ doc = [answer |-> Null, answers |-> l, order |-> <<>>, pairs |-> {}]
          \/ doc = [answer |-> Null, answers |-> <<>>, order |-> l, pairs |-> {}]
      BY <3>2 DEF Blank
    <3> QED
      BY <3>3
  <2>3. CASE type = "matching"
    <3>1. type \notin Single \cup {"short_answer", "essay"} /\ type \notin Listing
      BY <2>3 DEF Single, Listing
    <3>2. PICK qs \in Pairings : doc = [Blank EXCEPT !.pairs = qs]
      <4>1. Documents(type) = {[Blank EXCEPT !.pairs = qs] : qs \in Pairings}
        BY <2>3, <3>1, Zenon DEF Documents
      <4> HIDE DEF Documents, Pairings, Blank
      <4> QED
        BY <4>1
    <3>3. doc = [answer |-> Null, answers |-> <<>>, order |-> <<>>, pairs |-> qs]
      BY <3>2 DEF Blank
    <3> QED
      BY <3>3
  <2> QED
    BY <2>1, <2>2, <2>3 DEF QuestionType, Objective
<1> QED
  BY <1>1

(* Each verdict that grading may come to is the right one for one way to   *)
(* read the names in the key and in the document.                          *)
LEMMA VerdictsAreRight ==
  ASSUME QuestionOK, question.type \in Objective,
         NEW doc \in Documents(question.type), AllComparable(question, doc),
         NEW right \in Verdicts(question, doc)
  PROVE  /\ right \in BOOLEAN
         /\ \E k \in Readings(question.key), d \in Readings(doc) :
              right <=> Correct(question, k, d)
<1> DEFINE key == question.key
           type == question.type
<1>a. \A s \in Compared(type, key) \cup question.accepted, t \in Compared(type, doc) :
        Comparable(s, t)
  BY DEF AllComparable
<1>b. ASSUME NEW e \in Documents(type), e.pairs = {}
      PROVE  e \in Readings(e)
  <2>1. {} \in OneOfEach({})
    BY DEF OneOfEach
  <2>2. e = [e EXCEPT !.pairs = {}]
    <3>1. e = [e EXCEPT !.pairs = e.pairs]
      BY WithPairs DEF QuestionOK
    <3> QED
      BY <1>b, <3>1
  <2> QED
    BY <1>b, <2>1, <2>2 DEF Readings
<1>1. CASE type \in Single
  <2>1. /\ key.answer \in Scalar /\ doc.answer \in Scalar
        /\ key.pairs = {} /\ doc.pairs = {}
    BY <1>1, AnswerDocument DEF QuestionOK
  <2>a. /\ type # "short_answer" /\ type # "multiple_choice" /\ type # "ordering"
        /\ type # "matching" /\ type # "essay" /\ type \notin Listing
    BY <1>1 DEF Single, Listing
  <2>2. right = (Normal(key.answer) = Normal(doc.answer))
    <3>1. Verdicts(question, doc) = {Normal(key.answer) = Normal(doc.answer)}
      <4>1. CASE type = "single_choice"
        BY <4>1 DEF Verdicts, Single
      <4>2. CASE type = "true_false"
        BY <4>2 DEF Verdicts, Single
      <4> QED
        BY <1>1, <4>1, <4>2 DEF Single
    <3> QED
      BY <3>1
  <2>3. Correct(question, key, doc) <=> Means(key.answer, doc.answer)
    BY <1>1, <2>a, Zenon DEF Correct
  <2>4. Compared(type, key) = {key.answer} /\ Compared(type, doc) = {doc.answer}
    BY <2>a DEF Compared
  <2>5. Means(key.answer, doc.answer) <=> Normal(key.answer) = Normal(doc.answer)
    BY <1>a, <2>1, <2>4, ScalarsMean
  <2>6. key \in Readings(key) /\ doc \in Readings(doc)
    BY <1>b, <2>1 DEF QuestionOK
  <2> QED
    BY <2>2, <2>3, <2>5, <2>6
<1>2. CASE type = "short_answer"
  <2>1. /\ key.answer \in Scalar /\ doc.answer \in Scalar
        /\ key.pairs = {} /\ doc.pairs = {}
        /\ question.accepted \subseteq Scalar
    BY <1>2, AnswerDocument DEF QuestionOK
  <2>2. type \notin Single /\ type \notin Listing
    BY <1>2 DEF Single, Listing
  <2>3. right = \E s \in {key.answer} \cup question.accepted :
                  Normal(s) = Normal(doc.answer)
    BY <1>2, <2>2 DEF Verdicts
  <2>4. Correct(question, key, doc)
          <=> \E s \in {key.answer} \cup question.accepted : Means(s, doc.answer)
    BY <1>2, <2>2 DEF Correct
  <2>5. Compared(type, key) = {key.answer} /\ Compared(type, doc) = {doc.answer}
    BY <1>2, <2>2 DEF Compared
  <2>6. \A s \in {key.answer} \cup question.accepted :
          Means(s, doc.answer) <=> Normal(s) = Normal(doc.answer)
    BY <1>a, <2>1, <2>5, ScalarsMean
  <2>7. key \in Readings(key) /\ doc \in Readings(doc)
    BY <1>b, <2>1 DEF QuestionOK
  <2> QED
    BY <2>3, <2>4, <2>6, <2>7
<1>3. CASE type \in Listing
  <2>1. /\ Entries(key) \in Seq(Scalar) /\ Entries(doc) \in Seq(Scalar)
        /\ key.pairs = {} /\ doc.pairs = {}
    BY <1>3, ListDocument DEF QuestionOK
  <2>2. type \notin Single /\ type # "short_answer"
    BY <1>3 DEF Single, Listing
  <2>3. Listed(key) = Words(Entries(key)) /\ Listed(doc) = Words(Entries(doc))
    BY EntriesAreListed
  <2>a. /\ Compared(type, key) = {Entries(key)[i] : i \in DOMAIN Entries(key)}
        /\ Compared(type, doc) = {Entries(doc)[i] : i \in DOMAIN Entries(doc)}
    BY <1>3, <2>2 DEF Compared, Listing
  <2>b. ComparableLists(Entries(key), Entries(doc))
    BY <1>a, <2>a DEF ComparableLists
  <2>c. key \in Readings(key) /\ doc \in Readings(doc)
    BY <1>b, <2>1 DEF QuestionOK
  <2>4. CASE type = "multiple_choice"
    <3>1. right = SameBag(Words(Entries(key)), Words(Entries(doc)))
      BY <2>2, <2>3, <2>4 DEF Verdicts
    <3>2. Correct(question, key, doc)
            <=> \E r \in Reorderings(Entries(doc)) : AllMean(r, Entries(key))
      BY <2>2, <2>4 DEF Correct
    <3>3. SameBag(Words(Entries(key)), Words(Entries(doc)))
            <=> \E r \in Reorderings(Entries(doc)) : AllMean(r, Entries(key))
      BY <2>1, <2>b, MultipleChoiceGraded
    <3>4. right \in BOOLEAN
      BY <3>1 DEF SameBag
    <3> QED
      BY <2>c, <3>1, <3>2, <3>3, <3>4
  <2>5. CASE type = "ordering"
    <3>1. right = (Words(Entries(key)) = Words(Entries(doc)))
      BY <2>2, <2>3, <2>5 DEF Verdicts
    <3>2. Correct(question, key, doc) <=> AllMean(Entries(doc), Entries(key))
      BY <2>2, <2>5 DEF Correct
    <3>3. Words(Entries(key)) = Words(Entries(doc)) <=> AllMean(Entries(doc), Entries(key))
      BY <2>1, <2>b, OrderingGraded
    <3> QED
      BY <2>c, <3>1, <3>2, <3>3
  <2> QED
    BY <1>3, <2>4, <2>5 DEF Listing
<1>4. CASE type = "matching"
  <2>1. /\ \A p \in key.pairs : p[1] \in String /\ p[2] \in Scalar
        /\ \A p \in doc.pairs : p[1] \in String /\ p[2] \in Scalar
    BY <1>4, PairsDocument DEF QuestionOK
  <2>2. /\ type \notin Single /\ type # "short_answer" /\ type # "multiple_choice"
        /\ type # "ordering" /\ type \notin Listing
    BY <1>4 DEF Single, Listing
  <2>3. PICK f \in Normalized(key.pairs), g \in Normalized(doc.pairs) : right = (f = g)
    BY <1>4, <2>2 DEF Verdicts
  <2>4. PICK ks \in OneOfEach(key.pairs) :
          /\ f \in Normalized(ks)
          /\ \A p, q \in ks : Normal(p[1]) = Normal(q[1]) => p = q
    BY <2>1, ReadingOf
  <2>5. PICK ds \in OneOfEach(doc.pairs) :
          /\ g \in Normalized(ds)
          /\ \A p, q \in ds : Normal(p[1]) = Normal(q[1]) => p = q
    BY <2>1, ReadingOf
  <2>6. ks \subseteq key.pairs /\ ds \subseteq doc.pairs
    BY DEF OneOfEach
  <2>7. /\ Compared(type, key) = {p[2] : p \in key.pairs}
        /\ Compared(type, doc) = {p[2] : p \in doc.pairs}
    BY <1>4, <2>2 DEF Compared
  <2>8. \A p \in ks, q \in ds : Comparable(p[2], q[2])
    BY <1>a, <2>6, <2>7
  <2>9. /\ \A p \in ks : p[1] \in String /\ p[2] \in Scalar
        /\ \A p \in ds : p[1] \in String /\ p[2] \in Scalar
    BY <2>1, <2>6
  <2>10. f = g <=> PairsIn(ks, ds) /\ PairsIn(ds, ks)
    BY <2>4, <2>5, <2>8, <2>9, MatchingGraded
  <2> DEFINE k == [key EXCEPT !.pairs = ks]
             d == [doc EXCEPT !.pairs = ds]
  <2>11. k \in Readings(key) /\ d \in Readings(doc)
    BY DEF Readings
  <2>12. k.pairs = ks /\ d.pairs = ds
    BY WithPairs DEF QuestionOK
  <2> HIDE DEF k, d
  <2>13. Correct(question, k, d)
          <=> PairsIn(k.pairs, d.pairs) /\ PairsIn(d.pairs, k.pairs)
    BY <1>4, <2>2 DEF Correct
  <2> QED
    BY <2>3, <2>10, <2>11, <2>12, <2>13
<1> QED
  BY <1>1, <1>2, <1>3, <1>4 DEF Objective, Single, Listing

(* The row of the answer: none yet, an empty one, or one with a verdict on *)
(* the document that was saved.                                            *)
SheetOK ==
  \/ sheet = NoSheet
  \/ sheet = Graded(Blank, TRUE, FALSE)
  \/ \E doc \in Documents(question.type) :
     \E right \in IF question.type \in Objective THEN Verdicts(question, doc)
                  ELSE {FALSE} :
       sheet = Graded(doc, FALSE, right)

AttemptGradeOK ==
  \/ attemptGrade = Ungraded
  \/ attemptGrade =
       [score |-> sheet.score,
        status |-> IF question.manual \/ sheet.status = "manual_required"
                   THEN "manual_required" ELSE "auto_graded"]

GradingInv == QuestionOK /\ SheetOK /\ AttemptGradeOK

LEMMA GradingInitial == GradingInit => GradingInv
<1> SUFFICES ASSUME GradingInit PROVE GradingInv
  OBVIOUS
<1>1. PICK type \in QuestionType, manual \in BOOLEAN :
        \E key \in Documents(type),
           accepted \in IF type = "short_answer"
                        THEN {as \in SUBSET Scalar : Cardinality(as) <= 1}
                        ELSE {{}} :
          question = [type |-> type, key |-> key, accepted |-> accepted,
                      manual |-> manual]
  BY DEF GradingInit
<1>2. PICK key \in Documents(type), accepted \in SUBSET Scalar :
        question = [type |-> type, key |-> key, accepted |-> accepted,
                    manual |-> manual]
  BY <1>1
<1>3. QuestionOK
  BY <1>2 DEF QuestionOK
<1> QED
  BY <1>3 DEF GradingInit, GradingInv, SheetOK, AttemptGradeOK

LEMMA GradingStep == GradingInv /\ [GradingNext]_gradingVars => GradingInv'
<1> SUFFICES ASSUME GradingInv, [GradingNext]_gradingVars
             PROVE  GradingInv'
  OBVIOUS
<1>1. ASSUME NEW doc \in Documents(question.type), SaveAnswer(doc)
      PROVE  GradingInv'
  <2>1. PICK right \in IF question.type \in Objective THEN Verdicts(question, doc)
                       ELSE {FALSE} : sheet' = Graded(doc, FALSE, right)
    BY <1>1 DEF SaveAnswer
  <2>2. UNCHANGED question /\ attemptGrade' = Ungraded
    BY <1>1 DEF SaveAnswer
  <2>3. Graded(doc, FALSE, right)' = Graded(doc, FALSE, right)
    BY <2>2 DEF Graded
  <2>4. SheetOK'
    BY <2>1, <2>2 DEF SheetOK, Graded
  <2> QED
    BY <2>2, <2>4 DEF GradingInv, QuestionOK, AttemptGradeOK, Ungraded
<1>2. CASE SaveEmpty
  <2>1. /\ UNCHANGED question /\ attemptGrade' = Ungraded
        /\ sheet' = Graded(Blank, TRUE, FALSE)
    BY <1>2 DEF SaveEmpty
  <2>2. SheetOK'
    BY <2>1 DEF SheetOK, Graded
  <2> QED
    BY <2>1, <2>2 DEF GradingInv, QuestionOK, AttemptGradeOK, Ungraded
<1>3. CASE GradeAttempt
  <2>1. UNCHANGED <<question, sheet>>
    BY <1>3 DEF GradeAttempt
  <2>2. SheetOK'
    BY <2>1 DEF GradingInv, SheetOK, Graded
  <2>3. AttemptGradeOK'
    BY <1>3, <2>1 DEF GradeAttempt, AttemptGradeOK
  <2> QED
    BY <2>1, <2>2, <2>3 DEF GradingInv, QuestionOK
<1>4. CASE UNCHANGED gradingVars
  <2>1. UNCHANGED <<question, sheet, attemptGrade>>
    BY <1>4 DEF gradingVars
  <2>2. SheetOK'
    BY <2>1 DEF GradingInv, SheetOK, Graded
  <2> QED
    BY <2>1, <2>2 DEF GradingInv, QuestionOK, AttemptGradeOK
<1> QED
  BY <1>1, <1>2, <1>3, <1>4 DEF GradingNext

LEMMA GradingTyped == GradingInv => GradingTypeOK
<1> SUFFICES ASSUME GradingInv PROVE GradingTypeOK
  OBVIOUS
<1>1. sheet.score \in {0, Points} /\ sheet.status \in Statuses
  <2>1. CASE sheet = NoSheet
    BY <2>1 DEF NoSheet, Statuses
  <2>2. ASSUME NEW doc, NEW empty, NEW right, sheet = Graded(doc, empty, right)
        PROVE  sheet.score \in {0, Points} /\ sheet.status \in Statuses
    BY <2>2 DEF Graded, Statuses
  <2> QED
    BY <2>1, <2>2 DEF GradingInv, SheetOK
<1>2. attemptGrade \in [score : {0, Points}, status : Statuses]
  BY <1>1 DEF GradingInv, AttemptGradeOK, Ungraded, Statuses
<1> QED
  BY <1>1, <1>2 DEF GradingInv, QuestionOK, GradingTypeOK

LEMMA EarnedPoints == GradingInv => PointsAreEarned
<1> SUFFICES ASSUME GradingInv PROVE PointsAreEarned
  OBVIOUS
<1> DEFINE Reading == Readings(question.key) \X Readings(sheet.doc)
           Earned(r) == Correct(question, r[1], r[2])
<1>1. sheet.score = Points => sheet.saved /\ ~sheet.empty
  <2>1. CASE sheet = NoSheet \/ sheet = Graded(Blank, TRUE, FALSE)
    BY <2>1 DEF NoSheet, Graded, Points
  <2>2. ASSUME NEW doc, NEW right, sheet = Graded(doc, FALSE, right)
        PROVE  sheet.saved /\ ~sheet.empty
    BY <2>2 DEF Graded
  <2> QED
    BY <2>1, <2>2 DEF GradingInv, SheetOK
<1>2. ASSUME sheet.saved, ~sheet.empty, AllComparable(question, sheet.doc)
      PROVE  /\ (\A r \in Reading : Earned(r)) => sheet.score = Points
             /\ sheet.score = Points => \E r \in Reading : Earned(r)
  <2>a. PICK doc \in Documents(question.type) :
          \E right \in IF question.type \in Objective
                      THEN Verdicts(question, doc) ELSE {FALSE} :
            sheet = Graded(doc, FALSE, right)
    <3>1. sheet # NoSheet
      BY <1>2 DEF NoSheet
    <3>2. sheet # Graded(Blank, TRUE, FALSE)
      BY <1>2 DEF Graded
    <3> QED
      BY <3>1, <3>2 DEF GradingInv, SheetOK
  <2>1. PICK right \in IF question.type \in Objective
                       THEN Verdicts(question, doc) ELSE {FALSE} :
          sheet = Graded(doc, FALSE, right)
    BY <2>a
  <2>2. sheet.doc = doc /\ sheet.score = IF right THEN Points ELSE 0
    BY <2>1 DEF Graded
  <2>3. /\ right \in BOOLEAN
        /\ \E k \in Readings(question.key), d \in Readings(doc) :
             right <=> Correct(question, k, d)
    <3>1. CASE question.type \in Objective
      BY <1>2, <2>1, <2>2, <3>1, VerdictsAreRight DEF GradingInv
    <3>2. CASE question.type \notin Objective
      <4>1. question.type = "essay"
        BY <3>2 DEF GradingInv, QuestionOK, QuestionType
      <4>2. \A k, d : ~Correct(question, k, d)
        BY <4>1 DEF Correct, Single
      <4>3. right = FALSE
        BY <2>1, <3>2
      <4>4. question.key.pairs = {} /\ doc.pairs = {}
        BY <4>1, AnswerDocument DEF GradingInv, QuestionOK
      <4>5. {} \in OneOfEach({})
        BY DEF OneOfEach
      <4>6. Readings(question.key) # {} /\ Readings(doc) # {}
        <5>1. \A e : e.pairs = {} => [e EXCEPT !.pairs = {}] \in Readings(e)
          BY <4>5 DEF Readings
        <5> QED
          BY <4>4, <5>1
      <4> QED
        BY <4>2, <4>3, <4>6
    <3> QED
      BY <3>1, <3>2
  <2>4. PICK k \in Readings(question.key), d \in Readings(doc) :
          right <=> Correct(question, k, d)
    BY <2>3
  <2>5. <<k, d>> \in Reading /\ (Earned(<<k, d>>) <=> right)
    BY <2>2, <2>4
  <2> HIDE DEF Reading, Earned
  <2> QED
    BY <2>2, <2>3, <2>5 DEF Points
<1>3. attemptGrade # Ungraded =>
        /\ attemptGrade.score = sheet.score
        /\ question.manual => attemptGrade.status = "manual_required"
  BY DEF GradingInv, AttemptGradeOK
<1> QED
  BY <1>1, <1>2, <1>3 DEF PointsAreEarned

(* The inductive invariant of grading holds of every behaviour.            *)
THEOREM GradingInductive == GradingSpec => []GradingInv
<1> QED
  BY GradingInitial, GradingStep, PTL DEF GradingSpec

(* Points are given for the answers that mean what the key means, and for  *)
(* those only, however long the lists and whatever the order of the pairs. *)
THEOREM PointsGivenRightly == GradingSpec => []PointsAreEarned
<1> QED
  BY GradingInductive, EarnedPoints, PTL

-----------------------------------------------------------------------------
(* All parts beside each other.                                            *)

PartsInv ==
  /\ FenceInv /\ LoginInv /\ IntegrityInv /\ MigrationInv
  /\ GradingInv /\ EnrolmentInv

LEMMA PartsInitial == Init => PartsInv
<1> SUFFICES ASSUME Init PROVE PartsInv
  OBVIOUS
<1>1. FenceInv /\ LoginInv /\ IntegrityInv /\ MigrationInv /\ EnrolmentInv
  BY FenceInitial, LoginInitial, IntegrityInitial, MigrationInitial,
     EnrolmentInitial DEF Init
<1>2. CASE part = "grading"
  BY <1>1, <1>2, GradingInitial DEF Init, PartsInv
<1>3. CASE part # "grading"
  <2>1. /\ question = [type |-> "essay", key |-> Blank, accepted |-> {},
                       manual |-> FALSE]
        /\ sheet = NoSheet /\ attemptGrade = Ungraded
    BY <1>3 DEF Init
  <2>2. Blank \in Documents("essay")
    <3>1. Blank = [Blank EXCEPT !.answer = Null]
      <4>1. Blank.answer = Null
        BY DEF Blank
      <4>2. Blank = [Blank EXCEPT !.answer = Blank.answer]
        BY DEF Blank
      <4> QED
        BY <4>1, <4>2
    <3>2. Documents("essay") = {[Blank EXCEPT !.answer = s] : s \in Scalar}
      BY Zenon DEF Documents, Listing
    <3>3. Null \in Scalar
      BY DEF Scalar
    <3> HIDE DEF Documents, Blank
    <3> QED
      BY <3>1, <3>2, <3>3
  <2>3. GradingInv
    BY <2>1, <2>2 DEF GradingInv, QuestionOK, SheetOK, AttemptGradeOK, QuestionType
  <2> QED
    BY <1>1, <2>3 DEF PartsInv
<1> QED
  BY <1>2, <1>3

LEMMA PartsStep == PartsInv /\ [Next]_partVars => PartsInv'
<1> SUFFICES ASSUME PartsInv, [Next]_partVars PROVE PartsInv'
  OBVIOUS
<1>1. /\ [FenceNext]_fenceVars /\ [LoginNext]_loginVars
      /\ [IntegrityNext]_integrityVars /\ [MigrationNext]_migrationVars
      /\ [GradingNext]_gradingVars /\ [EnrolmentNext]_enrolmentVars
  BY DEF Next, FenceTurn, partVars
<1> QED
  BY <1>1, FenceStep, LoginStep, IntegrityStep, MigrationStep, GradingStep,
     EnrolmentStep DEF PartsInv

(* The types of the parts, for every value of the constants.               *)
THEOREM TypesOfParts == Spec => []PartsTypeOK
<1>1. PartsInv => PartsTypeOK
  BY GradingTyped DEF PartsInv, PartsTypeOK, FenceInv, LoginInv, IntegrityInv,
     MigrationInv, EnrolmentInv
<1> QED
  BY PartsInitial, PartsStep, <1>1, PTL DEF Spec
=============================================================================
