------------------------- MODULE ContentCacheProofs -------------------------
(* Proofs about ContentCache, for any exams, goroutines and versions.      *)
EXTENDS ContentCache, TLAPS

(* Nothing of the exam is served, whoever asks.                            *)
Hidden(e) == cache[e] = 0 \/ e \in unready

Busy(r) == op[r].pc \in {"commit", "read", "publish"}

(* The exams an operation is at or has still to come to.                   *)
Ahead(r) == op[r].todo \cup {op[r].exam}

(* What the locals of a handler imply.  While its token is the latest one, *)
(* what is ahead is open, and what a reload has passed is not; rows that   *)
(* were read are the current ones, unless the tool replaced them or a      *)
(* newer operation has begun.                                              *)
OpOK(r) ==
  /\ Busy(r) => op[r].exam \in Exam /\ lock[op[r].exam] = r
  /\ op[r].pc = "idle" => op[r] = Idle
  /\ op[r].pc \in {"mark", "next", "end"} => op[r].reload /\ op[r].exam = None
  /\ op[r].pc \in {"mark", "end"} => op[r].todo = {}
  /\ op[r].exam \notin op[r].todo
  /\ op[r].reload => Loaded \subseteq op[r].listed
  /\ \A e \in Exam \cap Ahead(r) : holder[e] = r => verdict[e] = "open"
  /\ op[r].pc # "mark" =>
       \A e \in Exam \cap (op[r].listed \ Ahead(r)) :
          holder[e] = r => verdict[e] # "open"
  /\ op[r].pc = "commit" => Hidden(op[r].exam) /\ ~op[r].reload
  /\ op[r].pc = "publish" =>
       /\ holder[op[r].exam] = r /\ op[r].exam \notin behind =>
            op[r].read = db[op[r].exam]
       /\ op[r].exam \in Loaded =>
            op[r].read > 0 /\ verdict[op[r].exam] \in {"open", "failed"}

(* A server that does not listen has no handlers and nothing marked.       *)
QuietOK == node # "up" => /\ \A r \in Worker : op[r] = Idle
                          /\ probe = NoProbe /\ unready = {}

(* What may be served is current, unless the tool has replaced its rows.   *)
Fresh == \A e \in Exam \ behind : ~Hidden(e) => cache[e] = db[e]

VerdictOK ==
  /\ \A e \in Exam : verdict[e] \in {"open", "failed"} => Hidden(e)
  /\ \A e \in Loaded : verdict[e] = "published" => ~Hidden(e)

(* Of the exams known from the start, none is ever lost.                   *)
LoadedOK ==
  /\ \A e \in Loaded : db[e] > 0
  /\ probe.pc # "idle" => Loaded \subseteq probe.listed
  /\ probe.pc = "compared" /\ probe.same => \A e \in Loaded : cache[e] > 0

IInv == /\ TypeOK
        /\ \A r \in Worker : OpOK(r)
        /\ QuietOK
        /\ Fresh
        /\ VerdictOK
        /\ LoadedOK

LEMMA IdleOK ==
  ASSUME NEW r \in Worker, op'[r] = Idle
  PROVE  OpOK(r)'
<1>1. None \notin Exam
  BY ContentAssumption
<1>. QED BY <1>1 DEF OpOK, Busy, Ahead, Idle

LEMMA Initial == Init => IInv
<1>. SUFFICES ASSUME Init PROVE IInv
  OBVIOUS
<1>. USE ContentAssumption
<1>1. TypeOK
  BY DEF Init, TypeOK, Worker, Idle, Local, NoProbe
<1>2. ASSUME NEW r \in Worker PROVE OpOK(r)
  BY DEF Init, OpOK, Busy, Ahead, Idle
<1>3. QuietOK /\ Fresh /\ VerdictOK /\ LoadedOK
  BY DEF Init, QuietOK, Fresh, VerdictOK, LoadedOK, Hidden, NoProbe
<1>. QED BY <1>1, <1>2, <1>3 DEF IInv

-----------------------------------------------------------------------------
(* What a step of the handler q, or of nobody (None), leaves to the others: *)
(* only the latest token's holder decides about an exam, and what somebody *)
(* else has locked stays hidden.                                           *)
Moves(q) ==
  /\ \A e \in Exam : lock'[e] = lock[e] \/ lock[e] \in {None, q}
  /\ \A e \in Exam : \/ holder'[e] = q
                     \/ /\ holder'[e] = holder[e]
                        /\ verdict'[e] = verdict[e]
                        /\ e \in behind => e \in behind'
  /\ \A e \in Exam : lock[e] \notin {None, q} =>
       /\ Hidden(e) => Hidden(e)'
       /\ e \in Loaded /\ verdict[e] \in {"open", "failed"} =>
            verdict'[e] \in {"open", "failed"}
       /\ db'[e] = db[e] \/ e \in behind'

LEMMA OthersOK ==
  ASSUME NEW q, NEW r \in Worker \ {q}, OpOK(r), Moves(q), op'[r] = op[r]
  PROVE  OpOK(r)'
<1>. USE ContentAssumption
<1>1. r # None
  BY DEF Worker
<1>2. (Busy(r) => op[r].exam \in Exam /\ lock[op[r].exam] = r)'
  <2>1. \A e \in Exam : lock[e] = r => lock'[e] = r
    BY <1>1 DEF Moves
  <2>. QED BY <2>1 DEF OpOK, Busy
<1>3. \A e \in Exam : holder'[e] = r => /\ holder[e] = r
                                        /\ verdict'[e] = verdict[e]
                                        /\ e \in behind => e \in behind'
  BY DEF Moves
<1>4. (\A e \in Exam \cap Ahead(r) : holder[e] = r => verdict[e] = "open")'
  BY <1>3 DEF OpOK, Ahead
<1>5. (op[r].pc # "mark" =>
         \A e \in Exam \cap (op[r].listed \ Ahead(r)) :
            holder[e] = r => verdict[e] # "open")'
  <2>1. Ahead(r)' = Ahead(r)
    BY DEF Ahead
  <2>2. op[r].pc # "mark" =>
          \A e \in Exam \cap (op[r].listed \ Ahead(r)) :
             holder[e] = r => verdict[e] # "open"
    BY DEF OpOK
  <2>. QED BY <1>3, <2>1, <2>2
<1>6. (op[r].pc = "commit" => Hidden(op[r].exam) /\ ~op[r].reload)'
  <2>. SUFFICES ASSUME op[r].pc = "commit"
       PROVE  Hidden(op[r].exam)' /\ ~op[r].reload
    OBVIOUS
  <2>1. PICK e \in Exam : e = op[r].exam /\ lock[e] = r /\ Hidden(e)
    BY DEF OpOK, Busy
  <2>2. Hidden(e)'
    BY <1>1, <2>1 DEF Moves
  <2>. QED BY <2>1, <2>2 DEF OpOK, Hidden
<1>7. (op[r].pc = "publish" =>
         /\ holder[op[r].exam] = r /\ op[r].exam \notin behind =>
              op[r].read = db[op[r].exam]
         /\ op[r].exam \in Loaded =>
              op[r].read > 0 /\ verdict[op[r].exam] \in {"open", "failed"})'
  <2>. SUFFICES ASSUME op[r].pc = "publish"
       PROVE  /\ holder'[op[r].exam] = r /\ op[r].exam \notin behind' =>
                   op[r].read = db'[op[r].exam]
              /\ op[r].exam \in Loaded => /\ op[r].read > 0
                                          /\ verdict'[op[r].exam] \in {"open", "failed"}
    OBVIOUS
  <2>1. PICK e \in Exam : e = op[r].exam /\ lock[e] = r
    BY DEF OpOK, Busy
  <2>2. holder'[e] = r /\ e \notin behind' => holder[e] = r /\ e \notin behind
    BY <1>3
  <2>3. db'[e] = db[e] \/ e \in behind'
    BY <1>1, <2>1 DEF Moves
  <2>4. e \in Loaded /\ verdict[e] \in {"open", "failed"} =>
          verdict'[e] \in {"open", "failed"}
    BY <1>1, <2>1 DEF Moves
  <2>. QED BY <2>1, <2>2, <2>3, <2>4 DEF OpOK
<1>8. /\ op'[r].pc = "idle" => op'[r] = Idle
      /\ op'[r].pc \in {"mark", "next", "end"} => op'[r].reload /\ op'[r].exam = None
      /\ op'[r].pc \in {"mark", "end"} => op'[r].todo = {}
      /\ op'[r].exam \notin op'[r].todo
      /\ op'[r].reload => Loaded \subseteq op'[r].listed
  BY DEF OpOK
<1>. QED BY <1>2, <1>4, <1>5, <1>6, <1>7, <1>8 DEF OpOK

LEMMA Update ==
  ASSUME TypeOK, NEW r \in Worker, NEW l \in Local, op' = [op EXCEPT ![r] = l]
  PROVE  /\ op' \in [Worker -> Local]
         /\ op'[r] = l
         /\ \A o \in Worker \ {r} : op'[o] = op[o]
BY DEF TypeOK

LEMMA LocalFields ==
  ASSUME TypeOK, NEW r \in Worker
  PROVE  /\ op[r] \in Local
         /\ op[r].exam \in Exam \cup {None}
         /\ op[r].listed \subseteq Exam
         /\ op[r].todo \subseteq Exam
         /\ op[r].read \in Nat
         /\ op[r].reload \in BOOLEAN
<1>1. op[r] \in Local
  BY DEF TypeOK
<1>. QED BY <1>1 DEF Local

LEMMA IdleType == Idle \in Local
BY DEF Idle, Local

(* Only a server that listens has handlers.                                *)
LEMMA Listening ==
  ASSUME IInv, NEW r \in Worker, op[r].pc # "idle"
  PROVE  node = "up"
BY DEF IInv, QuietOK, Idle

(* What is left to show of a handler's step.                               *)
LEMMA HandlerStep ==
  ASSUME IInv, NEW r \in Worker, node = "up", node' = node,
         \A o \in Worker \ {r} : op'[o] = op[o],
         TypeOK', Moves(r), OpOK(r)', Fresh', VerdictOK', LoadedOK'
  PROVE  IInv'
<1>1. ASSUME NEW o \in Worker PROVE OpOK(o)'
  <2>1. CASE o = r
    BY <2>1
  <2>2. CASE o # r
    <3>1. OpOK(o) /\ op'[o] = op[o] /\ o \in Worker \ {r}
      BY <2>2 DEF IInv
    <3>. QED BY <3>1, OthersOK
  <2>. QED BY <2>1, <2>2
<1>2. QuietOK'
  BY DEF QuietOK
<1>. QED BY <1>1, <1>2 DEF IInv

-----------------------------------------------------------------------------
(* Loading a bundle.                                                       *)
LEMMA LoadBeginStep ==
  ASSUME IInv, NEW r \in Worker, NEW e \in Exam, LoadBegin(r, e)
  PROVE  IInv'
<1>. USE ContentAssumption
<1>. DEFINE l == [Idle EXCEPT !.pc = "commit", !.exam = e]
<1>1. l \in Local /\ l.pc = "commit" /\ l.exam = e /\ l.todo = {} /\ l.listed = {}
        /\ ~l.reload
  BY DEF Idle, Local
<1>2. op' = [op EXCEPT ![r] = l]
  BY DEF LoadBegin
<1>. HIDE DEF l
<1>3. /\ op' \in [Worker -> Local]
      /\ op'[r] = l
      /\ \A o \in Worker \ {r} : op'[o] = op[o]
  BY <1>1, <1>2, Update DEF IInv
<1>. USE DEF LoadBegin, memory
<1>4. TypeOK'
  BY <1>3 DEF IInv, TypeOK
<1>5. /\ lock'[e] = r /\ holder'[e] = r /\ verdict'[e] = "open" /\ e \in unready'
      /\ \A d \in Exam \ {e} : lock'[d] = lock[d] /\ holder'[d] = holder[d]
                               /\ verdict'[d] = verdict[d]
      /\ \A d \in Exam \ {e} : (d \in unready' <=> d \in unready)
                               /\ (d \in behind' <=> d \in behind)
  BY DEF IInv, TypeOK
<1>6. Moves(r)
  BY <1>5 DEF Moves, Hidden
<1>7. OpOK(r)'
  BY <1>1, <1>3, <1>5 DEF OpOK, Busy, Ahead, Hidden
<1>8. Fresh'
  BY <1>5 DEF IInv, Fresh, Hidden
<1>9. VerdictOK'
  BY <1>5 DEF IInv, VerdictOK, Hidden
<1>10. LoadedOK'
  BY DEF IInv, LoadedOK
<1>. QED BY <1>3, <1>4, <1>6, <1>7, <1>8, <1>9, <1>10, HandlerStep

LEMMA LoadCommitStep ==
  ASSUME IInv, NEW r \in Worker, LoadCommit(r)
  PROVE  IInv'
<1>. USE ContentAssumption
<1>1. PICK e \in Exam : e = op[r].exam /\ lock[e] = r /\ Hidden(e)
  BY DEF LoadCommit, IInv, OpOK, Busy
<1>. DEFINE l == [op[r] EXCEPT !.pc = "read"]
<1>2. l \in Local /\ l.pc = "read" /\ l.exam = e /\ l.todo = op[r].todo
        /\ l.listed = op[r].listed /\ l.reload = op[r].reload
  BY <1>1, LocalFields DEF IInv, Local
<1>3. op' = [op EXCEPT ![r] = l]
  BY DEF LoadCommit
<1>. HIDE DEF l
<1>4. /\ op' \in [Worker -> Local]
      /\ op'[r] = l
      /\ \A o \in Worker \ {r} : op'[o] = op[o]
  BY <1>2, <1>3, Update DEF IInv
<1>5. db' = [db EXCEPT ![e] = @ + 1]
  BY <1>1 DEF LoadCommit
<1>. USE DEF memory
<1>6. TypeOK'
  BY <1>4, <1>5 DEF LoadCommit, IInv, TypeOK
<1>7. /\ \A d \in Exam \ {e} : db'[d] = db[d]
      /\ \A d \in Exam : db[d] > 0 => db'[d] > 0
  BY <1>5 DEF IInv, TypeOK
<1>8. Moves(r)
  BY <1>1, <1>7 DEF LoadCommit, Moves, Hidden
<1>9. OpOK(r)'
  BY <1>1, <1>2, <1>4 DEF LoadCommit, IInv, OpOK, Busy, Ahead
<1>10. Fresh'
  BY <1>1, <1>7 DEF LoadCommit, IInv, Fresh, Hidden
<1>11. VerdictOK' /\ LoadedOK'
  BY <1>7 DEF LoadCommit, IInv, VerdictOK, LoadedOK, Hidden
<1>12. node = "up" /\ node' = node
  BY Listening DEF LoadCommit
<1>. QED BY <1>4, <1>6, <1>8, <1>9, <1>10, <1>11, <1>12, HandlerStep

(* A handler that is done leaves nothing to show of its locals.            *)
LEMMA Done ==
  ASSUME IInv, NEW r \in Worker, op' = [op EXCEPT ![r] = Idle]
  PROVE  /\ op' \in [Worker -> Local]
         /\ OpOK(r)'
         /\ \A o \in Worker \ {r} : op'[o] = op[o]
<1>1. /\ op' \in [Worker -> Local]
      /\ op'[r] = Idle
      /\ \A o \in Worker \ {r} : op'[o] = op[o]
  BY Update, IdleType DEF IInv
<1>. QED BY <1>1, IdleOK

LEMMA LoadRollbackStep ==
  ASSUME IInv, NEW r \in Worker, LoadRollback(r)
  PROVE  IInv'
<1>. USE ContentAssumption
<1>1. PICK e \in Exam : e = op[r].exam /\ lock[e] = r /\ Hidden(e)
  BY DEF LoadRollback, IInv, OpOK, Busy
<1>2. /\ op' \in [Worker -> Local]
      /\ OpOK(r)'
      /\ \A o \in Worker \ {r} : op'[o] = op[o]
  BY Done DEF LoadRollback
<1>3. CancelRebuild(r, e) /\ lock' = [lock EXCEPT ![e] = None]
  BY <1>1 DEF LoadRollback
<1>4. /\ Hidden(e)'
      /\ holder[e] = r => verdict'[e] = "failed"
      /\ holder[e] # r => verdict'[e] = verdict[e] /\ unready' = unready
      /\ \A d \in Exam \ {e} : lock'[d] = lock[d] /\ verdict'[d] = verdict[d]
                               /\ (Hidden(d)' <=> Hidden(d))
  <2>1. cache' = cache /\ cache[e] \in Nat
    BY DEF LoadRollback, IInv, TypeOK
  <2>2. \A d \in Exam \ {e} : lock'[d] = lock[d]
    BY <1>3 DEF IInv, TypeOK
  <2>3. CASE holder[e] # r
    BY <1>1, <1>3, <2>1, <2>2, <2>3 DEF CancelRebuild, Hidden
  <2>4. CASE holder[e] = r
    <3>1. /\ unready' = IF e \in Cached THEN unready \cup {e} ELSE unready \ {e}
          /\ verdict' = [verdict EXCEPT ![e] = "failed"]
      BY <1>3, <2>4 DEF CancelRebuild
    <3>2. Hidden(e)'
      BY <2>1, <3>1 DEF Hidden, Cached
    <3>3. \A d \in Exam \ {e} : verdict'[d] = verdict[d] /\ (Hidden(d)' <=> Hidden(d))
      BY <2>1, <3>1 DEF Hidden, IInv, TypeOK
    <3>4. verdict'[e] = "failed"
      BY <3>1 DEF IInv, TypeOK
    <3>. QED BY <2>2, <2>4, <3>2, <3>3, <3>4
  <2>. QED BY <2>3, <2>4
<1>5. TypeOK'
  <2>1. unready' \subseteq Exam
    <3>1. unready' \in {unready, unready \cup {e}, unready \ {e}}
      BY <1>3 DEF CancelRebuild
    <3>. QED BY <3>1 DEF IInv, TypeOK
  <2>2. verdict' \in [Exam -> {"none", "open", "published", "failed"}]
    BY <1>3 DEF CancelRebuild, IInv, TypeOK
  <2>3. lock' \in [Exam -> Worker \cup {None}]
    BY <1>3 DEF IInv, TypeOK
  <2>. QED BY <1>2, <2>1, <2>2, <2>3 DEF LoadRollback, Fault, IInv, TypeOK
<1>6. Moves(r)
  BY <1>1, <1>4 DEF LoadRollback, Moves
<1>7. Fresh'
  BY <1>4 DEF LoadRollback, IInv, Fresh
<1>8. VerdictOK'
  BY <1>1, <1>4 DEF LoadRollback, IInv, VerdictOK
<1>9. LoadedOK'
  BY DEF LoadRollback, IInv, LoadedOK
<1>10. node = "up" /\ node' = node
  BY Listening DEF LoadRollback
<1>. QED BY <1>2, <1>5, <1>6, <1>7, <1>8, <1>9, <1>10, HandlerStep

-----------------------------------------------------------------------------
(* Rebuilding an exam's content.                                           *)
LEMMA FailFacts ==
  ASSUME IInv, NEW r \in Worker, Busy(r), Fail(r)
  PROVE  /\ op' \in [Worker -> Local] /\ OpOK(r)'
         /\ \A o \in Worker \ {r} : op'[o] = op[o]
         /\ lock' \in [Exam -> Worker \cup {None}]
         /\ verdict' \in [Exam -> {"none", "open", "published", "failed"}]
         /\ tool' \in {"idle", "loading", "waiting", "reloaded", "skipped", "failed"}
         /\ \A d \in Exam : lock'[d] = lock[d] \/ lock[d] = r
         /\ \A d \in Exam : \/ verdict'[d] = verdict[d]
                            \/ /\ holder[d] = r /\ verdict[d] = "open"
                               /\ verdict'[d] = "failed"
<1>1. op' = [op EXCEPT ![r] = Idle]
  BY DEF Fail
<1>2. PICK e \in Exam : e = op[r].exam /\ lock[e] = r
  BY DEF IInv, OpOK
<1>3. lock' = [lock EXCEPT ![e] = None]
  BY <1>2 DEF Fail
<1>4. /\ lock' \in [Exam -> Worker \cup {None}]
      /\ \A d \in Exam : lock'[d] = lock[d] \/ lock[d] = r
  BY <1>2, <1>3 DEF IInv, TypeOK
<1>5. verdict' = [d \in Exam |-> IF holder[d] = r /\ verdict[d] = "open" THEN "failed"
                                ELSE verdict[d]]
  BY DEF Fail, Put, Abandoned
<1>6. verdict' \in [Exam -> {"none", "open", "published", "failed"}]
  BY <1>5 DEF IInv, TypeOK
<1>7. \A d \in Exam : \/ verdict'[d] = verdict[d]
                      \/ /\ holder[d] = r /\ verdict[d] = "open"
                         /\ verdict'[d] = "failed"
  BY <1>5
<1>8. tool' \in {"idle", "loading", "waiting", "reloaded", "skipped", "failed"}
  BY DEF Fail, Answer, IInv, TypeOK
<1>. QED BY <1>1, <1>4, <1>6, <1>7, <1>8, Done

LEMMA RebuildReadStep ==
  ASSUME IInv, NEW r \in Worker, RebuildRead(r)
  PROVE  IInv'
<1>. USE ContentAssumption
<1>1. PICK e \in Exam : e = op[r].exam /\ lock[e] = r
  BY DEF RebuildRead, IInv, OpOK, Busy
<1>. DEFINE l == [op[r] EXCEPT !.pc = "publish", !.read = db[e]]
<1>2. l \in Local /\ l.pc = "publish" /\ l.exam = e /\ l.todo = op[r].todo
        /\ l.listed = op[r].listed /\ l.reload = op[r].reload /\ l.read = db[e]
  <2>1. op[r] \in Local /\ db[e] \in Nat
    BY DEF IInv, TypeOK
  <2>. QED BY <1>1, <2>1 DEF Local
<1>3. op' = [op EXCEPT ![r] = l]
  BY <1>1 DEF RebuildRead
<1>. HIDE DEF l
<1>4. /\ op' \in [Worker -> Local]
      /\ op'[r] = l
      /\ \A o \in Worker \ {r} : op'[o] = op[o]
  BY <1>2, <1>3, Update DEF IInv
<1>. USE DEF memory
<1>5. TypeOK'
  BY <1>4 DEF RebuildRead, IInv, TypeOK
<1>6. Moves(r)
  BY DEF RebuildRead, Moves, Hidden
<1>7. holder[e] = r /\ verdict[e] = "open"
  BY <1>1 DEF RebuildRead, Current, IInv, OpOK, Ahead
<1>8. e \in Loaded => db[e] > 0
  BY DEF IInv, LoadedOK
<1>9. OpOK(r)'
  <2>1. op[r].pc = "read"
    BY DEF RebuildRead
  <2>2. UNCHANGED <<db, lock, holder, verdict, behind>>
    BY DEF RebuildRead
  <2>. QED BY <1>1, <1>2, <1>4, <1>7, <1>8, <2>1, <2>2 DEF IInv, OpOK, Busy, Ahead
<1>10. Fresh' /\ VerdictOK' /\ LoadedOK'
  BY DEF RebuildRead, IInv, Fresh, VerdictOK, LoadedOK, Hidden
<1>11. node = "up" /\ node' = node
  BY Listening DEF RebuildRead
<1>. QED BY <1>4, <1>5, <1>6, <1>9, <1>10, <1>11, HandlerStep

LEMMA RebuildSupersededStep ==
  ASSUME IInv, NEW r \in Worker, RebuildSuperseded(r)
  PROVE  IInv'
<1>. USE ContentAssumption
<1>1. Busy(r) /\ Fail(r)
  BY DEF RebuildSuperseded, Superseded, Busy
<1>2. TypeOK'
  BY <1>1, FailFacts DEF RebuildSuperseded, IInv, TypeOK
<1>3. \A d \in Exam : Hidden(d)' <=> Hidden(d)
  BY DEF RebuildSuperseded, Hidden
<1>4. Moves(r)
  BY <1>1, <1>3, FailFacts DEF RebuildSuperseded, Moves
<1>5. Fresh'
  BY <1>3 DEF RebuildSuperseded, IInv, Fresh
<1>6. VerdictOK'
  <2>1. \A d \in Exam : \/ verdict'[d] = verdict[d]
                        \/ verdict[d] = "open" /\ verdict'[d] = "failed"
    BY <1>1, FailFacts
  <2>. QED BY <1>3, <2>1 DEF IInv, VerdictOK
<1>7. LoadedOK'
  BY DEF RebuildSuperseded, IInv, LoadedOK
<1>8. node = "up" /\ node' = node
  BY Listening DEF RebuildSuperseded, Superseded
<1>9. OpOK(r)' /\ \A o \in Worker \ {r} : op'[o] = op[o]
  BY <1>1, FailFacts
<1>. QED BY <1>2, <1>4, <1>5, <1>6, <1>7, <1>8, <1>9, HandlerStep

LEMMA RebuildFailsStep ==
  ASSUME IInv, NEW r \in Worker, RebuildFails(r)
  PROVE  IInv'
<1>. USE ContentAssumption
<1>1. Busy(r) /\ Fail(r)
  BY DEF RebuildFails, Busy
<1>2. PICK e \in Exam : /\ e = op[r].exam
                        /\ e \in Loaded => verdict[e] \in {"open", "failed"}
  BY <1>1 DEF RebuildFails, IInv, OpOK
<1>3. unready' = unready \cup {e} /\ cache' = cache
  BY <1>2 DEF RebuildFails
<1>4. unready' \subseteq Exam
  BY <1>3 DEF IInv, TypeOK
<1>5. TypeOK'
  BY <1>1, <1>4, FailFacts DEF RebuildFails, Fault, IInv, TypeOK
<1>6. \A d \in Exam : /\ Hidden(d) => Hidden(d)'
                      /\ d # e => (Hidden(d)' => Hidden(d))
  BY <1>3 DEF Hidden
<1>7. Moves(r)
  BY <1>1, <1>6, FailFacts DEF RebuildFails, Moves
<1>8. Fresh'
  BY <1>6 DEF RebuildFails, IInv, Fresh
<1>9. VerdictOK'
  <2>1. \A d \in Exam : \/ verdict'[d] = verdict[d]
                        \/ verdict[d] = "open" /\ verdict'[d] = "failed"
    BY <1>1, FailFacts
  <2>. QED BY <1>2, <1>6, <2>1 DEF IInv, VerdictOK
<1>10. LoadedOK'
  BY DEF RebuildFails, IInv, LoadedOK
<1>11. node = "up" /\ node' = node
  BY Listening DEF RebuildFails
<1>12. OpOK(r)' /\ \A o \in Worker \ {r} : op'[o] = op[o]
  BY <1>1, FailFacts
<1>. QED BY <1>5, <1>7, <1>8, <1>9, <1>10, <1>11, <1>12, HandlerStep

LEMMA PublishStep ==
  ASSUME IInv, NEW r \in Worker, Publish(r)
  PROVE  IInv'
<1>. USE ContentAssumption
<1>1. PICK e \in Exam : /\ e = op[r].exam /\ lock[e] = r
                        /\ e \notin op[r].todo
                        /\ holder[e] = r /\ e \notin behind => op[r].read = db[e]
                        /\ e \in Loaded => op[r].read > 0
  BY DEF Publish, IInv, OpOK, Busy
<1>2. holder[e] = r /\ Current(r)
  BY <1>1 DEF Publish, Superseded, Current
<1>. DEFINE n == op[r].read
<1>3. n \in Nat
  BY LocalFields DEF IInv
<1>4. /\ cache' = [cache EXCEPT ![e] = n]
      /\ unready' = unready \ {e}
      /\ verdict' = [verdict EXCEPT ![e] = "published"]
      /\ lock' = [lock EXCEPT ![e] = None]
      /\ UNCHANGED <<db, node, rehydrate, holder, tool, probe, behind, faults>>
  BY <1>1, <1>2 DEF Publish
<1>. DEFINE l == IF ~op[r].reload THEN Idle
                 ELSE [op[r] EXCEPT !.pc = IF op[r].todo = {} THEN "end" ELSE "next",
                                    !.exam = None, !.read = 0]
<1>5. op' = [op EXCEPT ![r] = l]
  BY DEF Publish
<1>6. /\ l \in Local
      /\ op[r].reload => /\ l.pc = IF op[r].todo = {} THEN "end" ELSE "next"
                         /\ l.exam = None /\ l.reload
                         /\ l.todo = op[r].todo /\ l.listed = op[r].listed
      /\ ~op[r].reload => l = Idle
  <2>1. CASE ~op[r].reload
    BY <2>1, IdleType
  <2>2. CASE op[r].reload
    <3>1. op[r] \in Local
      BY DEF IInv, TypeOK
    <3>2. l = [op[r] EXCEPT !.pc = IF op[r].todo = {} THEN "end" ELSE "next",
                            !.exam = None, !.read = 0]
      BY <2>2
    <3>. HIDE DEF l
    <3>. QED BY <2>2, <3>1, <3>2 DEF Local
  <2>. QED BY <2>1, <2>2
<1>. HIDE DEF l
<1>7. /\ op' \in [Worker -> Local]
      /\ op'[r] = l
      /\ \A o \in Worker \ {r} : op'[o] = op[o]
  BY <1>5, <1>6, Update DEF IInv
<1>8. /\ cache'[e] = n /\ e \notin unready' /\ verdict'[e] = "published"
      /\ \A d \in Exam \ {e} : /\ cache'[d] = cache[d]
                               /\ verdict'[d] = verdict[d] /\ lock'[d] = lock[d]
                               /\ Hidden(d)' <=> Hidden(d)
  BY <1>4 DEF IInv, TypeOK, Hidden
<1>9. TypeOK'
  BY <1>3, <1>4, <1>7 DEF IInv, TypeOK
<1>10. Moves(r)
  BY <1>1, <1>2, <1>4, <1>8 DEF Moves
<1>11. OpOK(r)'
  <2>1. CASE ~op[r].reload
    BY <1>6, <1>7, <2>1, IdleOK
  <2>2. CASE op[r].reload
    <3>1. op[r].pc = "publish"
      BY DEF Publish
    <3>2. /\ \A d \in Exam \cap op[r].todo : holder'[d] = r => verdict'[d] = "open"
          /\ \A d \in Exam \cap (op[r].listed \ op[r].todo) :
               holder'[d] = r => verdict'[d] # "open"
      BY <1>1, <1>4, <1>8, <3>1 DEF IInv, OpOK, Ahead
    <3>3. Loaded \subseteq op[r].listed
      BY <2>2 DEF IInv, OpOK
    <3>4. /\ op'[r].pc \in {"end", "next"} /\ (op'[r].pc = "end" => op'[r].todo = {})
          /\ op'[r].exam = None /\ op'[r].reload
          /\ op'[r].todo = op[r].todo /\ op'[r].listed = op[r].listed
      BY <1>6, <1>7, <2>2
    <3>5. None \notin op[r].todo
      BY LocalFields DEF IInv
    <3>6. Exam \cap Ahead(r)' = Exam \cap op[r].todo
      BY <3>4 DEF Ahead
    <3>7. Exam \cap (op[r].listed \ Ahead(r)') = Exam \cap (op[r].listed \ op[r].todo)
      BY <3>6
    <3>. QED BY <3>2, <3>3, <3>4, <3>5, <3>6, <3>7 DEF OpOK, Busy
  <2>. QED BY <2>1, <2>2
<1>12. Fresh'
  BY <1>1, <1>2, <1>4, <1>8 DEF IInv, Fresh
<1>13. VerdictOK'
  <2>1. e \in Loaded => ~Hidden(e)'
    BY <1>1, <1>8 DEF Hidden
  <2>. QED BY <1>8, <2>1 DEF IInv, VerdictOK
<1>14. LoadedOK'
  BY <1>1, <1>4, <1>8 DEF IInv, LoadedOK
<1>15. node = "up" /\ node' = node
  BY <1>4, Listening DEF Publish
<1>. QED BY <1>7, <1>9, <1>10, <1>11, <1>12, <1>13, <1>14, <1>15, HandlerStep

-----------------------------------------------------------------------------
(* Reloading the exams.                                                    *)
LEMMA ReloadListStep ==
  ASSUME IInv, NEW r \in Worker, ReloadList(r)
  PROVE  IInv'
<1>. USE ContentAssumption
<1>. DEFINE l == [Idle EXCEPT !.pc = "mark", !.reload = TRUE, !.listed = Persisted]
<1>1. Persisted \subseteq Exam /\ Loaded \subseteq Persisted
  BY DEF Persisted, IInv, LoadedOK
<1>2. /\ l \in Local /\ l.pc = "mark" /\ l.reload /\ l.listed = Persisted
      /\ l.exam = None /\ l.todo = {}
  BY <1>1 DEF Idle, Local
<1>3. op' = [op EXCEPT ![r] = l]
  BY DEF ReloadList
<1>. HIDE DEF l
<1>4. /\ op' \in [Worker -> Local]
      /\ op'[r] = l
      /\ \A o \in Worker \ {r} : op'[o] = op[o]
  BY <1>2, <1>3, Update DEF IInv
<1>5. UNCHANGED <<db, node, rehydrate, cache, unready, holder, lock, tool, probe,
                  behind, verdict, faults>>
  BY DEF ReloadList, memory
<1>6. TypeOK'
  BY <1>4, <1>5 DEF IInv, TypeOK
<1>7. Moves(r)
  BY <1>5 DEF Moves, Hidden
<1>8. OpOK(r)'
  BY <1>1, <1>2, <1>4 DEF OpOK, Busy, Ahead
<1>9. Fresh' /\ VerdictOK' /\ LoadedOK'
  BY <1>5 DEF IInv, Fresh, VerdictOK, LoadedOK, Hidden
<1>10. node = "up"
  BY DEF ReloadList
<1>. QED BY <1>4, <1>5, <1>6, <1>7, <1>8, <1>9, <1>10, HandlerStep

LEMMA ReloadFailsStep ==
  ASSUME IInv, NEW r \in Worker, ReloadFails(r)
  PROVE  IInv'
<1>. USE ContentAssumption
<1>1. /\ op' \in [Worker -> Local]
      /\ OpOK(r)'
      /\ \A o \in Worker \ {r} : op'[o] = op[o]
  BY Done DEF ReloadFails
<1>2. UNCHANGED <<db, node, rehydrate, cache, unready, holder, lock, probe,
                  behind, verdict>>
  BY DEF ReloadFails, memory
<1>3. TypeOK'
  BY <1>1, <1>2 DEF ReloadFails, Answer, Fault, IInv, TypeOK
<1>4. Moves(r)
  BY <1>2 DEF Moves, Hidden
<1>5. Fresh' /\ VerdictOK' /\ LoadedOK'
  BY <1>2 DEF IInv, Fresh, VerdictOK, LoadedOK, Hidden
<1>6. node = "up"
  BY Listening DEF ReloadFails
<1>. QED BY <1>1, <1>2, <1>3, <1>4, <1>5, <1>6, HandlerStep

LEMMA ReloadMarkStep ==
  ASSUME IInv, NEW r \in Worker, ReloadMark(r)
  PROVE  IInv'
<1>. USE ContentAssumption
<1>. DEFINE all == op[r].listed
            l == [op[r] EXCEPT !.pc = IF all = {} THEN "end" ELSE "next", !.todo = all]
<1>1. all \subseteq Exam /\ op[r] \in Local
  BY LocalFields DEF IInv
<1>2. op[r].exam = None /\ op[r].reload /\ Loaded \subseteq all
  BY DEF ReloadMark, IInv, OpOK
<1>3. /\ l \in Local /\ l.pc = (IF all = {} THEN "end" ELSE "next") /\ l.todo = all
      /\ l.listed = all /\ l.exam = None /\ l.reload
  BY <1>1, <1>2 DEF Local
<1>4. op' = [op EXCEPT ![r] = l]
  BY DEF ReloadMark
<1>. HIDE DEF l
<1>5. /\ op' \in [Worker -> Local]
      /\ op'[r] = l
      /\ \A o \in Worker \ {r} : op'[o] = op[o]
  BY <1>3, <1>4, Update DEF IInv
<1>6. /\ holder' = [d \in Exam |-> IF d \in Marked(r) THEN r ELSE holder[d]]
      /\ verdict' = [d \in Exam |-> IF d \in Marked(r) THEN "open" ELSE verdict[d]]
      /\ unready' = unready \cup Marked(r)
      /\ behind' = behind \ all
      /\ UNCHANGED <<db, node, rehydrate, cache, lock, tool, probe, faults>>
  BY DEF ReloadMark, Put
<1>7. Marked(r) \subseteq Exam /\ all \subseteq Marked(r)
  BY <1>1 DEF Marked, Cached
<1>8. TypeOK'
  BY <1>5, <1>6, <1>7 DEF IInv, TypeOK
<1>9. \A d \in Exam : /\ Hidden(d) => Hidden(d)'
                      /\ d \in Marked(r) => Hidden(d)'
                      /\ d \notin Marked(r) => (Hidden(d)' => Hidden(d))
  BY <1>6 DEF Hidden
<1>10. Moves(r)
  BY <1>6, <1>7, <1>9 DEF Moves
<1>11. OpOK(r)'
  BY <1>2, <1>3, <1>5, <1>6, <1>7 DEF OpOK, Busy, Ahead
<1>12. Fresh'
  BY <1>6, <1>7, <1>9 DEF IInv, Fresh
<1>13. VerdictOK'
  BY <1>6, <1>9 DEF IInv, VerdictOK
<1>14. LoadedOK'
  BY <1>6 DEF IInv, LoadedOK
<1>15. node = "up"
  BY Listening DEF ReloadMark
<1>. QED BY <1>5, <1>6, <1>8, <1>10, <1>11, <1>12, <1>13, <1>14, <1>15, HandlerStep

LEMMA ReloadLockStep ==
  ASSUME IInv, NEW r \in Worker, ReloadLock(r)
  PROVE  IInv'
<1>. USE ContentAssumption
<1>1. PICK e \in op[r].todo :
        /\ op[r].pc = "next" /\ lock[e] = None
        /\ lock' = [lock EXCEPT ![e] = r]
        /\ op' = [op EXCEPT ![r].pc = "read", ![r].exam = e, ![r].todo = @ \ {e}]
        /\ UNCHANGED <<db, node, rehydrate, cache, unready, holder, tool, probe,
                       behind, verdict, faults>>
  BY DEF ReloadLock
<1>2. e \in Exam /\ op[r] \in Local
  BY LocalFields DEF IInv
<1>. DEFINE l == [op[r] EXCEPT !.pc = "read", !.exam = e, !.todo = @ \ {e}]
<1>3. /\ l \in Local /\ l.pc = "read" /\ l.exam = e /\ l.todo = op[r].todo \ {e}
      /\ l.listed = op[r].listed /\ l.reload = op[r].reload
  BY <1>2 DEF Local
<1>4. op' = [op EXCEPT ![r] = l]
  BY <1>1
<1>. HIDE DEF l
<1>5. /\ op' \in [Worker -> Local]
      /\ op'[r] = l
      /\ \A o \in Worker \ {r} : op'[o] = op[o]
  BY <1>3, <1>4, Update DEF IInv
<1>6. lock'[e] = r /\ \A d \in Exam \ {e} : lock'[d] = lock[d]
  BY <1>1, <1>2 DEF IInv, TypeOK
<1>7. TypeOK'
  BY <1>1, <1>2, <1>5 DEF IInv, TypeOK
<1>8. Moves(r)
  BY <1>1, <1>6 DEF Moves, Hidden
<1>9. OpOK(r)'
  <2>1. op[r].exam = None /\ Loaded \subseteq op[r].listed
    BY <1>1 DEF IInv, OpOK
  <2>2. Exam \cap Ahead(r)' = Exam \cap Ahead(r)
    BY <1>3, <1>5, <2>1 DEF Ahead
  <2>3. /\ \A d \in Exam \cap Ahead(r) : holder[d] = r => verdict[d] = "open"
        /\ \A d \in Exam \cap (op[r].listed \ Ahead(r)) :
             holder[d] = r => verdict[d] # "open"
    BY <1>1 DEF IInv, OpOK
  <2>4. Exam \cap (op[r].listed \ Ahead(r)') = Exam \cap (op[r].listed \ Ahead(r))
    BY <2>2
  <2>5. /\ \A d \in Exam \cap Ahead(r)' : holder'[d] = r => verdict'[d] = "open"
        /\ \A d \in Exam \cap (op'[r].listed \ Ahead(r)') :
             holder'[d] = r => verdict'[d] # "open"
    BY <1>1, <1>3, <1>5, <2>2, <2>3, <2>4
  <2>. QED BY <1>2, <1>3, <1>5, <1>6, <2>1, <2>5 DEF OpOK, Busy
<1>10. Fresh' /\ VerdictOK' /\ LoadedOK'
  BY <1>1 DEF IInv, Fresh, VerdictOK, LoadedOK, Hidden
<1>11. node = "up"
  BY <1>1, Listening
<1>. QED BY <1>1, <1>5, <1>7, <1>8, <1>9, <1>10, <1>11, HandlerStep

LEMMA ReloadEndStep ==
  ASSUME IInv, NEW r \in Worker, ReloadEnd(r)
  PROVE  IInv'
<1>. USE ContentAssumption
<1>1. /\ op' \in [Worker -> Local]
      /\ OpOK(r)'
      /\ \A o \in Worker \ {r} : op'[o] = op[o]
  BY Done DEF ReloadEnd
<1>2. /\ Loaded \subseteq op[r].listed
      /\ \A d \in Exam \cap op[r].listed : holder[d] = r => verdict[d] # "open"
  <2>1. op[r].todo = {} /\ op[r].exam = None /\ Loaded \subseteq op[r].listed
    BY DEF ReloadEnd, IInv, OpOK
  <2>2. \A d \in Exam \cap (op[r].listed \ Ahead(r)) :
          holder[d] = r => verdict[d] # "open"
    BY DEF ReloadEnd, IInv, OpOK
  <2>. QED BY <2>1, <2>2 DEF Ahead
<1>3. /\ cache' = [d \in Exam |-> IF d \notin op[r].listed THEN 0 ELSE cache[d]]
      /\ verdict' = [d \in Exam |-> IF holder[d] = r /\ verdict[d] = "open"
                                    THEN "published" ELSE verdict[d]]
      /\ unready' = unready \ Dropped(r)
      /\ UNCHANGED <<db, node, rehydrate, holder, lock, probe, behind, faults>>
  BY DEF ReloadEnd, Put, Dropped, Abandoned
<1>4. TypeOK'
  <2>1. cache' \in [Exam -> Nat]
    BY <1>3 DEF IInv, TypeOK
  <2>2. verdict' \in [Exam -> {"none", "open", "published", "failed"}]
    BY <1>3 DEF IInv, TypeOK
  <2>3. tool' \in {"idle", "loading", "waiting", "reloaded", "skipped", "failed"}
    BY DEF ReloadEnd, Answer, IInv, TypeOK
  <2>. QED BY <1>1, <1>3, <2>1, <2>2, <2>3 DEF IInv, TypeOK
<1>5. \A d \in Exam : /\ Hidden(d) => Hidden(d)'
                      /\ d \in op[r].listed => cache'[d] = cache[d] /\ (Hidden(d)' => Hidden(d))
                      /\ d \notin op[r].listed => Hidden(d)'
  BY <1>3 DEF Hidden, Dropped
<1>6. \A d \in Exam : /\ verdict'[d] = verdict[d] \/ holder[d] = r
                      /\ verdict'[d] \in {"open", "failed"} => verdict'[d] = verdict[d]
                      /\ d \in Loaded => verdict'[d] = verdict[d]
  BY <1>2, <1>3
<1>7. Moves(r)
  BY <1>3, <1>5, <1>6 DEF Moves
<1>8. Fresh'
  BY <1>3, <1>5 DEF IInv, Fresh
<1>9. VerdictOK'
  BY <1>2, <1>5, <1>6 DEF IInv, VerdictOK
<1>10. LoadedOK'
  BY <1>2, <1>3 DEF IInv, LoadedOK
<1>11. node = "up"
  BY Listening DEF ReloadEnd
<1>. QED BY <1>1, <1>3, <1>4, <1>7, <1>8, <1>9, <1>10, <1>11, HandlerStep

-----------------------------------------------------------------------------
(* The server process, the tool and the probe.                             *)
LEMMA ServerStep ==
  ASSUME IInv, Start \/ Listen \/ Crash \/ \E e \in Exam : Rehydrate(e)
  PROVE  IInv'
<1>. USE ContentAssumption
<1>. USE DEF memory
<1>1. CASE Start \/ Listen
  <2>1. UNCHANGED <<db, cache, unready, holder, lock, op, tool, probe, behind,
                    verdict, faults>>
    BY <1>1 DEF Start, Listen
  <2>2. node # "up" /\ rehydrate' \subseteq Exam /\ node' \in {"starting", "up"}
    BY <1>1 DEF Start, Listen, Persisted, IInv, TypeOK
  <2>3. TypeOK'
    BY <2>1, <2>2 DEF IInv, TypeOK
  <2>4. \A o \in Worker : OpOK(o)'
    BY <2>1, <2>2, IdleOK DEF IInv, QuietOK
  <2>5. QuietOK' /\ Fresh' /\ VerdictOK' /\ LoadedOK'
    BY <2>1, <2>2 DEF IInv, QuietOK, Fresh, VerdictOK, LoadedOK, Hidden
  <2>. QED BY <2>3, <2>4, <2>5 DEF IInv
<1>2. CASE Crash
  <2>1. TypeOK'
    BY <1>2, IdleType DEF Crash, Fault, NoProbe, IInv, TypeOK
  <2>2. \A o \in Worker : op'[o] = Idle
    BY <1>2 DEF Crash
  <2>3. \A o \in Worker : OpOK(o)'
    BY <2>2, IdleOK
  <2>4. QuietOK'
    BY <1>2, <2>2 DEF Crash, QuietOK
  <2>5. Fresh' /\ VerdictOK' /\ LoadedOK'
    BY <1>2 DEF Crash, NoProbe, IInv, Fresh, VerdictOK, LoadedOK, Hidden
  <2>. QED BY <2>1, <2>3, <2>4, <2>5 DEF IInv
<1>3. ASSUME NEW e \in Exam, Rehydrate(e) PROVE IInv'
  <2>1. /\ \A o \in Worker : op'[o] = Idle
        /\ probe' = NoProbe /\ unready = {} /\ unready' = {} /\ node' # "up"
    BY <1>3 DEF Rehydrate, IInv, QuietOK
  <2>2. /\ cache' = [cache EXCEPT ![e] = db[e]]
        /\ verdict' = [verdict EXCEPT ![e] = "published"]
        /\ behind' = behind \ {e} /\ db' = db
    BY <1>3 DEF Rehydrate
  <2>3. TypeOK'
    BY <1>3 DEF Rehydrate, IInv, TypeOK
  <2>4. \A o \in Worker : OpOK(o)'
    BY <2>1, IdleOK
  <2>5. /\ cache'[e] = db[e] /\ verdict'[e] = "published"
        /\ \A d \in Exam \ {e} : /\ cache'[d] = cache[d] /\ verdict'[d] = verdict[d]
                                 /\ Hidden(d)' <=> Hidden(d)
    BY <2>1, <2>2 DEF IInv, TypeOK, Hidden
  <2>6. Fresh' /\ QuietOK'
    BY <2>1, <2>2, <2>5 DEF IInv, Fresh, QuietOK
  <2>7. VerdictOK'
    <3>1. e \in Loaded => ~Hidden(e)'
      <4>1. db[e] \in Nat /\ (e \in Loaded => db[e] > 0)
        BY DEF IInv, TypeOK, LoadedOK
      <4>. QED BY <2>1, <2>5, <4>1 DEF Hidden
    <3>2. \A d \in Exam : verdict'[d] \in {"open", "failed"} => Hidden(d)'
      BY <2>5 DEF IInv, VerdictOK
    <3>3. \A d \in Loaded : verdict'[d] = "published" => ~Hidden(d)'
      BY <2>5, <3>1 DEF IInv, VerdictOK
    <3>. QED BY <3>2, <3>3 DEF VerdictOK
  <2>8. LoadedOK'
    BY <2>1, <2>2 DEF IInv, LoadedOK, NoProbe
  <2>. QED BY <2>3, <2>4, <2>6, <2>7, <2>8 DEF IInv
<1>. QED BY <1>1, <1>2, <1>3

LEMMA ToolStep ==
  ASSUME IInv,
         ToolNotify \/ ToolFails \/ ToolAgain \/ \E e \in Exam : ToolLoad(e)
  PROVE  IInv'
<1>. USE ContentAssumption
<1>1. /\ UNCHANGED <<node, rehydrate, cache, unready, holder, lock, op, probe, verdict>>
      /\ behind \subseteq behind' /\ behind' \subseteq Exam
      /\ tool' \in {"idle", "loading", "waiting", "reloaded", "skipped", "failed"}
      /\ faults' \in Nat
  <2>. USE DEF memory, IInv, TypeOK
  <2>1. CASE ToolNotify
    BY <2>1 DEF ToolNotify
  <2>2. CASE ToolFails
    BY <2>2 DEF ToolFails, Fault
  <2>3. CASE ToolAgain
    BY <2>3 DEF ToolAgain
  <2>4. CASE \E e \in Exam : ToolLoad(e)
    BY <2>4 DEF ToolLoad
  <2>. QED BY <2>1, <2>2, <2>3, <2>4
<1>2. db' \in [Exam -> Nat] /\ \A d \in Exam : \/ db'[d] = db[d]
                                               \/ db'[d] > 0 /\ d \in behind'
  <2>1. CASE ToolNotify \/ ToolFails \/ ToolAgain
    BY <2>1 DEF ToolNotify, ToolFails, ToolAgain, IInv, TypeOK
  <2>2. ASSUME NEW e \in Exam, ToolLoad(e)
        PROVE  db' \in [Exam -> Nat] /\ \A d \in Exam : \/ db'[d] = db[d]
                                                        \/ db'[d] > 0 /\ d \in behind'
    <3>1. db' = [db EXCEPT ![e] = @ + 1] /\ db \in [Exam -> Nat] /\ e \in behind'
      BY <2>2 DEF ToolLoad, IInv, TypeOK
    <3>2. db[e] + 1 \in Nat /\ db[e] + 1 > 0
      BY <3>1
    <3>3. db'[e] = db[e] + 1 /\ \A d \in Exam \ {e} : db'[d] = db[d]
      BY <3>1
    <3>4. db' \in [Exam -> Nat]
      BY <3>1, <3>2
    <3>. QED BY <3>1, <3>2, <3>3, <3>4
  <2>. QED BY <2>1, <2>2
<1>3. TypeOK'
  BY <1>1, <1>2 DEF IInv, TypeOK
<1>4. Moves(None)
  BY <1>1, <1>2 DEF Moves, Hidden
<1>5. ASSUME NEW o \in Worker PROVE OpOK(o)'
  <2>1. OpOK(o) /\ op'[o] = op[o] /\ o # None
    BY <1>1 DEF IInv, Worker
  <2>. QED BY <1>4, <2>1, OthersOK
<1>6. QuietOK' /\ Fresh' /\ VerdictOK' /\ LoadedOK'
  BY <1>1, <1>2 DEF IInv, QuietOK, Fresh, VerdictOK, LoadedOK, Hidden
<1>. QED BY <1>3, <1>5, <1>6 DEF IInv

LEMMA ProbeStep ==
  ASSUME IInv, ProbeList \/ ProbeCached \/ ProbeAnswer
  PROVE  IInv'
<1>. USE ContentAssumption
<1>1. UNCHANGED <<db, node, rehydrate, cache, unready, holder, lock, op, tool,
                  behind, verdict, faults>>
  BY DEF ProbeList, ProbeCached, ProbeAnswer, memory
<1>2. /\ probe' \in [pc: {"idle", "listed", "compared"}, listed: SUBSET Exam,
                     same: BOOLEAN]
      /\ probe' # NoProbe => node = "up"
      /\ probe'.pc # "idle" => Loaded \subseteq probe'.listed
      /\ probe'.pc = "compared" /\ probe'.same => Loaded \subseteq Cached
  <2>1. CASE ProbeList
    BY <2>1 DEF ProbeList, NoProbe, Persisted, IInv, LoadedOK
  <2>2. CASE ProbeCached
    <3>. DEFINE same == probe.listed = Cached
                p == [probe EXCEPT !.pc = "compared", !.same = same]
    <3>1. probe \in [pc: {"idle", "listed", "compared"}, listed: SUBSET Exam,
                     same: BOOLEAN]
      BY DEF IInv, TypeOK
    <3>2. same \in BOOLEAN /\ (same => probe.listed = Cached)
      OBVIOUS
    <3>3. probe' = p
      BY <2>2 DEF ProbeCached
    <3>. HIDE DEF same
    <3>4. /\ p \in [pc: {"idle", "listed", "compared"}, listed: SUBSET Exam, same: BOOLEAN]
          /\ p.listed = probe.listed /\ p.pc = "compared" /\ p.same = same
      BY <3>1, <3>2
    <3>5. Loaded \subseteq probe.listed
      BY <2>2 DEF ProbeCached, IInv, LoadedOK
    <3>6. node = "up"
      BY <2>2 DEF ProbeCached, IInv, QuietOK, NoProbe
    <3>. HIDE DEF p
    <3>. QED BY <3>2, <3>3, <3>4, <3>5, <3>6
  <2>3. CASE ProbeAnswer
    BY <2>3 DEF ProbeAnswer, NoProbe
  <2>. QED BY <2>1, <2>2, <2>3
<1>3. TypeOK'
  BY <1>1, <1>2 DEF IInv, TypeOK
<1>4. Moves(None)
  BY <1>1 DEF Moves, Hidden
<1>5. ASSUME NEW o \in Worker PROVE OpOK(o)'
  <2>1. OpOK(o) /\ op'[o] = op[o] /\ o # None
    BY <1>1 DEF IInv, Worker
  <2>. QED BY <1>4, <2>1, OthersOK
<1>6. QuietOK'
  BY <1>1, <1>2 DEF IInv, QuietOK
<1>7. Fresh' /\ VerdictOK'
  BY <1>1 DEF IInv, Fresh, VerdictOK, Hidden
<1>8. LoadedOK'
  BY <1>1, <1>2 DEF IInv, LoadedOK, Cached
<1>. QED BY <1>3, <1>5, <1>6, <1>7, <1>8 DEF IInv

-----------------------------------------------------------------------------
LEMMA StutterStep ==
  ASSUME IInv, UNCHANGED vars
  PROVE  IInv'
<1>1. UNCHANGED <<db, node, rehydrate, cache, unready, holder, lock, op, tool,
                  probe, behind, verdict, faults>>
  BY DEF vars
<1>2. ASSUME NEW o \in Worker PROVE OpOK(o)'
  <2>1. OpOK(o)
    BY DEF IInv
  <2>. QED BY <1>1, <2>1 DEF OpOK, Busy, Ahead, Hidden
<1>3. TypeOK' /\ QuietOK' /\ Fresh' /\ VerdictOK' /\ LoadedOK'
  BY <1>1 DEF IInv, TypeOK, QuietOK, Fresh, VerdictOK, LoadedOK, Hidden
<1>. QED BY <1>2, <1>3 DEF IInv

LEMMA Step == IInv /\ [Next]_vars => IInv'
<1>. SUFFICES ASSUME IInv, [Next]_vars PROVE IInv'
  OBVIOUS
<1>1. ASSUME NEW r \in Worker, NEW e \in Exam, LoadBegin(r, e) PROVE IInv'
  BY <1>1, LoadBeginStep
<1>2. ASSUME NEW r \in Worker, ReloadList(r) \/ ReloadFails(r) PROVE IInv'
  BY <1>2, ReloadListStep, ReloadFailsStep
<1>3. ASSUME NEW r \in Worker, Handle(r) PROVE IInv'
  BY <1>3, LoadCommitStep, RebuildReadStep, RebuildSupersededStep, PublishStep,
     ReloadMarkStep, ReloadLockStep, ReloadEndStep DEF Handle, Rebuild
<1>4. ASSUME NEW r \in Worker, LoadRollback(r) \/ RebuildFails(r) PROVE IInv'
  BY <1>4, LoadRollbackStep, RebuildFailsStep
<1>5. CASE Start \/ Listen \/ Crash \/ \E e \in Exam : Rehydrate(e)
  BY <1>5, ServerStep
<1>6. CASE ToolNotify \/ ToolFails \/ ToolAgain \/ \E e \in Exam : ToolLoad(e)
  BY <1>6, ToolStep
<1>7. CASE ProbeList \/ ProbeCached \/ ProbeAnswer
  BY <1>7, ProbeStep
<1>8. CASE UNCHANGED vars
  BY <1>8, StutterStep
<1>. QED BY <1>1, <1>2, <1>3, <1>4, <1>5, <1>6, <1>7, <1>8 DEF Next

(* The inductive invariant holds of every behaviour of the content cache.  *)
THEOREM Inductive == Spec => []IInv
BY Initial, Step, PTL DEF Spec

(* Every variable keeps its type.                                          *)
THEOREM TypeCorrect == Spec => []TypeOK
<1>1. IInv => TypeOK
  BY DEF IInv
<1>. QED BY <1>1, Inductive, PTL

(* content_service.go:282: content that is served is the database's, but   *)
(* for rows the tool has replaced and whose rebuild has not begun.         *)
THEOREM ServesCurrentRows == Spec => []ServedIsCurrent
<1>1. IInv => ServedIsCurrent
  BY DEF IInv, TypeOK, Fresh, Hidden, ServedIsCurrent, Served, Cached
<1>. QED BY <1>1, Inductive, PTL

(* While the operation with an exam's latest token runs, and when it has   *)
(* failed, nothing of the exam is served.                                  *)
THEOREM LatestOperationDecides == Spec => []LatestDecides
<1>1. IInv => LatestDecides
  BY DEF IInv, TypeOK, VerdictOK, Hidden, LatestDecides, Served, Cached
<1>. QED BY <1>1, Inductive, PTL

(* An exam known from the start whose latest load or reload has succeeded  *)
(* is served, whatever else was loaded or reloaded meanwhile.              *)
THEOREM ServesWhatWasPublished == Spec => []PublishedIsServed
<1>1. IInv => PublishedIsServed
  <2>. SUFFICES ASSUME IInv, NEW e \in Loaded, node = "up", verdict[e] = "published"
       PROVE  Served(e)
    BY DEF PublishedIsServed
  <2>1. e \in Exam /\ cache[e] \in Nat /\ ~Hidden(e)
    BY ContentAssumption DEF IInv, TypeOK, VerdictOK
  <2>. QED BY <2>1 DEF Hidden, Served, Cached
<1>. QED BY <1>1, Inductive, PTL

(* A /readyz that answers "ready" vouches for every exam known from the    *)
(* start, although its three readings are steps of their own.              *)
THEOREM ReadyMeansServed == Spec => ReadyIsServed
<1>1. IInv /\ [Next]_vars =>
        [ProbeAnswer /\ Ready => \A e \in Loaded : Served(e)]_vars
  <2>. SUFFICES ASSUME IInv, ProbeAnswer, Ready, NEW e \in Loaded
       PROVE  Served(e)
    OBVIOUS
  <2>1. e \in Exam /\ cache[e] > 0
    BY ContentAssumption DEF ProbeAnswer, Ready, IInv, LoadedOK
  <2>2. node = "up"
    BY DEF ProbeAnswer, NoProbe, IInv, QuietOK
  <2>. QED BY <2>1, <2>2 DEF Ready, Served, Cached
<1>. QED BY <1>1, Inductive, PTL DEF Spec, ReadyIsServed
=============================================================================
