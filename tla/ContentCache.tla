---------------------------- MODULE ContentCache ----------------------------
(***************************************************************************)
(* The content of each exam is kept in the server's memory, built from the *)
(* exam's rows.  Central pushes bundles to the running server, the         *)
(* bundleload tool replaces rows behind the server's back and then asks it *)
(* to reload, and a starting server builds everything before it listens.   *)
(*                                                                         *)
(* A generation token is only ever compared with the current generation,   *)
(* so the model keeps, for each exam, who drew its latest token.  Steps    *)
(* are the critical sections of ContentService.mu and the statements and   *)
(* transactions at the database.                                           *)
(***************************************************************************)
EXTENDS Naturals, FiniteSets

CONSTANTS
  Exam,            \* exam ids, numbers so that they can be sorted
  Loaded,          \* exams in the database at first
  Request,         \* handler goroutines of Central's pushes and reloads
  Tool,            \* the handler goroutine of the tool's reload request
  None,
  MaxVersion, MaxFaults    \* bounds of the model

ASSUME ContentAssumption ==
  /\ Exam \subseteq Nat /\ Loaded \subseteq Exam
  /\ Tool \notin Request /\ None \notin Request \cup {Tool} \cup Exam
  /\ MaxVersion \in Nat /\ MaxFaults \in Nat

VARIABLES
  db,        \* version of each exam's rows, 0 without rows
  node,      \* the server process: down, starting or up (listening)
  rehydrate, \* exams that a starting server has yet to build
  cache,     \* version of each exam's cached content, 0 without
  unready,   \* exams in ContentService.unready
  holder,    \* who drew the latest generation token of each exam
  lock,      \* holder of each exam's load mutex
  op,        \* locals of the handler each goroutine is running
  tool,      \* bundleload: its step
  probe,     \* /readyz: its step and what it has read
  behind,    \* history: rows replaced by the tool, rebuild not yet begun
  verdict,   \* history: how the operation with the latest token ended
  faults     \* crashes and failed calls so far

memory == <<cache, unready, holder, lock>>
vars == <<db, node, rehydrate, cache, unready, holder, lock, op, tool, probe,
          behind, verdict, faults>>

Worker == Request \cup {Tool}

Local == [pc: {"idle", "commit", "read", "publish", "mark", "next", "end"},
          reload: BOOLEAN, exam: Exam \cup {None}, listed: SUBSET Exam,
          todo: SUBSET Exam, read: Nat]

TypeOK ==
  /\ db \in [Exam -> Nat]
  /\ node \in {"down", "starting", "up"}
  /\ rehydrate \subseteq Exam
  /\ cache \in [Exam -> Nat]
  /\ unready \subseteq Exam
  /\ holder \in [Exam -> Worker \cup {None}]
  /\ lock \in [Exam -> Worker \cup {None}]
  /\ op \in [Worker -> Local]
  /\ tool \in {"idle", "loading", "waiting", "reloaded", "skipped", "failed"}
  /\ probe \in [pc: {"idle", "listed", "compared"}, listed: SUBSET Exam,
                same: BOOLEAN]
  /\ behind \subseteq Exam
  /\ verdict \in [Exam -> {"none", "open", "published", "failed"}]
  /\ faults \in Nat

-----------------------------------------------------------------------------
Idle == [pc |-> "idle", reload |-> FALSE, exam |-> None, listed |-> {},
         todo |-> {}, read |-> 0]

NoProbe == [pc |-> "idle", listed |-> {}, same |-> FALSE]

Init ==
  /\ db = [e \in Exam |-> IF e \in Loaded THEN 1 ELSE 0]
  /\ node = "down"
  /\ rehydrate = {}
  /\ cache = [e \in Exam |-> 0]
  /\ unready = {}
  /\ holder = [e \in Exam |-> None]
  /\ lock = [e \in Exam |-> None]
  /\ op = [r \in Worker |-> Idle]
  /\ tool = "idle"
  /\ probe = NoProbe
  /\ behind = {}
  /\ verdict = [e \in Exam |-> "none"]
  /\ faults = 0

Persisted == {e \in Exam : db[e] > 0}
Cached    == {e \in Exam : cache[e] > 0}

(* GetExamContent answers with content.                                    *)
Served(e) == node = "up" /\ e \in Cached \ unready

Fault == faults < MaxFaults /\ faults' = faults + 1

(* Functions f with the value v at every point of S.                       *)
Put(f, S, v) == [e \in Exam |-> IF e \in S THEN v ELSE f[e]]

(* Mutant of Answer: an error is passed on as it is.                       *)
AnswerRaw(r, end) ==
  tool' = IF r # Tool THEN tool ELSE IF end = "failed" THEN "error" ELSE end

(* What the tool is told when its reload request ends.                     *)
Answer(r, end) == tool' = IF r = Tool THEN end ELSE tool

-----------------------------------------------------------------------------
(* LoadBundle in the server, for a bundle that passed its checks.          *)

(* LockExam and BeginRebuild                                               *)
LoadBegin(r, e) ==
  /\ node = "up" /\ r \in Request /\ op[r].pc = "idle"
  /\ lock[e] = None /\ db[e] < MaxVersion
  /\ lock' = [lock EXCEPT ![e] = r]
  /\ holder' = [holder EXCEPT ![e] = r]
  /\ unready' = unready \cup {e}
  /\ op' = [op EXCEPT ![r] = [Idle EXCEPT !.pc = "commit", !.exam = e]]
  /\ behind' = behind \ {e}
  /\ verdict' = [verdict EXCEPT ![e] = "open"]
  /\ UNCHANGED <<db, node, rehydrate, cache, tool, probe, faults>>

LoadCommit(r) ==
  /\ op[r].pc = "commit"
  /\ db' = [db EXCEPT ![op[r].exam] = @ + 1]
  /\ op' = [op EXCEPT ![r].pc = "read"]
  /\ UNCHANGED <<node, rehydrate, memory, tool, probe, behind, verdict, faults>>

(* Mutant of CancelRebuild: the previous version is served again.          *)
CancelToPrevious(r, e) ==
  IF holder[e] # r THEN UNCHANGED <<unready, verdict>>
  ELSE /\ unready' = unready \ {e}
       /\ verdict' = [verdict EXCEPT ![e] = "failed"]

(* CancelRebuild: without a cached version the marker goes away.           *)
CancelRebuild(r, e) ==
  IF holder[e] # r THEN UNCHANGED <<unready, verdict>>
  ELSE /\ unready' = IF e \in Cached THEN unready \cup {e} ELSE unready \ {e}
       /\ verdict' = [verdict EXCEPT ![e] = "failed"]

LoadRollback(r) ==
  LET e == op[r].exam IN
  /\ op[r].pc = "commit" /\ Fault
  /\ CancelRebuild(r, e)
  /\ lock' = [lock EXCEPT ![e] = None]
  /\ op' = [op EXCEPT ![r] = Idle]
  /\ UNCHANGED <<db, node, rehydrate, cache, holder, tool, probe, behind>>

-----------------------------------------------------------------------------
(* RebuildExam, inside the exam's mutex, for a load and for a reload.      *)

Current(r) == holder[op[r].exam] = r

(* The exams a reload gives up on, with the error it returns.              *)
Abandoned(r) ==
  {e \in Exam : holder[e] = r /\ verdict[e] = "open"}

(* Mutant of Fail: returns before the mutex is unlocked.                   *)
FailLocked(r) ==
  /\ op' = [op EXCEPT ![r] = Idle]
  /\ verdict' = Put(verdict, Abandoned(r), "failed")
  /\ Answer(r, "failed")
  /\ UNCHANGED lock

(* The handler returns an error; its exams stay unready.                   *)
Fail(r) ==
  /\ lock' = [lock EXCEPT ![op[r].exam] = None]
  /\ op' = [op EXCEPT ![r] = Idle]
  /\ verdict' = Put(verdict, Abandoned(r), "failed")
  /\ Answer(r, "failed")

(* The token is compared before the rows are read.                         *)
RebuildRead(r) ==
  /\ op[r].pc = "read" /\ Current(r)
  /\ op' = [op EXCEPT ![r].pc = "publish", ![r].read = db[op[r].exam]]
  /\ UNCHANGED <<db, node, rehydrate, memory, tool, probe, behind, verdict,
                 faults>>

(* Mutant of Superseded: the token is not compared again.                  *)
SupersededBeforeRead(r) == op[r].pc = "read" /\ ~Current(r)

Superseded(r) == op[r].pc \in {"read", "publish"} /\ ~Current(r)

RebuildSuperseded(r) ==
  /\ Superseded(r)
  /\ Fail(r)
  /\ UNCHANGED <<db, node, rehydrate, cache, unready, holder, probe, behind,
                 faults>>

(* Reading or encoding fails: markUnready, whoever holds the token.        *)
RebuildFails(r) ==
  /\ op[r].pc = "publish" /\ Fault
  /\ unready' = unready \cup {op[r].exam}
  /\ Fail(r)
  /\ UNCHANGED <<db, node, rehydrate, cache, holder, probe, behind>>

Publish(r) ==
  LET e == op[r].exam IN
  /\ op[r].pc = "publish" /\ ~Superseded(r)
  /\ cache' = [cache EXCEPT ![e] = op[r].read]
  /\ unready' = unready \ {e}
  /\ verdict' = IF Current(r) THEN [verdict EXCEPT ![e] = "published"]
                ELSE verdict
  /\ lock' = [lock EXCEPT ![e] = None]
  /\ op' = [op EXCEPT ![r] =
              IF ~op[r].reload THEN Idle
              ELSE [@ EXCEPT !.pc = IF op[r].todo = {} THEN "end"
                                     ELSE "next",
                             !.exam = None, !.read = 0]]
  /\ UNCHANGED <<db, node, rehydrate, holder, tool, probe, behind, faults>>

-----------------------------------------------------------------------------
(* ReloadAllCaches                                                         *)

ReloadList(r) ==
  /\ node = "up" /\ op[r].pc = "idle"
  /\ r = Tool => tool = "waiting"
  /\ op' = [op EXCEPT ![r] = [Idle EXCEPT !.pc = "mark", !.reload = TRUE,
                                          !.listed = Persisted]]
  /\ UNCHANGED <<db, node, rehydrate, memory, tool, probe, behind, verdict,
                 faults>>

(* The list cannot be read.                                                *)
ReloadFails(r) ==
  /\ op[r].pc = "mark" /\ Fault
  /\ op' = [op EXCEPT ![r] = Idle]
  /\ Answer(r, "failed")
  /\ UNCHANGED <<db, node, rehydrate, memory, probe, behind, verdict>>

(* A token for every exam listed or cached.                                *)
Marked(r) == Cached \cup op[r].listed

ReloadMark(r) ==
  /\ op[r].pc = "mark"
  /\ holder' = Put(holder, Marked(r), r)
  /\ unready' = unready \cup Marked(r)
  /\ verdict' = Put(verdict, Marked(r), "open")
  /\ behind' = behind \ op[r].listed
  /\ op' = [op EXCEPT ![r].pc = IF op[r].listed = {} THEN "end" ELSE "next",
                      ![r].todo = op[r].listed]
  /\ UNCHANGED <<db, node, rehydrate, cache, lock, tool, probe, faults>>

(* LockExam of the next exam by id                                         *)
ReloadLock(r) ==
  \E e \in op[r].todo :
    /\ op[r].pc = "next"
    /\ \A d \in op[r].todo : e <= d
    /\ lock[e] = None
    /\ lock' = [lock EXCEPT ![e] = r]
    /\ op' = [op EXCEPT ![r].pc = "read", ![r].exam = e, ![r].todo = @ \ {e}]
    /\ UNCHANGED <<db, node, rehydrate, cache, unready, holder, tool, probe,
                   behind, verdict, faults>>

(* Mutant of Dropped: compared with what is left to do.                    *)
DroppedNotTodo(r) == Exam \ op[r].todo

(* Whatever was not in the list.                                           *)
Dropped(r) == Exam \ op[r].listed

ReloadEnd(r) ==
  /\ op[r].pc = "end"
  /\ cache' = Put(cache, Dropped(r), 0)
  /\ unready' = unready \ Dropped(r)
  /\ verdict' = Put(verdict, Abandoned(r), "published")
  /\ op' = [op EXCEPT ![r] = Idle]
  /\ Answer(r, "reloaded")
  /\ UNCHANGED <<db, node, rehydrate, holder, lock, probe, behind, faults>>

-----------------------------------------------------------------------------
(* The server process.                                                     *)

Start ==
  /\ node = "down"
  /\ node' = "starting"
  /\ rehydrate' = Persisted
  /\ UNCHANGED <<db, memory, op, tool, probe, behind, verdict, faults>>

(* RebuildExam without a token                                             *)
Rehydrate(e) ==
  /\ node = "starting" /\ e \in rehydrate
  /\ rehydrate' = rehydrate \ {e}
  /\ cache' = [cache EXCEPT ![e] = db[e]]
  /\ behind' = behind \ {e}
  /\ verdict' = [verdict EXCEPT ![e] = "published"]
  /\ UNCHANGED <<db, node, unready, holder, lock, op, tool, probe, faults>>

Listen ==
  /\ node = "starting" /\ rehydrate = {}
  /\ node' = "up"
  /\ UNCHANGED <<db, rehydrate, memory, op, tool, probe, behind, verdict,
                 faults>>

(* The process dies, also when it cannot build an exam at its start.       *)
Crash ==
  /\ node # "down" /\ Fault
  /\ node' = "down"
  /\ rehydrate' = {}
  /\ cache' = [e \in Exam |-> 0] /\ unready' = {}
  /\ holder' = [e \in Exam |-> None] /\ lock' = [e \in Exam |-> None]
  /\ op' = [r \in Worker |-> Idle]
  /\ tool' = IF tool = "waiting" THEN "failed" ELSE tool
  /\ probe' = NoProbe
  /\ verdict' = [e \in Exam |-> "none"]
  /\ UNCHANGED <<db, behind>>

-----------------------------------------------------------------------------
(* bundleload replaces the rows of some exams and then asks for a reload.  *)

ToolLoad(e) ==
  /\ tool \in {"idle", "loading"} /\ db[e] < MaxVersion
  /\ db' = [db EXCEPT ![e] = @ + 1]
  /\ behind' = behind \cup {e}
  /\ tool' = "loading"
  /\ UNCHANGED <<node, rehydrate, memory, op, probe, verdict, faults>>

(* Connected, or refused while nothing listens.                            *)
ToolNotify ==
  /\ tool = "loading"
  /\ tool' = IF node = "up" THEN "waiting" ELSE "skipped"
  /\ UNCHANGED <<db, node, rehydrate, memory, op, probe, behind, verdict,
                 faults>>

(* A bundle cannot be loaded, or the request times out.                    *)
ToolFails ==
  /\ tool \in {"loading", "waiting"} /\ op[Tool].pc = "idle" /\ Fault
  /\ tool' = "failed"
  /\ UNCHANGED <<db, node, rehydrate, memory, op, probe, behind, verdict>>

ToolAgain ==
  /\ tool \in {"reloaded", "skipped", "failed"}
  /\ tool' = "idle"
  /\ UNCHANGED <<db, node, rehydrate, memory, op, probe, behind, verdict,
                 faults>>

-----------------------------------------------------------------------------
(* /readyz reads the database, then the cache, then the unready exams.     *)

ProbeList ==
  /\ node = "up" /\ probe.pc = "idle"
  /\ probe' = [NoProbe EXCEPT !.pc = "listed", !.listed = Persisted]
  /\ UNCHANGED <<db, node, rehydrate, memory, op, tool, behind, verdict, faults>>

ProbeCached ==
  /\ probe.pc = "listed"
  /\ probe' = [probe EXCEPT !.pc = "compared",
                            !.same = probe.listed = Cached]
  /\ UNCHANGED <<db, node, rehydrate, memory, op, tool, behind, verdict, faults>>

(* Mutant of Ready: the cache alone is looked at.                          *)
ReadyCached == probe.listed # {} /\ probe.same

(* What /readyz answers at its last step.                                  *)
Ready == probe.listed # {} /\ probe.same /\ unready = {}

ProbeAnswer ==
  /\ probe.pc = "compared"
  /\ probe' = NoProbe
  /\ UNCHANGED <<db, node, rehydrate, memory, op, tool, behind, verdict, faults>>

-----------------------------------------------------------------------------
Rebuild(r) == RebuildRead(r) \/ RebuildSuperseded(r) \/ Publish(r)

Handle(r) ==
  \/ LoadCommit(r)
  \/ Rebuild(r)
  \/ ReloadMark(r)
  \/ ReloadLock(r)
  \/ ReloadEnd(r)

Next ==
  \/ \E r \in Worker :
       \/ \E e \in Exam : LoadBegin(r, e)
       \/ ReloadList(r)
       \/ Handle(r)
       \/ LoadRollback(r) \/ RebuildFails(r) \/ ReloadFails(r)
  \/ Start
  \/ \E e \in Exam : Rehydrate(e) \/ ToolLoad(e)
  \/ Listen
  \/ Crash
  \/ ToolNotify \/ ToolFails \/ ToolAgain
  \/ ProbeList \/ ProbeCached \/ ProbeAnswer

(* A handler goes on; a goroutine that waits for a mutex gets it in the    *)
(* end, as Go's mutexes hand over to the longest waiter.                   *)
Fairness == \A r \in Worker : WF_vars(Handle(r)) /\ SF_vars(ReloadLock(r))

Spec == Init /\ [][Next]_vars
FairSpec == Spec /\ Fairness

-----------------------------------------------------------------------------
(* content_service.go:282: stale content is never served while the         *)
(* database holds newer rows, but for rows that the tool has just replaced *)
(* and whose rebuild has not begun.                                        *)
ServedIsCurrent ==
  \A e \in Exam \ behind : Served(e) => cache[e] = db[e]

(* Of several operations on one exam, the one with the latest token        *)
(* decides: while it runs, and when it has failed, nothing is served.      *)
LatestDecides ==
  \A e \in Exam : verdict[e] \in {"open", "failed"} => ~Served(e)

(* An exam known from the start whose latest load or reload has succeeded  *)
(* is served, whatever else was loaded or reloaded meanwhile.  (What can   *)
(* happen to an exam that is new is ReloadRebuildsAll's matter.)           *)
PublishedIsServed ==
  \A e \in Loaded : node = "up" /\ verdict[e] = "published" => Served(e)

(* When /readyz answers that the node is ready, every exam known from the  *)
(* start is served, although it reads three things at three times.         *)
ReadyIsServed ==
  [][ProbeAnswer /\ Ready => \A e \in Loaded : Served(e)]_vars

(* Every load and reload ends: none waits for a mutex for ever.            *)
OperationsEnd == \A r \in Worker : op[r].pc # "idle" ~> op[r].pc = "idle"

(* content_service.go:186 "ReloadAllCaches rebuilds every persisted exam    *)
(* cache": when one ends without an error, every persisted exam that the   *)
(* tool has not replaced since has its content cached.                     *)
ReloadRebuildsAll ==
  [][\A r \in Worker :
       ReloadEnd(r) => \A e \in Persisted \ behind : cache'[e] > 0]_vars
=============================================================================
