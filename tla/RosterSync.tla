----------------------------- MODULE RosterSync -----------------------------
(***************************************************************************)
(* Participants who are added after an exam's bundle was deployed reach    *)
(* the node as events that Central numbers by deployment.  The roster      *)
(* worker pulls the pending ones, replays a deployment's history where a   *)
(* revision is missing or the database is new, applies each event in a     *)
(* transaction of its own and reports the outcome to Central.              *)
(*                                                                         *)
(* There is one exam, which is given to the node under one deployment at a *)
(* time.  A transaction is one step, since it holds the exam's row.  So is *)
(* a bundle that is pushed to the node, or loaded while the node is down:  *)
(* the exam's load mutex keeps the worker out.  That mutex is the node's   *)
(* own: a bundleload beside the running node is a process of its own, and  *)
(* the worker may come between its check and its transaction.              *)
(***************************************************************************)
EXTENDS Naturals, FiniteSets

CONSTANTS
  Deployment,      \* deployments of the exam, numbers so that they can be sorted
  First,           \* the one the node holds at first, None for a new node
  Pushed,          \* those whose bundle may be loaded on the node
  Conflicting,     \* events whose code or student is already someone else's
  Malformed,       \* events that the node cannot take in: a field is missing, or
                   \* the node has a receipt for another payload of theirs
  Listed,          \* by deployment: whom its bundle lists though another
                   \* deployment adds them by an event
  Page,            \* events in one answer of Central
  None,
  Last, MaxFaults  \* bounds of the model: revisions by deployment, faults

Event == UNION {{d} \X (1..Last[d]) : d \in Deployment}
Dep(e) == e[1]
Rev(e) == e[2]

ASSUME RosterAssumption ==
  /\ Deployment \subseteq Nat /\ Pushed \subseteq Deployment
  /\ None \notin Deployment /\ First \in Deployment \cup {None}
  /\ Last \in [Deployment -> Nat] /\ MaxFaults \in Nat /\ Page \in Nat \ {0}
  /\ Conflicting \subseteq Event /\ Malformed \subseteq Event
  /\ \A d \in Deployment : /\ Listed[d] \subseteq {e \in Event : Dep(e) # d}
                           /\ IsFiniteSet(Listed[d])

VARIABLES
  exam,      \* the exam's row: deployment (None without a row), revision,
             \* fence, and the participants in its content hash
  roster,    \* participants, by their event: roster_revision, 0 from a bundle
  receipts,  \* roster_event_receipts: status by event
  central,   \* Central: status of each event
  over,      \* whether deadlines and the exam's end have passed
  worker,    \* locals of RosterWorker.PollOnce
  loading,   \* bundles for which a bundleload beside the node is past its check
  overrun,   \* whether one has replaced a roster that had become immutable
  faults     \* failed calls, crashes, lost databases and such bundleloads so far

database == <<exam, roster, receipts>>
tool == <<loading, overrun>>
vars == <<database, central, over, worker, tool, faults>>

Decided == {"applied", "rejected", "cancelled", "expired"}
CentralStatus == Decided \cup {"none", "pending"}
Snapshot == Event \X (CentralStatus \ {"none"})

NoExam == [deployment |-> None, revision |-> 0, fenced |-> FALSE, hash |-> {}]
NoRoster == [e \in {} |-> 0]
NoReceipts == [e \in Event |-> "none"]

Idle == [pc |-> "idle", pulled |-> {}, page |-> {}, more |-> FALSE,
         deployment |-> None, after |-> 0,
         gap |-> {}, done |-> {}, outcome |-> "none"]

TypeOK ==
  /\ exam \in [deployment : Pushed \cup {First, None}, revision : Nat,
               fenced : BOOLEAN, hash : SUBSET Event]
  /\ DOMAIN roster \subseteq Event /\ \A e \in DOMAIN roster : roster[e] \in {0, Rev(e)}
  /\ receipts \in [Event -> Decided \cup {"none"}]
  /\ central \in [Event -> CentralStatus]
  /\ over \in BOOLEAN
  /\ worker \in [pc : {"idle", "group", "fetch", "page"},
                 pulled : SUBSET Snapshot, page : SUBSET Snapshot,
                 more : BOOLEAN, deployment : Deployment \cup {None},
                 after : Nat,
                 gap : SUBSET Event, done : SUBSET Event,
                 outcome : {"none", "applied", "rejected"}]
  /\ loading \subseteq Pushed /\ overrun \in BOOLEAN
  /\ faults \in 0..MaxFaults

ListedFirst == IF First = None THEN {} ELSE Listed[First]

Init ==
  /\ exam = [NoExam EXCEPT !.deployment = First, !.hash = ListedFirst]
  /\ roster = [e \in ListedFirst |-> 0] /\ receipts = NoReceipts
  /\ central = [e \in Event |-> "none"]
  /\ over = FALSE
  /\ worker = Idle
  /\ loading = {} /\ overrun = FALSE
  /\ faults = 0

Fault == faults < MaxFaults /\ faults' = faults + 1

-----------------------------------------------------------------------------
(* RosterService.Apply, in the order of its checks.                        *)

NotLoaded == exam.deployment = None
Fails(e) == e \in Malformed \/ NotLoaded
Known(e) == receipts[e] # "none"
Foreign(e) == Dep(e) # exam.deployment

Gap(e) == Rev(e) # exam.revision + 1

(* Mutants of TooLate: history is held to the deadline too; the fence is   *)
(* not looked at.                                                          *)
TooLateForHistory(s) == exam.fenced \/ over
TooLateUnfenced(s) == s = "pending" /\ over

TooLate(s) == s = "pending" /\ (exam.fenced \/ over)

Refused(e, s) ==
  \/ s \in {"cancelled", "rejected", "expired"}
  \/ TooLate(s)
  \/ e \in Conflicting

(* Mutant of RefusalReceipt: the receipt keeps the event's status.         *)
RefusalAsIs(s) == s

RefusalReceipt(s) == IF s \in {"cancelled", "expired"} THEN s ELSE "rejected"

(* Mutant of RefusedRevision: a refused event does not use its number up.  *)
RevisionKept(e) == exam.revision

RefusedRevision(e) == Rev(e)

(* A participant who is there already stays as it is.                      *)
Inserted(e) == [p \in DOMAIN roster \cup {e} |->
                  IF p \in DOMAIN roster THEN roster[p] ELSE Rev(e)]

(* Mutant of Rehashed: the hash stays that of the bundle.                  *)
RevisionOnly(e) == [exam EXCEPT !.revision = Rev(e)]

Rehashed(e) == [exam EXCEPT !.revision = Rev(e), !.hash = DOMAIN Inserted(e)]

(* The transaction when it returns an outcome.                             *)
Apply(e, s) ==
  /\ ~Fails(e)
  /\ \/ /\ Known(e)
        /\ UNCHANGED database
     \/ /\ ~Known(e) /\ Foreign(e)
        /\ receipts' = [receipts EXCEPT ![e] = RefusalReceipt(s)]
        /\ UNCHANGED <<exam, roster>>
     \/ /\ ~Known(e) /\ ~Foreign(e) /\ ~Gap(e) /\ Refused(e, s)
        /\ receipts' = [receipts EXCEPT ![e] = RefusalReceipt(s)]
        /\ exam' = [exam EXCEPT !.revision = RefusedRevision(e)]
        /\ UNCHANGED roster
     \/ /\ ~Known(e) /\ ~Foreign(e) /\ ~Gap(e) /\ ~Refused(e, s)
        /\ receipts' = [receipts EXCEPT ![e] = "applied"]
        /\ roster' = Inserted(e)
        /\ exam' = Rehashed(e)

RevisionGap(e) == ~Fails(e) /\ ~Known(e) /\ ~Foreign(e) /\ Gap(e)

(* rosterOutcomeFromReceipt, once the transaction has left this receipt.   *)
Outcome(receipt) == IF receipt = "applied" THEN "applied" ELSE "rejected"

Acknowledged(s) == s \in {"pending", "applied"}

-----------------------------------------------------------------------------
(* RosterWorker.PollOnce.  pulled and page hold what Central answered, with *)
(* the status at that time; both are worked off by deployment and revision. *)

Before(p, q) ==
  \/ Dep(p[1]) < Dep(q[1])
  \/ Dep(p[1]) = Dep(q[1]) /\ Rev(p[1]) <= Rev(q[1])

Todo(batch) == {p \in batch : p[1] \notin worker.done}
Least(batch) == CHOOSE p \in batch : \A q \in batch : Before(p, q)

Pending == {e \in Event : central[e] = "pending"}
Smaller(m, n) == IF m < n THEN m ELSE n

(* Central chooses which pending events to send first.                     *)
Pull ==
  /\ worker.pc = "idle"
  /\ \E sent \in SUBSET Pending :
       /\ Cardinality(sent) = Smaller(Page, Cardinality(Pending))
       /\ worker' = [Idle EXCEPT !.pc = "group",
                                 !.pulled = sent \X {"pending"}]
  /\ UNCHANGED <<database, central, over, tool, faults>>

(* The event that has been applied is to be reported, or is done with.     *)
Answered(e, s) ==
  IF Acknowledged(s)
  THEN [worker EXCEPT !.outcome = Outcome(receipts'[e])]
  ELSE [worker EXCEPT !.done = @ \cup {e}]

Reported(e) == [worker EXCEPT !.outcome = "none", !.done = @ \cup {e}]

(* Central takes an outcome of a pending event only.                       *)
Acked(e) ==
  IF central[e] = "pending" THEN [central EXCEPT ![e] = worker.outcome]
                            ELSE central

(* An event of the pull: applied, or left for a later poll after an error, *)
(* or, where revisions are missing, put off for a replay from the start.   *)
ApplyPulled ==
  /\ worker.pc = "group" /\ worker.outcome = "none"
  /\ Todo(worker.pulled) # {}
  /\ LET p == Least(Todo(worker.pulled)) IN
       \/ /\ Apply(p[1], p[2])
          /\ worker' = Answered(p[1], p[2])
          /\ UNCHANGED faults
       \/ /\ RevisionGap(p[1])
          /\ worker' = [worker EXCEPT !.pc = "fetch", !.after = 0,
                                      !.deployment = Dep(p[1]),
                                      !.gap = {p[1]}]
          /\ UNCHANGED <<database, faults>>
       \/ /\ (Fails(p[1]) /\ UNCHANGED faults) \/ Fault
          /\ worker' = [worker EXCEPT !.pulled = @ \ {p}]
          /\ UNCHANGED database
  /\ UNCHANGED <<central, over, tool>>

(* A report that fails is not repeated in this poll.                       *)
AckPulled ==
  /\ worker.pc = "group" /\ worker.outcome # "none"
  /\ LET e == Least(Todo(worker.pulled))[1] IN
       /\ \/ central' = Acked(e) /\ UNCHANGED faults
          \/ UNCHANGED central /\ Fault
       /\ worker' = Reported(e)
  /\ UNCHANGED <<database, over, tool>>

(* Mutant of Recoverable: a database without any roster event is left out. *)
RecoverableStarted ==
  exam.deployment # None /\ ~exam.fenced /\ exam.revision > 0

Recoverable == exam.deployment # None /\ ~exam.fenced

(* All groups done: the loaded exam is brought up to date.                 *)
ListExams ==
  /\ worker.pc = "group" /\ worker.outcome = "none"
  /\ Todo(worker.pulled) = {}
  /\ worker' = IF Recoverable
               THEN [worker EXCEPT !.pc = "fetch", !.after = exam.revision,
                                   !.deployment = exam.deployment, !.pulled = {}]
               ELSE Idle
  /\ UNCHANGED <<database, central, over, tool, faults>>

(* replayDeployment returns, to the group whose gap it closed or to the    *)
(* end of the poll.  After an error the rest of the group is given up.     *)
Recovering == worker.gap = {}

ReplayDone ==
  IF Recovering THEN Idle
  ELSE [worker EXCEPT !.pc = "group", !.page = {}, !.more = FALSE,
                      !.deployment = None, !.after = 0, !.gap = {},
                      !.done = @ \cup worker.gap]

ReplayAborted ==
  IF Recovering THEN Idle
  ELSE [worker EXCEPT !.pc = "group", !.page = {}, !.more = FALSE,
                      !.deployment = None, !.after = 0, !.gap = {},
                      !.outcome = "none",
                      !.pulled = {p \in @ : Dep(p[1]) # worker.deployment}]

History(d, after) ==
  {<<e, central[e]>> : e \in {f \in Event : /\ Dep(f) = d
                                            /\ Rev(f) \in after + 1..after + Page
                                            /\ central[f] # "none"}}

Fetch ==
  /\ worker.pc = "fetch"
  /\ LET sent == History(worker.deployment, worker.after) IN
       \/ /\ sent = {}
          /\ worker' = ReplayDone
          /\ UNCHANGED faults
       \/ /\ sent # {}
          /\ worker' = [worker EXCEPT !.pc = "page", !.page = sent,
                                      !.after = @ + Cardinality(sent),
                                      !.more = Cardinality(sent) = Page]
          /\ UNCHANGED faults
       \/ Fault /\ worker' = ReplayAborted
  /\ UNCHANGED <<database, central, over, tool>>

ApplyReplayed ==
  /\ worker.pc = "page" /\ worker.outcome = "none"
  /\ Todo(worker.page) # {}
  /\ LET p == Least(Todo(worker.page)) IN
       \/ /\ Apply(p[1], p[2])
          /\ worker' = Answered(p[1], p[2])
          /\ UNCHANGED faults
       \/ /\ \/ (Fails(p[1]) \/ RevisionGap(p[1])) /\ UNCHANGED faults
             \/ Fault
          /\ worker' = ReplayAborted
          /\ UNCHANGED database
  /\ UNCHANGED <<central, over, tool>>

(* A replay ends with a report that fails, before or after it took effect. *)
AckReplayed ==
  /\ worker.pc = "page" /\ worker.outcome # "none"
  /\ LET e == Least(Todo(worker.page))[1] IN
       \/ /\ central' = Acked(e)
          /\ worker' = Reported(e)
          /\ UNCHANGED faults
       \/ /\ central' \in {central, Acked(e)} /\ Fault
          /\ worker' = ReplayAborted
  /\ UNCHANGED <<database, over, tool>>

(* A full page may not be the last one.                                    *)
PageDone ==
  /\ worker.pc = "page" /\ worker.outcome = "none"
  /\ Todo(worker.page) = {}
  /\ worker' = IF worker.more
               THEN [worker EXCEPT !.pc = "fetch", !.page = {}, !.more = FALSE]
               ELSE ReplayDone
  /\ UNCHANGED <<database, central, over, tool, faults>>

-----------------------------------------------------------------------------
(* Bundle loads, the fence and the life of the node's database.            *)

(* Mutant of Immutable: a bundle may always be loaded again.               *)
NeverImmutable(d) == FALSE

Immutable(d) == exam.deployment = d /\ exam.revision > 0

(* ReplaceBundle: a new exam row, and the participants of the bundle only; *)
(* the row of one who was there before keeps its roster_revision.          *)
ReplaceBundle(d) ==
  /\ exam' = [NoExam EXCEPT !.deployment = d, !.hash = Listed[d]]
  /\ roster' = [e \in Listed[d] |-> IF e \in DOMAIN roster THEN roster[e] ELSE 0]
  /\ UNCHANGED <<receipts, central, over, worker>>

LoadBundle(d) == ~Immutable(d) /\ ReplaceBundle(d) /\ UNCHANGED <<tool, faults>>

(* bundleload beside the node: LoadBundle in two steps.                    *)
CheckBeside(d) ==
  /\ ~Immutable(d) /\ Fault
  /\ loading' = loading \cup {d}
  /\ UNCHANGED <<database, central, over, worker, overrun>>

ReplaceBeside(d) ==
  /\ d \in loading
  /\ ReplaceBundle(d)
  /\ loading' = loading \ {d}
  /\ overrun' = (overrun \/ Immutable(d))
  /\ UNCHANGED faults

MarkFenced ==
  /\ exam.deployment # None
  /\ exam' = [exam EXCEPT !.fenced = TRUE]
  /\ UNCHANGED <<roster, receipts, central, over, worker, tool, faults>>

Crash ==
  /\ worker # Idle /\ Fault
  /\ worker' = Idle
  /\ UNCHANGED <<database, central, over, tool>>

(* The node is set up anew, with an empty database.                        *)
ReplaceNode ==
  /\ exam # NoExam /\ Fault
  /\ exam' = NoExam /\ roster' = NoRoster /\ receipts' = NoReceipts
  /\ worker' = Idle
  /\ loading' = {} /\ overrun' = FALSE
  /\ UNCHANGED <<central, over>>

-----------------------------------------------------------------------------
(* Central, and time.                                                      *)

Issue(d) ==
  /\ \E e \in Event :
       /\ Dep(e) = d /\ central[e] = "none"
       /\ \A f \in Event : Dep(f) = d /\ Rev(f) < Rev(e) => central[f] # "none"
       /\ central' = [central EXCEPT ![e] = "pending"]
  /\ UNCHANGED <<database, over, worker, tool, faults>>

(* A pending event is withdrawn, or runs out.                              *)
Withdraw(e) ==
  /\ central[e] = "pending"
  /\ \/ central' = [central EXCEPT ![e] = "cancelled"]
     \/ over /\ central' = [central EXCEPT ![e] = "expired"]
  /\ UNCHANGED <<database, over, worker, tool, faults>>

TimeUp ==
  /\ ~over
  /\ over' = TRUE
  /\ UNCHANGED <<database, central, worker, tool, faults>>

-----------------------------------------------------------------------------
Work ==
  \/ Pull
  \/ ApplyPulled \/ AckPulled
  \/ ListExams
  \/ Fetch
  \/ ApplyReplayed \/ AckReplayed \/ PageDone

Next ==
  \/ Work
  \/ \E d \in Pushed : LoadBundle(d) \/ CheckBeside(d) \/ ReplaceBeside(d)
  \/ MarkFenced
  \/ Crash \/ ReplaceNode
  \/ \E d \in Deployment : Issue(d)
  \/ \E e \in Event : Withdraw(e)
  \/ TimeUp

Spec == Init /\ [][Next]_vars

(* The worker polls again after every poll, whatever its result.           *)
FairSpec == Spec /\ WF_vars(Work)

-----------------------------------------------------------------------------
(* contentHash, which sorts the rows: the same hash for the same rows.     *)
HashAgrees == exam.hash = DOMAIN roster

(* PreflightRoster, given the counts that Central expects.                 *)
Preflight(total, baseline, revision) ==
  /\ Cardinality(DOMAIN roster) = total
  /\ Cardinality({e \in DOMAIN roster : roster[e] = 0}) = baseline
  /\ exam.revision = revision
  /\ Cardinality({e \in Event : /\ Dep(e) = exam.deployment
                               /\ Rev(e) <= revision
                               /\ receipts[e] # "none"}) = revision
  /\ HashAgrees

Applied(d) == {e \in Event : Dep(e) = d /\ receipts[e] = "applied"}

(* bundle-load-invariant.md:15: bundleload never runs beside the node.     *)
(* What follows is asked as long as no breach of that rule has replaced a  *)
(* roster that events had reached since the tool's check: their rows would *)
(* be gone and their receipts stay.  Other bundleloads do not matter.      *)
Undisturbed == ~overrun

(* bundle_service.go:161-163: whatever events, losses and loads went       *)
(* before, preflight passes with the counts of the bundle and of those     *)
(* added since: no revision is missing or passed over, and the hash is     *)
(* that of the rows.  Not so where a bundle lists someone whom the node    *)
(* had added late for an earlier deployment: the row is taken for late.    *)
PreflightPasses ==
  LET d == exam.deployment IN
  Undisturbed /\ d # None /\ (\A e \in Listed[d] : receipts[e] # "applied") =>
    Preflight(Cardinality(Listed[d]) + Cardinality(Applied(d)),
              Cardinality(Listed[d]), exam.revision)

(* A participant whose event the node has a receipt for as applied can log *)
(* in: no later load of the bundle takes the row away again.               *)
AppliedIsPresent ==
  Undisturbed =>
    \A e \in Event :
      receipts[e] = "applied" /\ Dep(e) = exam.deployment => e \in DOMAIN roster

(* Central was told what the node did, also after lost reports, and after  *)
(* the node has lost its database and worked the history off once more.    *)
OutcomeAgrees ==
  \A e \in Event :
    /\ central[e] = "applied" => receipts[e] \in {"none", "applied"}
    /\ central[e] = "rejected" => receipts[e] # "applied"

(* After the fence no participant joins but those whom Central already     *)
(* counts as applied, although events were pulled before the fence.        *)
FencedRosterFrozen ==
  [][exam.fenced /\ exam'.fenced =>
       \A e \in DOMAIN roster' \ DOMAIN roster : central[e] = "applied"]_vars

(* runbook.md:77 "its roster worker pulls late-participant events from     *)
(* Central and applies them": an event of the deployment that stays loaded *)
(* does not stay pending.  One that cannot be taken in does, and those     *)
(* that follow it.                                                         *)
PendingIsDecided ==
  \A e \in Event :
    Malformed = {} /\ <>[](exam.deployment = Dep(e) /\ Undisturbed) =>
      (central[e] = "pending" ~> central[e] # "pending")

(* roster_worker.go:70-81: on a node that was set up anew, whoever Central *)
(* counts as applied is added again, also when nothing is pending.         *)
AppliedIsRestored ==
  \A e \in Event :
    <>[](exam.deployment = Dep(e) /\ ~exam.fenced /\ Undisturbed) =>
      (central[e] = "applied" ~> e \in DOMAIN roster)
=============================================================================
