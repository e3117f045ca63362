# Verification of the exam node

TLA+ models, TLC runs and TLAPS proofs for the Go program of this repository: the
node on which students of one or more schools sit their exams, and which exchanges
bundles, late participants, resets and results with Central, a program that is not
in this repository. This file lists the system's parts, says what each module stands
for, what every run and theorem shows, under which bounds and assumptions, and what
is left out.

`PROJECT.json` ties each definition to its source lines (`map`), each property to a
mutation of the code that breaks it (`mutants`), and lists the hazards the
properties were chosen for.

## 1. Inventory

| Part | State | Operations | Where it is hard |
|---|---|---|---|
| Attempt service (`attempt_service.go`, `attempt_finalizer.go`) | rows of `participants`, `attempts`, `answers` | start and resume, autosave, submit, state, result | handlers check first and write later; the start transaction mixes a row lock with an InnoDB snapshot read; two devices of one student |
| Sweeper (`sweeper_service.go`) | none of its own | lists expired attempts, finalizes each | works from an old list, fails halfway, three callers (ticker, harvest, tool) |
| Harvest (`harvest_service.go`, `cmd/examharvest`) | `harvested_at`, `harvest_log` | periodic drain, forced drain, the tool | batches, final flag, lost answers, two processes at once, resets meanwhile |
| Attempt reset (`attempt_reset_service.go`, `_worker.go`) | `attempt_reset_operations`, the attempt's row | preview, apply, poll, report | at-least-once commands, stale sight of the operator, deadlines across a lock wait |
| Bundle loading and content cache (`bundle_service.go`, `content_service.go`, `rehydrate.go`, `cmd/bundleload`) | `exams`, `items`; cache, unready set, generation tokens, mutexes | push, reload, startup, tool, `/readyz` | overlapping rebuilds, rollback after a newer operation, probes that read several things |
| Roster synchronisation (`roster_service.go`, `roster_worker.go`) | `roster_event_receipts`, `exams.roster_revision`, participants | pull, gap replay, recovery, apply, acknowledge | holes in revisions, lost acknowledgements, an empty new database, fence and deadline between pull and apply |
| Deployment fence (`cmd/examnode/main.go`, `fence_client.go`, `auth_middleware.go`) | `exams.fenced_at` | discover, mark, acknowledge; refuse requests | a request checked before the fence writes after it; marks that fail, lost acknowledgements, rows that are replaced |
| Integrity events (`integrity_service.go`) | `integrity_events` | record, with a rate limit and a duplicate window | concurrent events of one attempt; stored times are rounded |
| Login (`auth_service.go`, `auth_handler.go`) | times of logins by client, in memory | login | the limiter at its limit on keys |
| Grading (`domain/grading`, and its callers) | score and status of answers and attempts | grade one answer, total an attempt | absent fields, other JSON types, names that read alike |
| Migrations (`persistence/provider/migrate.go`, `migrations/`) | the schema, `schema_migrations`, an advisory lock | run at the start of `examnode` and `bundleload` | two processes at once; a process that ends between a change and its record |
| Preflight tool (`cmd/preflight`) | none | compares the rows with what Central expects | - |
| Student list and content delivery | none | reads | - |
| HTTP wiring, tokens, configuration, scripts | none of interest | one-shot or pure | - |

How they interact. Everything durable is in MySQL; handlers, the sweep ticker, the
harvest ticker, the reset worker, the roster worker and the fence reconciler are
goroutines of `examnode` that meet in its rows. `bundleload` and `examharvest` are
processes of their own on the same database. Content is served from memory, so a
change of the `exams` and `items` rows must be followed by a rebuild. Central is
called by the workers (pull and report) and calls the node for bundle pushes, cache
reloads and forced drains. Every call can fail before or after it took effect.

## 2. Modules

| Module | Stands for | Composed with |
|---|---|---|
| `Sittings` | what a node promises one student: sittings one after the other, every request one step | abstract specification of `AttemptLifecycle` |
| `AttemptLifecycle` | attempts of one exam: handlers, sweepers, resets, crashes | instantiates `Sittings` |
| `AttemptLifecycleProofs` | theorems about it | extends `AttemptLifecycle` |
| `SittingsProofs` | the refinement as a theorem | extends `AttemptLifecycleProofs` |
| `ExamHarvest` | drains of server and tool, and Central's store | keeps finish, save and reset of attempts as actions of its environment |
| `ExamHarvestProofs` | theorems about it | extends `ExamHarvest` |
| `AttemptReset` | Central's commands, the worker, the two transactions | keeps start and finalize as actions of its environment |
| `AttemptResetProofs` | theorems about it | extends `AttemptReset` |
| `ContentCache` | content cache, loads, reloads, startup, `bundleload`, `/readyz` | - |
| `ContentCacheProofs` | theorems about it | extends `ContentCache` |
| `RosterSync` | late participants of one exam: Central, the worker, `Apply`, bundle loads, preflight | keeps the fence as a flag |
| `RosterSyncProofs` | theorems about it | extends `RosterSync` |
| `DeploymentFence` | the reconciler, Central's record of fences, requests that pass the middleware | keeps bundle loads as an action of its environment |
| `LoginLimit` | the rate limiter | - |
| `IntegrityEvents` | `RecordEvent` for one attempt | - |
| `Migrations` | processes that migrate one database | - |
| `Grading` | the graders, and what the rows keep of a grade | - |
| `Enrolment` | bundles pushed while students start | keeps the finishing of attempts as an action of its environment |
| `NodePartsProofs` | theorems about fence, migrations and enrolment | extends the three |
| `MCNodeParts` | the six small modules for TLC, one of them per behaviour | extends them |
| `NodeLimitsProofs` | theorems about integrity events, login limit and grading, and the types of all six | extends `MCNodeParts` and `NodePartsProofs` |
| other `MC...` | constants and symmetry for TLC | extend the module they are named after |

A step is what the code makes atomic: one SQL statement outside a transaction, a
transaction from its row lock to its commit, a critical section of a mutex, or the
sending and the receiving half of an HTTP call. Between two steps of one actor every
other actor may run.

### AttemptLifecycle

One exam, whose row does not change. `attempt`, `answer` and `participant` are the
tables; `request[r]` holds the locals of a handler goroutine between its steps,
`pc` naming the next one; `sweep[s]` is the list a sweeper is working off;
`participantLock` is the `SELECT ... FOR UPDATE` of `startAttempt`; `granted` is a
history variable, the devices that a successful start has handed an attempt to.

- Start is `StartBegin` (now is read, the window is checked), `StartLookup` (the
  query outside the transaction), `StartBind` or `StartFinalize` (the resume path),
  `StartLock` (participant lock and, under REPEATABLE READ, the snapshot that the
  later plain reads of the transaction see: the device, and the answers, of which
  `seen` keeps the score), and one of four `Commit...` actions: a
  new attempt, a refusal, finalizing an expired one and perhaps creating the next,
  or resuming the active one. An attempt finalized there gets the score of the
  snapshot: its row is read under a lock, its answers are not.
- Autosave, submit and state are a check and a later write. The write of autosave
  takes no lock: it is `AutosaveUpsert`. `Upserted` is the one statement behind it:
  MySQL makes the assignments one after the other, in the order in which gorm writes
  them, and each column's guard compares the new number with the `client_seq` of that
  moment. A row therefore remembers which save its content (`seq`) and which its
  grade (`graded`) came from.
- `Finalized` is `finalizeAttemptLocked`: it re-checks the locked row, sums up the
  answers stored at that moment and sets the status. Affected-row counts are MySQL's, without
  `clientFoundRows`: an update that changes nothing counts 0.
- `SweepFailure` leaves an attempt for the next tick. `Crash` ends all handlers and
  sweepers and releases all locks.
- `Reset` is the effect of an accepted reset command, as the service would apply it
  if the repository filled `Participant.DeploymentID` (see `reset_committed`), so the
  model has more behaviours than the committed program, not fewer.
- A score is the answers that were totalled, so that a score can be compared with
  the stored answers; grading itself is `Grading`'s.
- `History` maps the tables to `Sittings`: the attempts of a participant in the order
  of their numbers, with status, device, generation and due time. Steps that only read,
  save answers or move a handler on are stutters. Finalizing an expired attempt and
  creating the next in one transaction is one step of the abstract specification too.

### Sittings

A student's sittings are a list; all but the last are over for good. A sitting is
begun when the previous one is over, on at most one device for ever; the student may
close it at any time and the node only after its due time, which is fixed when it is
begun; an operator may reopen the last one, in a next generation, before it is due.
There are at most `MaxAttempts`. The specification has no requests, locks, snapshots,
sweeps or faults: that these cannot be seen from outside is what the refinement says.

### ExamHarvest

`drain[d]` is one drain; the server's periodic and forced drains exclude each other
by a mutex and so are one drainer, the tool is another. `SweepFirst` finalizes what
is overdue, `List` reads unharvested attempts grouped by deployment, `Push` reads the
answers of a batch and sends it, `Respond` is Central's answer (which attempts it
accepted or refused), `NoAnswer` a call that fails before or after Central stored the
batch, `Mark` the update of `harvested_at` by generation. The order within a group is
left open. Central only ever adds to its store; a request handled late is the same as
one handled at once. A final drain that meets an exam row without `deployment_id` ends
before it has pushed anything (harvest_service.go:91-93), and so does a drain that
cannot read its lists: that is a `Crash` at `List`, and bounded like one, so
`FinishedIsHarvested` relies on the ticker's drains, which never have the flag.

### AttemptReset

One participant. Central issues previews, resets built on the outcome of a preview,
and malformed commands; ids are numbered in the order of issue. `PollOnce` takes the
first `MaxPerPoll` (50 in the code) of the pending commands (`Front`); that Central
lists the oldest first is an assumption about a program that is not here. A command
that is malformed, or that conflicts with its own stored copy, is never answered and
stays on Central's list, so with `MaxPerPoll` of them in front nothing behind is ever
looked at. `EveryCommandAnswered` is therefore about commands with fewer of those
before them. `Begin` validates and compares with the stored operation,
`ApplyReset` and `PreviewReset` are the transactions with every rejection in the
order of the code (`Verdict`, then the second look at the clock in `TooLate`), `Report`
and `ReportFails` the call to Central, whose late arrival is `Arrive`. A command never
changes once it is issued, so the payload comparison can only fail for times that
DATETIME columns round (`Fractional`).

### ContentCache

Content is a version number per exam. `db` is the database, `cache` and `unready` the
state behind `ContentService.mu`. A generation token is only compared with the
current one, so the model keeps who drew the latest (`holder`) instead of numbers:
no counter has to be bounded. `LoadBegin` to `Publish` is a push; `ReloadList` to
`ReloadEnd` a reload, which marks all exams and then takes their mutexes in order;
`Rehydrate` and `Listen` the start; `ToolLoad` and `ToolNotify` the tool;
`ProbeList`, `ProbeCached`, `ProbeAnswer` the three reads of `/readyz`. `behind` and
`verdict` are history variables. Reading exam and items is one step, since only items
are served and a changed exam is covered by the check at publication. Exams are never
deleted from the database, as no code does so.

### RosterSync

One exam, given to the node under one deployment at a time; deployments are numbers
because the worker sorts them. `Apply` is the transaction of `RosterService.Apply`
with its outcomes in the order of its checks; `ApplyPulled`, `ApplyReplayed` and the
actions around them are `PollOnce`, `processDeployment` and `replayDeployment` with
their different reactions to errors: a failed acknowledgement is skipped in the first
and ends the second. A batch is a set of (event, status when it was sent); the status
may be out of date when the event is applied. The lock of the exam's row makes `Apply`
one step. In the node, the exam's load mutex, which `Apply` takes too, does the same for
a push (`LoadBundle`): its check that the roster is not yet immutable
(bundle_service.go:69-72, a plain read) and its replacement of the rows (`ReplaceBundle`)
have no event between them. `bundleload` is a process with a mutex of its own. With the
node down its load is the same step; beside a running node it is two, `CheckBeside` and
`ReplaceBeside`, and an event applied between them loses its participant while its
receipt stays. docs/operations/bundle-load-invariant.md:15 and docs/runbook.md:77 forbid
running it then, though README.md:122-141 of the repository pulls a new exam without
stopping the node. The model runs it all the same, and says what depends on the rule:
`overrun` records that such a load has replaced a roster which had become immutable
since its check, and `PreflightPasses`, `AppliedIsPresent`, `PendingIsDecided` and
`AppliedIsRestored` are stated for as long as none has (`Undisturbed`). The other
properties need no such assumption. A load beside the node counts as one of `MaxFaults`.
Events that `Apply` answers with an error whatever the state of the exam, because a field
is missing or because the node has a receipt for another payload under their id, are
`Malformed`: nothing is recorded of them and the worker goes on as the code does. Central numbers events by
deployment, may withdraw a pending one, and takes an outcome for a pending one only.
An event that collides with another participant does so always (`Conflicting`); all
deadlines pass together (`over`). An acknowledgement reaches Central before the
client gives up, or never. A participant's row keeps its `roster_revision` (0 for
those of a bundle), as bundle loads leave an existing row's as it is, and the exam's
row holds the hash of the participants it was computed from. `Preflight` is the
comparison that `PreflightRoster` makes with the counts of Central; its reads are
separate statements, so beside a running worker it may also fail without cause, but
it changes nothing and passes nothing that is wrong.

### DeploymentFence

One exam's row, under one deployment at a time. A round of the reconciler is
`ListFences`, then `Mark` and `Acknowledge` for each fence, in any order, and
`EndRound`. A mark fails when no row has that deployment, or when it changes none (a
second mark within one second); a failed acknowledgement may have reached Central.
`Admit` is the middleware's look at the row and `Write` what the handler does later;
`early` remembers that the request was let in before Central had the acknowledgement.
A bundle load replaces the row by one without a mark (`replaced`), which no other
part of the node prevents; the property makes an exception for it.

### LoginLimit

`hits` is the limiter's map. A mutex makes `allow` one step. `Forgettable` is the key
that is deleted at the limit, for any order in which Go walks through the map. A
login that is let in counts whether or not the code turns out to be valid. `Recent` is
the loop that filters a key's times, written as a function of how many it has looked
at rather than with `SelectSeq`, of which the proofs could use nothing.

### IntegrityEvents

Requests of one attempt, one after the other by the lock on its row. A tick is a third
of a second, so that the column's rounding down, up and not at all all occur.

### Migrations

Each `.sql` file is a number of guarded changes: a look at `information_schema` into a
session variable, and a prepared statement that is the change or nothing. MySQL
commits each change by itself. A process may end anywhere, with the change it is at
made or not; the advisory lock goes with its connection. A change may be refused by
the data of the node until an operator repairs it. An initial database is empty or
was set up by hand up to some version. A clash, that is a change that is made though
it is there, is a state of its own, which the property rules out.

### Grading

What stands where a scalar belongs is a string, a literal (a number or a boolean) or
null; a missing field is null to the code. `Normal` is `normalizedScalar`: `fmt.Sprint`,
then trimming and lower case. A string becomes its word (`Folded`), a literal what Go
prints for it (`Sprinted`), null `<nil>`. `Written` is what a person writes for a literal;
the two differ for numbers from a million on and below a ten thousandth, which Go prints
with an exponent (1e+06). Documents have the fields that the question's type uses, lists
up to `MaxList` entries and up to `MaxPairs` pairs. `Verdicts` translates the graders;
`Correct` says what is meant, without sorting or printing: null means nothing, a literal
what is written for it. The two are not the same, and `Comparable` names where they part:
null, a missing field and the string `<nil>` count as equal (so a key with
`accepted_answers` and no `answer` gives points for a document without one), and a number
in exponent form does not equal the string that writes it out. `PointsAreEarned` leaves
exactly the comparisons of such values out. A verdict on pairs whose names read alike
depends on Go's map order and is a choice; the property then asks that points are given
if the answer is right however the names are read, and only if it is right in one way to
read them. `SaveAnswer` is the first save of an answer, `GradeAttempt` what finalizing
makes of it. Lists and objects in the place of a scalar are left out.

### Enrolment

What `AttemptLifecycle` leaves out by keeping the exam's row: a push replaces that row,
and with it `max_attempts`, and makes the participants' rows those of the bundle
(`PushBundle`). A student who stays keeps his count; one who was taken off and is put
on again gets a fresh row, with no attempts counted, while his attempts stay. A
request to start reads the exam once (`ReadExam`), looks for an attempt to go on with
(`LookUp`), and looks at everything but the exam again under the lock of the
participant's row (`Create`), so a push may come in between. The unique key on
participant and number then refuses a number that is taken, and the transaction with
it. `granted` is a history variable, the most generous `max_attempts` so far.

## 3. Runs

Twelve runs; those marked "violation" exhibit a disagreement between the code and a
sentence of the repository.

| Run | Instance | Shows |
|---|---|---|
| `lifecycle_safety` | 1 student, 2 devices, 3 attempt ids with `max_attempts` 2, 2 handlers, 1 sweeper, time 0..3, 1 reset per attempt, 1 fault; symmetric | `TypeOK`, `ActiveIsLatest`, `AttemptsAccounted`, `OneDevicePerAttempt`, `AutoSubmitOnlyExpired`, and the refinement `ImplementsSittings` |
| `lifecycle_writes` | 1 attempt, 2 items, 2 sequence numbers, 2 handlers, 2 resets, 2 faults; sweeps are fair | `ResultIsFinal`, `AnswersNeverRegress`, `ExpiredIsFinalized` |
| `lifecycle_score` | 1 attempt, 1 item, 2 handlers | violation of `ScoreDescribesAnswers` |
| `lifecycle_grade` | 1 attempt, 1 item, 1 handler, 2 sequence numbers | violation of `GradeDescribesAnswer` |
| `harvest_batches` | 2 attempts in batches of 1 and an orphan, a save of one of them, 1 reset each, 1 fault; the server drains, its ticker is fair | `TypeOK`, `HarvestedIsAtCentral`, `FinalIsComplete`, `FinishedIsHarvested` |
| `reset_safety` | 3 commands of which a poll takes 2, 1 attempt, 2 deployments, 1 fault; the worker is fair | `TypeOK`, `AppliedOnce`, `OutcomeAgrees`, `ReopensWhatWasSeen`, `EveryCommandAnswered` |
| `reset_committed` | 1 command, participants without a deployment | violation of `PreviewShowsAttempt` |
| `content_safety` | 2 exams, one of them new, 1 goroutine of Central and the tool's, 2 versions, 2 faults; handlers are fair | `TypeOK`, `ServedIsCurrent`, `LatestDecides`, `PublishedIsServed`, `ReadyIsServed`, `OperationsEnd` |
| `content_first` | the same with 2 goroutines of Central, 1 version | violation of `ReloadRebuildsAll` |
| `roster_safety` | the node's deployment with 2 events, one colliding, and another deployment with 1; pages of 2; no malformed event; 2 faults, a bundleload beside the node among them; the worker is fair | `TypeOK`, `PreflightPasses`, `AppliedIsPresent`, `OutcomeAgrees`, `FencedRosterFrozen`, `PendingIsDecided`, `AppliedIsRestored` |
| `roster_redeployed` | a node that goes from one deployment to the next, 2 events | violation of `PendingIsDecided` |
| `node_parts` | fence: 2 deployments, 2 requests, 2 troubles; login: 3 clients of which 2 are remembered, limit 2 in 2 of 4 ticks; integrity: 2 requests, 2 types, limit 2 in 2 seconds, duplicates within 1, 3 seconds; migrations: 2 runners (the node and bundleload), 3 versions of 2, 2 and 1 changes, one refused, 2 crashes; grading: 3 strings that make 2 words, one of them how 1000000 prints, 2 numbers, null, lists of 3 strings or 2 of anything, 2 pairs; enrolment: 2 students, 2 requests, `max_attempts` 1 or 2 | `PartsTypeOK`, `AckedIsClosed`, `FenceIsAcknowledged`, `LimitIsExact`, `EventsAreLimited`, `ServesMigrated`, `NeverClashes`, `PointsAreEarned`, `NoSittingTwice` |

Deadlock is checked in every run but `node_parts`, where an answer, once graded, stays
graded: elsewhere ticking, polling or probing can always go on.

Why the bounds are enough to be interesting. Two handlers, a sweeper and a reset are
what it takes for each check-then-write of the attempt service to be overtaken, three
attempt ids with two allowed let the numbers run out before the ids do. One
generation more than the first is needed for every confusion between sittings, a
second for a late writer from two sittings ago. Batches and pages of one or two make
"more than fits" happen with two or three elements. A preview, a reset and a second
reset are the shortest way to a command built on an old sight, and with two commands to
a poll the third is starved when both in front of it can never be answered. In
`reset_safety` time is 0 (open) or 1 (every deadline reached at once), so no attempt is
auto-submitted there; one that is can only be refused, being past its due time. One fault is needed
for each lost message, two for a loss followed by a crash. `harvest_batches` has one
drainer: two at once, as the tool beside the server, are more than fits, and are the
proof's (section 5), which holds for any number. In `node_parts` three clients for two
places make the limiter forget, two requests meet at the row's lock, and a migration
of two changes can end between them. Lists of three distinguish orders and
multiplicities; each of the six parts starts from its own initial states and the
others stand still, so that one run does for all.

### What the violations say

- `lifecycle_score` (attempt_service.go:255). Autosave checks and writes without the
  row lock, so an answer can be stored after the score was computed, although
  attempt_finalizer.go:32-34 promises a single consistent sitting.
- `lifecycle_grade` (node_repository.go:235). gorm writes the assignments of the upsert
  in the order of their names and MySQL carries them out from left to right, so
  `client_seq` is raised before the guards of `grading_status`, `last_saved_at`,
  `max_score` and `score` compare with it: from the second save of an item on, the
  answer changes and its score does not. The comment at :226-227 says that every
  column is guarded by the same condition; the tests look at content and number only.
- `reset_committed` (attempt_reset_service.go:228). The service compares
  `Participant.DeploymentID`, which the repository never fills: every preview and
  reset is rejected as `target_conflict`. The service's tests use stubs that fill it.
- `content_first` (content_service.go:228). A reload lists the exams before it takes
  the lock; an exam loaded for the first time in between is dropped from the cache at
  the end of the reload, which reports success.
- `roster_redeployed` (roster_service.go:62). An event that arrives before the bundle
  of its deployment is refused with a receipt and without using up its revision. Once
  that bundle is loaded, all its later events are revision gaps for good.

Smaller observations, met while modelling and not made into runs:

- A forced drain of more attempts than one batch sends the first batch and leaves the
  rest to the next tick (harvest_service.go:154; the comment at :16-17 allows for it).
  Attempts that Central rejects for good stay at the head of the list.
- The write that `lifecycle_score` exhibits may come after the harvest has read the
  answers; it then stays on the node. A first save that comes after finalizing adds a
  row that no total has seen.
- An essay whose question does not ask for manual grading stays `pending`, and its
  attempt is called `auto_graded` (attempt_service.go, attempt_finalizer.go).
- A field missing in the key and in the answer prints alike and earns the points
  (grading.go:29), also where only `accepted_answers` are given; and a key of the number
  1000000 refuses the answer "1000000", because it prints as 1e+06 (grading.go:69).
- Fifty reset commands that can never be answered, at the front of Central's list, keep
  all later ones from being looked at (attempt_reset_worker.go:37-39).
- README.md:122-141 pulls a new exam by `bundleload` without stopping the node, which
  bundle-load-invariant.md:15 forbids; if an event of that exam is applied between the
  load's check and its replacement, the participant is gone for good.
- Integrity events are recorded for a finished attempt as well, and compared with times
  rounded to seconds, so a window may be half a second shorter.
- Every error of the repository at login, also a lost connection, is answered as an
  invalid code.
- A bundle loaded again opens a fenced deployment for its old tokens, after Central
  has the acknowledgement; the fence client has no timeout.
- migrate.go:30-32 and :78-79 speak of runs that go on after a lock timeout; :43-44
  makes them fail.
- A participant listed in a bundle who had been added late under an earlier deployment
  keeps the old `roster_revision` (node_repository.go:628-632), and preflight's count
  of the baseline is then one short.
- A repeated reset command whose times have fractions of a second conflicts with its
  stored copy (attempt_reset_service.go:351, 0006_attempt_reset.sql:36 DATETIME).
- bundle_service.go:140 speaks of restoring readiness after a failed load of an
  existing exam; `CancelRebuild` leaves it unready, as bundle-load-invariant.md says.
- README.md gives the exam's window as `starts_at <= now < ends_at`; attempt_service.go:76
  still lets an attempt start at `ends_at` itself.
- cmd/bundleload/reload.go:16-17 calls a refused connection safe; a server that has
  read the rows but not begun to listen refuses too (forbidden by bundle-load-invariant.md).
- A reload that is superseded by a load leaves the exams it had not reached unready.
- A bundle pushed again at revision 0 clears `fenced_at`, since the row is replaced.
- Going from deployment D1 to D2 and back to D1 keeps D1's receipts but not its
  participants: those are then never added again.
- A student with attempts who is taken off a bundle and put on again cannot start: his
  fresh row counts none, the number it gives the next attempt is taken, and the start
  ends in a server error (node_repository.go:642). An operator cannot help, since a
  reset wants the row's `latest_attempt_id`.
- An auto-submitted attempt can never be reset, since a reset needs `now < due`.

## 4. Fairness

Only loops of the code that go on whatever happens are assumed fair: the sweep ticker
(`WF` of each sweeper's next step), the server's harvest ticker including Central's
answers (not the tool), the polling loops of the reset and roster workers, and in
`ContentCache` the next step of a running handler, with strong fairness for taking a
mutex, as Go's mutexes hand over to the longest waiter. Faults, crashes, refusals and
lost calls are bounded by `MaxFaults`, which stands for "they stop some day". No
student, operator, fence or load is assumed to act. In `DeploymentFence` the
reconciler's next step is fair, which says that its ticker goes on and that Central
answers every call in the end, be it with an error; the client has no timeout of its
own (fence_client.go:29), so this is an assumption about Central and the network.
`Migrations` has no liveness: a run that cannot get the lock fails, and nothing in the
program starts it again. `PendingIsDecided` and
`AppliedIsRestored` are conditional on the deployment staying loaded and on `Undisturbed`;
the first of them also on there being no `Malformed` event, as one stays pending with all
that follow it. `EveryCommandAnswered` is conditional on what stands before the command.

## 5. Proofs

### AttemptLifecycleProofs

`AttemptLifecycleProofs` proves, for any sets of students, attempts, devices, items,
handlers and sweepers and any natural bounds (`NoneAssumption`, `NumbersAssumption`
are the only assumptions, and TLC evaluates both):

| Theorem | States |
|---|---|
| `Inductive` | `Spec => []IInv` |
| `TypeCorrect` | `Spec => []TypeOK` |
| `OnlyLatestActive` | `Spec => []ActiveIsLatest` |
| `NumbersAccounted` | `Spec => []AttemptsAccounted` |
| `DeviceExclusive` | `Spec => []OneDevicePerAttempt` |
| `AutoSubmitAfterDue` | `Spec => []AutoSubmitOnlyExpired` |
| `FinishedIsFinal` | `Spec => ResultIsFinal` |
| `AnswersMonotonic` | `Spec => AnswersNeverRegress` |

None of the invariants is inductive: they depend on what handlers have read earlier.
`IInv` adds what the locals of each actor still imply about the tables.

- `LocalOK(r)`: a handler that holds an attempt holds an existing one; one about to
  finalize holds one whose due time has passed.
- `SweepOK`: what a sweeper has listed exists and is overdue. Due times never change,
  not even by a reset, so the list may be old and this still holds.
- `SnapshotOK(r)`: between lock and commit of a start, the snapshot is still true: no
  active attempt, or the latest one and its device. This is where the participant
  lock is used: only its holder creates attempts, and a reset reopens none but the
  latest finished one.
- `RowsOK`: an attempt exists when it has an owner, its bound device is the only one
  it was granted to, and a participant without attempts has no latest one.

The argument has three layers. `Evolve` describes what most steps do to a row (bind a
free device, finalize what is in progress, nothing else), and one lemma shows that such
a change keeps the table invariants and everybody's locals; creating and reopening an
attempt have their own lemmas. Per action a lemma shows that it is one of these. Then
there is a preservation lemma per action and `Inductive` puts them together. The two
action properties follow from the same classification.

### ExamHarvestProofs

For any attempts, deployments, batch sizes, generations, and any number of drains at
once. `HarvestAssumption` is all that is assumed.

| Theorem | States |
|---|---|
| `Inductive` | `Spec => []IInv` |
| `TypeCorrect` | `Spec => []TypeOK` |
| `MarkedIsAtCentral` | `Spec => []HarvestedIsAtCentral` |
| `LastBatchCompletes` | `Spec => []FinalIsComplete` |

`IInv` adds to the properties what a drain in flight knows (`DrainOK`): a batch that
waits for its answer holds attempts as they were finished in their generation, what
Central has accepted of it is in Central's store, and a drain that began after the due
time finds every attempt finished. `Evolves` is what all other steps have in common,
and `DrainKept` shows that such a step leaves every drain's knowledge true: a reset
raises the generation, so an old acknowledgement marks nothing, and what Central
stores is never taken back. Each action then has a lemma of its own.

### NodePartsProofs

| Theorem | States |
|---|---|
| `FenceInductive` | `FenceSpec => []FenceInv` |
| `AcknowledgedIsClosed` | `FenceSpec => AckedIsClosed` |
| `MigrationInductive` | `MigrationSpec => []MigrationInv` |
| `UpIsMigrated` | `MigrationSpec => []ServesMigrated` |
| `ChangesOnce` | `MigrationSpec => []NeverClashes` |
| `EnrolmentInductive` | `EnrolmentSpec => []EnrolmentInv` |
| `NeverSatTwice` | `EnrolmentSpec => []NoSittingTwice` |

The fence: a deployment that Central counts on, or that the reconciler is about to
acknowledge, has its row marked unless the row was replaced since (`Kept`), and a
request that was not let in early belongs to a replaced one (`ClientOK`). The
migrations: whoever works holds the lock; what is recorded is in effect as a whole;
the process at work has in effect what it has passed, and what its look found is
still so when it acts, since only the lock's holder changes the schema (`RunnerOK`).
Enrolment: a student's attempts have the numbers 1, 2, ..., all but the last finished,
and his row counts no more of them than there are (`Numbered`, `EnrolmentInv`). The
next number is therefore either the first free one or taken, and a request that gets
past the unique key has counted every attempt (`NextNumber`).

### SittingsProofs

`Implements` is `Spec => ImplementsSittings`: the refinement that `lifecycle_safety`
checks, for every value of the constants. A row of a student's attempts is seen as one
sitting, and `Listed(rows, p, n)` is the list of them by number. That this list is well
defined is the invariant's (`AttemptsAccounted` numbers them 1, 2, ..., each once), and
so are the guards of the abstract actions: that a begun sitting follows a finished one
(`ActiveIsLatest`), that a node closes nothing before it is due. Lemmas say what becomes
of the list when the rows stay, when the last one changes, and when one more is created
(`NothingShown`, `LastShown`, `MoreShown`); then every action of `AttemptLifecycle` is
shown to be one of `Sittings`' for one student, or a stutter. `NowOK` is one more
invariant that this needs: a start at work has read a time at which the exam was open.

### AttemptResetProofs

For any attempts, commands, deployments and bounds, under `ResetAssumption`.

| Theorem | States |
|---|---|
| `Inductive` | `Spec => []IInv` |
| `TypeCorrect` | `Spec => []TypeOK` |
| `CountsResets` | `Spec => []AppliedOnce` |
| `CentralAgrees` | `Spec => []OutcomeAgrees` |
| `UndoesWhatWasSeen` | `Spec => ReopensWhatWasSeen` |

That no command counts twice is not seen from one delivery: `Counted` says that an
attempt's generation is the number of resets applied to it, and a delivery that finds a
result stored changes neither. `ResetsOK` ties each reset to the preview whose outcome
it expects, which with the comparison in `Verdict` gives the action property. Outcomes
agree because a result is stored once (`WorkerOK`: a transaction runs only where none
is) and because a late report says what is stored (`DelayedOK`).

### ContentCacheProofs

For any exams, goroutines, versions and faults, under `ContentAssumption`.

| Theorem | States |
|---|---|
| `Inductive` | `Spec => []IInv` |
| `TypeCorrect` | `Spec => []TypeOK` |
| `ServesCurrentRows` | `Spec => []ServedIsCurrent` |
| `LatestOperationDecides` | `Spec => []LatestDecides` |
| `ServesWhatWasPublished` | `Spec => []PublishedIsServed` |
| `ReadyMeansServed` | `Spec => ReadyIsServed` |

`OpOK(r)` is what a goroutine may still rely on after it gave up the mutex: while its
token is the latest one, the rows it has read are the current ones (unless the tool
replaced them or a newer operation began), and of its exams those ahead are undecided
and those behind are decided. `Fresh` and `VerdictOK` relate cache, marks and rows,
`LoadedOK` is what a probe has put together from its three reads. `Moves(q)` is what a
step of one goroutine leaves to the others: it decides only about exams whose token it
holds, and does not touch those that are locked by another. `OthersOK` shows once that
this keeps everybody else's `OpOK`, and each action is then shown to be such a move.

### RosterSyncProofs

For any deployments, events, page sizes, faults and bundles, under `RosterAssumption`.

| Theorem | States |
|---|---|
| `Inductive` | `Spec => []IInv` |
| `TypeCorrect` | `Spec => []TypeOK` |
| `FenceFreezesRoster` | `Spec => FencedRosterFrozen` |
| `OneInductive` | `OneIsPushed` implies `Spec => []OneInv` |
| `AppliedStayPresent` | `OneIsPushed` implies `Spec => []AppliedIsPresent` |
| `CentralAgrees` | `OneIsPushed` implies `Spec => []OutcomeAgrees` |
| `PreflightAlwaysPasses` | `OneIsPushed` implies `Spec => []PreflightPasses` |

`IInv` holds of every node: each revision up to the exam's has a receipt, every row
beyond the bundle's was added by an event (`RowsOK`), the outcome about to be reported
is that of the receipt at hand (`AnswerOK`), and an answer of Central that the worker
still holds is out of date only where Central has no outcome yet or the node has a
receipt (`AnswersOK`). A node that holds the deployment `First` at the start has its
listed participants as rows (`ListedFirst`).

Two things are assumed of the operators. `AppliedStayPresent` and `PreflightAlwaysPasses`
say what they say as long as no `bundleload` beside the node has overrun an applied event
(`Undisturbed`, a premise inside the two properties): such loads occur in `Spec`, and
what they cannot disturb, the types, `IInv`, the fence and Central's outcomes, is proved
in their presence. `Malformed` is any set of events.

The last three properties also need a hypothesis, `OneIsPushed`: operators load bundles of
one deployment only, be it after the one the node holds at first. The others need none.
Without it the three are false of this code, and TLC finds each of them violated with
`Pushed = {1, 2}`: a bundle of another deployment takes the participants of the first out
of the rows and leaves their receipts, and the load of the first starts it again at
revision 0, below receipts it has. For `OutcomeAgrees`, a replaced node that replays an
applied event of deployment 1 while deployment 2 gets loaded rejects it. What the
hypothesis buys is `OneInv`: an applied event of the loaded deployment stays within the
exam's revision, and the node has a receipt for whatever Central counts as applied as long
as the first deployment is loaded. Its first half is stated under `Undisturbed`, and
such a load keeps it because `ReplaceBeside` records in `overrun` that it went wrong.

### NodeLimitsProofs

| Theorem | States |
|---|---|
| `IntegrityInductive` | `IntegritySpec => []IntegrityInv` |
| `LimitedEvents` | `IntegritySpec => []EventsAreLimited` |
| `LoginInductive` | `LoginSpec => []LoginInv` |
| `LoginsAreLimited` | `LoginSpec => []LimitIsExact` |
| `GradingInductive` | `GradingSpec => []GradingInv` |
| `PointsGivenRightly` | `GradingSpec => []PointsAreEarned` |
| `TypesOfParts` | `Spec => []PartsTypeOK`, for `MCNodeParts` |

Integrity events: from its look at the rows to its insert a request holds the lock, no
event is later than its time, and what it has checked still holds (`SenderOK`). All
events of a window that a new one falls into are then among those it has counted, as
rounding takes less than one tick off a stored time (`AroundNew`, `RoundedType`).

The login limit: what is remembered of a key is the end of its history, and all before
it has left the window (`KeyOK`). The times ascend, so the filter's loop returns a part
at the end of the list (`RecentIsEnd`: the recursive function is compared with that
part at the first place where they would differ), and a login let in is the one after
at most `Limit - 1` within the window (`OneMoreLogin`).

Grading: a stored grade is that of a verdict on the document stored with it, and each
verdict is the one asked for where the values compared are `Comparable`
(`VerdictsAreRight`): there, two scalars have one print exactly when they have one meaning
(`StringsMean`, `ScalarsMean`), and so have lists (`EntriesMean`). For multiple choice this is the fact
that two lists have each word equally often exactly when one can be reordered into the
other (`MatchedBags` one way; `BagsMatch` puts bijections between the places of each
word together for the other). For matching it is that `normalizedMap` has one outcome
where no two names read alike (`NormalizedIs`), and returns that of some reading where
they do (`ReadingOf`). Neither the lists nor the pairs are
bounded by what TLC enumerates.

### What is only model-checked

All safety properties and action properties of the passing runs are theorems, those of
`RosterSync` named above under `OneIsPushed`. TLC alone checks the liveness properties,
since the prover has no rules for fairness and `ENABLED`, and finds the violations.

## 6. Not modelled

What only reads: a result, the student's list of exams, content delivery (what is
served is `ContentCache`'s), and preflight's checks of disk, clock and cache. What
changes nothing when it refuses: validation of a bundle before a load, and bundleload's
pull from Central. HTTP routing, tokens and configuration are wiring; the scripts and
load tests stand around the program. The text of the migrations is left to the
database: that each guard looks for the change it guards was read, not checked.
Wording, logging, metrics and the arrangement of questions are left out.
In `AttemptReset`, one attempt stands for a participant's latest; that a reset of an
older one changes nothing of the newer is part of `AttemptLifecycle`.

## 7. Plan

Done: the modules above, and proofs of every invariant and action property of the
passing runs and of the refinement. Left:

1. What a restriction on the inputs hides: `RosterSync`'s theorems for nodes on which
   a second deployment is pushed, stated for the participants that the push keeps.
2. An abstract specification of harvesting (Central's store only grows, and ends with
   every finished attempt), with `ExamHarvest` shown to implement it.
3. The three hazards without a property (section 1 of `PROJECT.json`'s list): a submit
   committed after a reset, attempts that Central rejects for good, a fence request
   that hangs.
