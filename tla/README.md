# pm-loop: formal model

A TLA+ model of pm-loop: the local system that turns a calendar of
product-management jobs into leased executions, hands their results to each other
through dependency events, publishes content and mirrors notes to a remote service
through an outbox, acts on approved decisions of file-backed runs, reclaims files that
are no longer needed, and tells the operator of what fails. The modules are translated
from `src/scripts/`; the docs and tests were read beside the code, and where they disagree
with it the code is what is modelled.

## 1. The system and its parts

All durable state lives in one SQLite database (`pm_system_store.py`,
`pm-system.db`) and in one directory per run. Several processes share them:

| process | started by | what it does |
|---|---|---|
| dispatcher (`pm_loop_scheduler.py`) | launchd, every 30 s, one at a time (file lock) | turns calendar windows and dependency events into accepted jobs |
| worker (`pm_system_worker.py`) | launchd, kept alive | recovers, claims jobs into slots, runs each in a thread, releases |
| control plane (`pm_loop_control_plane_server.py`) | launchd | HTTP API: accepts jobs by hand, cancels, shows |
| gateway and writers (`pm_system_gateway.py`, `pm_resource_dispatcher.py`, `pm_memory_dispatcher.py`) | lanes of the worker, operators | publish outbox items to a remote service |
| watcher (`ov_memory_sync.py`) | launchd | admits changed notes to the outbox |
| run and action runners (`pm_loop_runner.py`, `pm_loop_action_runner.py`) | control plane, operators | analyse a file-backed run; perform its approved actions |
| retention observer and reclaimer (`retention_observer.py`, `retention_reclaimer.py`) | scheduled jobs, operators | plan and carry out the removal of old logs and snapshots |
| operator scripts | people | freeze and migration, replay, retention, audits |

Every public operation of the store and of the scheduler is one `BEGIN IMMEDIATE`
transaction. What interleaves is therefore the order of transactions, and what
each process remembers between two of them.

### Inventory

**Coordination database** (`pm_system_scheduler.py`, `pm_system_store.py`).
*State*: `jobs`, `runs` (inserted in pairs), `execution_slots` with leases,
`schedule_occurrences`, run events and checkpoints, `migration_freeze`,
`provider_tokens`. *Operations*: `accept`, `accept_scheduled_occurrence`,
`record_schedule_occurrence`, `claim_next` (sweeps expired leases and overdue
jobs first), `heartbeat`, `release`, `cancel`, `startup_reconcile`,
`reconcile_schedule_occurrences`, `begin_model_call` / `finish_model_call`,
`append_run_event`. *Hard*: five tables updated by separate statements with
guards of their own; leases that expire under a working thread; retries against
a budget, a deadline and a business window; recovery from evidence. *Correct
when*: leases and running runs correspond one to one, the three records of one
execution tell one story, keys exclude, budgets hold, verdicts are final.

**Worker** (`pm_system_worker.py`, `pm_scheduled_handlers.py`). *State*: a pool of
threads, one heartbeat thread per running handler, evidence files in the run's
directory. *Operations*: `serve`, `process_claim`, `_run_scheduled_handler`,
`_run_analysis`. *Interacts* with the database by claims, heartbeats, events and
releases, with the dispatcher by dependency events and files. *Hard*: a thread
that lost its lease goes on; a crash leaves files and rows behind. *Correct when*:
one thread per run, a completion is earned by the attempt it is given to.

**Dispatcher** (`pm_loop_scheduler.py`, `pm_schedule_registry.py`, `catchup.py`).
*State*: its lock; everything else in the database. *Operations*: `tick` =
reconcile occurrences, plan and decide due windows, record catch-up gaps, consume
dependency events. *Hard*: it dies between transactions; it judges an event by
state that may change. *Correct when*: every event is resolved, once, against the
manifest it names, and no refresh is lost.

**Gateway** (`pm_system_gateway.py`). *State*: `outbox_items` with their dispatch
leases, `semantic_tasks`, `resource_projections`, `provider_buckets` (circuit, count of
429 answers, throttle) with their probe leases, `concept_profile_admissions` (pending
count). *Operations*: `enqueue`, `dispatch_once` (reclaims expired leases and ends
overdue items first), `ack`, `fail`, `release_profile_reservation`; `record_429` for
model calls. *Interacts* with the resource and memory dispatchers, which claim items and
report answers. *Hard*: five tables updated by statements with filters of their own;
answers that arrive after the lease was given out again; a breaker whose probe is
released by whoever comes by. *Correct when*: leases, tasks, reservations and breaker
agree, attempts are bounded, verdicts and verified bodies are final.

**Resource dispatcher** (`pm_resource_dispatcher.py`). *State*: the operation ledger
(`operation_ledger`, a row per request), task observations, senders between two requests.
*Operations*: `dispatch_pending` and `_send` (upload, submit, read back, report),
`reconcile_tasks`, `reconcile_content`. *Interacts* with the remote service and the
gateway. *Hard*: answers that are lost, senders whose lease ran out, polls recorded out
of order, crashes between journal and request. *Correct when*: an attempt is posted once,
what is acknowledged was taken by the service, a watched task ends.

**Memory dispatcher and note mirror** (`ov_memory_sync.py`, `pm_memory_dispatcher.py`,
the admission in `pm_system_store.py`). *State*: `memory_change_events`, the outbox rows
`memory:<name>:<hash>` with their leases, `memory_projections`, the ledger rows of the
requests, what the watcher has seen of each file. *Operations*: `enqueue_memory_change`,
`dispatch_pending` and `_write` (check, journal, request, read-back), `reconcile_tasks`,
`_complete`, `_fail`; the gateway's sweep. *Hard*: a write whose answer is lost may have been
made or may still be; a newer edit overtakes an older one; a writer dies between a request
and its outcome. *Correct when*: what is called delivered was read back, resends are bounded,
an older text never replaces a newer one, and every admitted text comes to a verdict.

**Retention** (`retention_observer.py`, `retention_reclaimer.py`, the claim and transitions
in `pm_system_store.py`). *State*: signed plans and a pointer to the latest, nonces, the
lease of the maintenance scopes, `retention_actions` with fencing tokens, a daily quota, a
quarantine directory. *Operations*: `build_observation`, `write_observation`,
`run_reclaimer`, `claim_retention_plan`, `_apply_action`, `transition_retention_action`.
*Hard*: other programs write the same paths between every check and the use of it; the lease
can lapse under a slow run; any step of a batch may fail or die. *Correct when*: only the
planned version of an object is removed, the recorded verdict says what is on disk, and
nothing is left open but by a death.

**Run store, loop runtime, action gate** (`pm_loop_runtime.py`, `pm_loop_runner.py`,
`pm_loop_analysis.py`, `pm_loop_action_runner.py`, the gate of
`pm_loop_control_plane_server.py`). *State*: `events.jsonl` and its projection
`state.json`, `decision.json` with the token of its gate, the marker `CANCEL`, the lock and
the receipts of the actions. *Operations*: `run_once`, `_gate_decision`, `execute_actions`,
`cancel`, `_recover_action_runs`. *Hard*: runner, reviewer, action runner, cancel and
recovery are processes that read a status and append later; a crash falls between an event
and its projection. *Correct when*: actions are performed only as approved, once, and a run
called complete performed them.

**Schedule registry** (`pm_schedule_registry.py`). No state of its own: the latest and next
window of a daily or weekly schedule and the business window. *Correct when*: the latest
window is the greatest not after the moment, the next is the least after a window.

**Migration and freeze** (`pm_system_v45_migration.py`,
`pm_system_v45_freeze_continuation.py`). Staged cutover behind a freeze and a lease.

**Attention** (`pm_ops_attention.py`, `pm_ops_alert_reconcile.py`, the alert operations of
`pm_system_store.py`). *State*: `ops_alerts`, at most one row of a fingerprint in each state;
`notification_deliveries`. *Operations*: `project_ops_attention` (read the failures, read what
is suppressed, raise, close), `deliver_macos_notifications` (list, look up, show, record),
`reconcile_ops_alerts` with evidence. *Interacts* with everything that records a failure; the
dispatcher makes a pass at the end of a tick, the worker one between jobs. *Hard*: a pass is a
chain of transactions, two of them interleave and act on what they read earlier; a process dies
between showing and recording. *Correct when*: the open alerts are the failures there are,
each was told, and none is told again and again.

**The rest**: replay tools, gates, evidence snapshots, the
concept pipeline, competitive radar, the console. They are one-shot
scripts over operations already modelled, or data processing; section 6 and
`PROJECT.json` give each its reason.

## 2. Modules

| module | models | role |
|---|---|---|
| `JobLifecycle` | the promise about a job: submitted once, waits, executes, retries a bounded number of times, settles; bounded capacity; exclusive keys | abstract specification |
| `Coordination` | the scheduler and the coordination tables | core; implements `JobLifecycle` |
| `DependencyChain` | worker threads, files, dependency events, dispatcher ticks, crashes, on top of `Coordination` | composition of worker, dispatcher and database |
| `ModelCalls` | analyses: their threads, the calls to a model with checkpoint, tokens and retries, on the worker of `DependencyChain` | composition with the model |
| `Calendar` | the windows of a daily or weekly schedule | pure operators |
| `CatchUp` | the rows a tick writes for the windows of a schedule that were missed | the calendar half of a tick |
| `Outbox` | the outbox, the semantic tasks, the circuit breaker and the reservations of the concept profile | core of the publishing side |
| `RemoteWrite` | the promise about a publication: owed, then delivered or dropped for good; delivered only if the service took it; sent a bounded number of times | abstract specification |
| `ResourceDelivery` | senders, operation ledger, observer and remote service on top of `Outbox` | composition; implements `RemoteWrite` |
| `MemoryDelivery` | a note, its watcher, its items in the outbox, the writers and the service | the mirror of notes |
| `Retention` | observer, reclaimers, the files and the programs that write them | removal of files |
| `GatedRun` | a file-backed run: event log, runners, gate, action runners, cancelling, recovery | the approval before an action |
| `Attention` | the passes over the failures: alerts, notices, suppression | what the operator sees |
| `CoordinationProofs`, `ChainProofs`, `CatchUpProofs`, `OutboxProofs`, `DeliveryProofs`, `MirrorProofs`, `RetentionProofs`, `GatedProofs` | | TLAPS proofs |
| `MCCoordination`, `MCDependencyChain`, `MCDispatcher`, `MCOutbox`, `MCResourceDelivery`, `MCMemoryDelivery`, `MCGatedRun`, `MCAttention`, `MCEffects`, `MCMirrors`, `MCSettling` | | instances for TLC |

`JobLifecycle` is refined by `Coordination`, which `DependencyChain` extends, and `ModelCalls` that;
`RemoteWrite` is refined by `ResourceDelivery`, which extends `Outbox`. The other parts
share the database or the control plane with these, but no row and no file they would
meet in, so they are models of their own. Four instances put such parts side by side, and
a variable that never changes (`duty`, `effect`, `mirror`, `lane`) says which part a behaviour
shows; fairness is that of the part shown.

* `MCDispatcher`, the duties of dispatcher and worker: dependency events, analyses, calendar;
* `MCEffects`, what cannot be taken back: requests to the service, removals, actions;
* `MCMirrors`, what follows something that changes without it: the note and the alerts;
* `MCSettling`, what must come to an end: outbox items and admitted texts.

### Coordination

One action per transaction. A job and its run share an index because they are
inserted together and linked by `run_id`; `jobStatus` and `runStatus` stay apart
because the code writes them by separate statements. A lease id is
`<<job, claim number>>`: the code draws a fresh identifier per claim, and the pair
is what makes it fresh. Time is three environment-driven facts: `late` (the deadline
has passed), `backoff` (`next_attempt_at` is ahead), `lapsed` (slots whose
`expires_at` has passed). The sweep at the head of `claim_next` is written once as
`SweptJob`, `SweptRun`, `SweptOcc`, `SweptLease` and used by both outcomes of the
claim, because the transaction commits it either way. `evidence[j]` says that the
newest event of the run is the successful `scheduled/completed` which
`_scheduled_completion_evidence` looks for; any later event hides it.

Left out of the module: the migration lease, delivery intents and
watermarks (other subsystems); rows nothing reads back (plans, reviews, activity);
wording and timestamps.

### DependencyChain

A thread is a record of its own, not a field of the slot, since it outlives its
lease. Its phases are the points between two writes of `process_claim` and
`_run_scheduled_handler`: claimed, handler running (with heartbeat), evidence
written (heartbeat stopped), manifest built or not, event appended, outcome recorded,
released. A manifest that cannot be built (`BuildManifest`) leaves an event that says
blocked and a run that still completes; an event that cannot be written
(`AppendDependencyEvent`) rewrites `handler.json` as failed. An error in reading
the manifest back is taken for one in writing it. Its steps are conjunctions with the actions of `Coordination`. The dispatcher is the variable
`tick`: what it learned about one event and has not acted on yet, since validation,
acceptance and consumption are three transactions. Planners are named by the event
they come from (`Feeder`, `Try`), which is the event key of the code: the key
contains the hash of a manifest that contains its time of writing, so each attempt
has an event of its own.

### ModelCalls

The other branch of `process_claim`: an analysis, accepted by hand, with its calls to a model.
Its threads (`analysts`) are records like those of the handlers; their phases lie between the
writes of `process_claim`, `_run_analysis` and `_call_model`: claimed, source (the sources
read), ready, calling, limited (a 429 not yet recorded), finishing, releasing. `calls[j]` is
the list of rows of `model_calls` of a run, each with its status and with what came of the
call outside, which the code cannot see. The checkpoint is the newest of them. `tokens` are
the rows of `provider_tokens`, `expired` those past their minute. `throttled` is the window a
429 opens, `waits` the runs put off until it ends, `shut` the runs whose retry window is over.
The rate-limit bucket is one, and its breaker is in `Outbox`; here it only delays. Left out: a
request for the snapshot alone, which makes no call, and the migration freeze.

### Calendar and CatchUp

A moment is a number of minutes since a Monday at midnight in the zone of the registry,
which has no daylight saving. `LatestWindow`, `NextWindow`, `InBusinessHours` and `Late`
are the arithmetic of `latest_scheduled_at`, `next_scheduled_at`,
`is_business_window_open` and the lateness test; `IsWindow` is the reference definition
they are checked and proved against. The registry accepts daily and weekly entries only.

A tick of `CatchUp` reads the clock once and keeps it (`now`), walks from the newest row
to the latest window (`AccountForGap`, a transaction each, at most `MaxGaps`) and then
decides the latest one. It may end between any two of them. A row is its state and its
`updated_at`, so that what it says can be compared with what was true when it was written.

### Outbox

One action per transaction of `SemanticGateway`. The lease token of an item is the
number of its dispatch, so a stale answer is one whose number is not the current one.
`dispatch_once` always commits its sweep: `Sweep` and the `Swept...` operators are what
reclaim and deadline leave, shared by `Dispatch` and `DispatchNothing`. `task` and
`content` stay apart from `status` because the code writes three tables by statements
with different filters. Time is what the environment says: `lapsed`, `probeLapsed`,
`overdue`, `backoff`, `throttled`. Whether the last change of a bucket is newer than a
lease is the set `newer`; it is the comparison `_mark_provider_success` makes before it
closes a circuit. The count of 429 answers saturates at the threshold, since nothing
distinguishes larger counts.

Left out: memory items (they are in `MemoryDelivery`), the binding of concept policies
(one Boolean input of `Enqueue` and `Dispatch`), the failure category quarantine and
`reset_provider`, which nothing calls, and the migration freeze, which only withholds
`Enqueue` and `Dispatch`.

### ResourceDelivery

A sender is a record with the item, its token, its attempt number and a phase; the phases
are the points between two writes of `_send`. The ledger has a row per item for the upload
and one per attempt for the submission, and the code's decisions read those rows: an
answer already journalled is used again (`ReuseAdd`), a row without an answer makes the
attempt fail as unresolved, after the second attempt an unknown outcome makes it give up
(`GiveUp`), and a request that differs from its row is refused (`Conflicting`). The
service may have stored the resource whatever it answers or fails to answer. Steps that
report are conjunctions with `Ack` or one of the `Fail` actions of `Outbox`. The
observer's poll and its recording are two steps, as are the verdict and the release of the
reservation.

### MemoryDelivery

One note and the texts it may have. A text is what the code identifies by its hash, so the
event and the item of a text are at the index of the text. The watcher (`Notice`,
`Overlook`) admits what the file holds when it looks; edits between two looks are never
seen. When it starts it may find the note in the list of the pending ones and quarantine
what the file says, whoever is sending it (`ImportLegacy`, for `Imports`; the same
function as a command of its own, which also leaves the file unseen, is left out). A writer claims an item (`Claim`, after the release of leases that lapsed), compares
the file and newer rows, opens its row in the journal, posts, and reads back; `phase` is
where it stands between two of these steps, `cause` the failure category it is about to
record. `remote` is what the service holds, `late` the texts it has taken and will write
when it pleases. `GatewaySweep` is the sweep of `dispatch_once`, which works on items of
every kind. `proven` and `blind` are records of the history: the texts read back, and how
often a text was sent without a known answer. The journal of a text is dropped once the
text has its task or verdict, because no step reads it afterwards.

### Retention

An object is a path, its versions are what the path may hold (inode, time and hash). A plan
names a version of some objects; an action is the pair of object and version, which is what
the idempotency key contains. `phase[n]` is where the reclaimer of plan `n` stands within
`_apply_action`, at the first object of `todo[n]`. Between any two of its steps the other
programs write (`Write`) or remove the path, the lease may lapse, the day may end, another
reclaimer may work on the same path, and the process may die. The other programs reach the
path only: what they append through a handle opened after `_assert_no_open_writer`
(`retention_reclaimer.py:348`) to the file that is then in quarantine is not modelled, see
section 5.

### GatedRun

The log is the events read back: approvals with their token, completed actions, and whether
a completion of the run was reported with its token; `shown` is the status in `state.json`,
which a crash may leave behind the log. Runners, review threads, a cancel and action
runners are processes with a place (`at`); each checks something and appends later. A
decision is named by the token of its gate, as `Authorised` compares nothing else. A crash
of the server takes the review threads and any of the processes it started. Left out: the
events of an approval without a gate for the action named by `scope.action_id`
(`pm_loop_control_plane_server.py:5893-5901`: queued, started and completed, with neither
lock nor receipt). `_normalize_loop_scope` (lines 5571-5610) refuses the field, which no loop
declares, so no run created through the API has it.

### Attention

A fault stands for its fingerprint: a module or a row with the reason given, the same one when
it recurs; `registry` is the one the dispatcher reports itself when it cannot verify its
registry. Faults come and go by themselves (`Change`). A pass of the dispatcher (`Tick`,
`Project`) or of the worker (`RunOnce`) is at one of the points between two transactions: it has
read the failures (`seen`, `healthy`), the suppressed fingerprints (`hidden`), it raises, closes,
lists and tells. The rows of a fingerprint are its open alert and the set of states its closed
ones have, which the schema makes unique, so a recovery is recorded in the first state that is
still free (`ClosesAs`). `stale` and `calm` are history: which passes read before the last
change, and whether a pass of the dispatcher has gone from its beginning to its end without one.
The alerts of error events, which no pass closes, and the limits of 200 rows and 100 alerts of a
pass are left out.

## 3. Runs

| run | instance | what it shows |
|---|---|---|
| `coordination` | two scheduled jobs of one key with different retry budgets, one manual job, two slots | every operation in any order keeps the tables consistent and implements `JobLifecycle` |
| `chain` | a weekly sync with one retry, the planner of each attempt, two slots, two crashes; beside it an analysis with two 429 answers and two crashes; beside it the calendar of a daily and a weekly schedule over three weeks | completions are earned or answered, planners get their manifest, jobs settle and events are resolved, calls stay in turn and unanswered ones are few; every missed window is accounted for |
| `lost_refresh` | the chain, safety only | expected violation, see Findings |
| `outbox` | a vector item and a semantic item of one revision, a concept item, one bucket, threshold 2, budget 1 | leases, tasks, reservations, breaker and projection stay consistent under every answer, lapse and deadline |
| `single_probe` | the same | expected violation, see Findings |
| `effects` | one item, three dispatches, two polls under way, one crash; beside it a snapshot and a log rewritten once, two plans, one death; beside it a run with two actions, two runners, one review, two action runners, one outage | an attempt is posted once, verdicts on tasks are final, and what is published is what `RemoteWrite` promises; what is removed was planned and the verdicts say so; actions are performed as approved, once, and a complete run performed them |
| `settling` | one item, two dispatches and a crash; beside it one text, two mishaps of its writer | under fairness items, watched tasks and admitted texts settle |
| `charged_429` | one item, two dispatches, safety only | expected violation, see Findings |
| `mirrors` | two texts, one writer, one mishap; beside it a module and the registry, one of which fails, recovers and fails again, one death of a pass | what is called delivered was read back, resends are bounded, a newer text stands; an alert is told a few times, and the open ones are the faults there are |
| `memory_replica` | two texts, no fault | expected violation, see Findings |
| `gate_resume` | the run with one runner, under fairness | expected violation, see Findings |
| `quiet_recurrence` | one module, five changes, no death | expected violation, see Findings |

### Bounds and why they are enough

* Two slots: the least number with which two leases can be confused, and one more
  than the exclusive key lets run. Two jobs of one key and one without contend for
  them.
* `MaxAttempts` of 0 and 1: the boundary of the budget from both sides.
* `MaxClaims` bounds claims of manual jobs only: nothing in the code does (they
  retry at will), and the state after the first retry repeats that of the first claim.
* `MaxCrashes`: a crash of the worker and one of the dispatcher, or the same process
  twice, so recovery meets the traces of a recovery.
* In `chain`, one analysis: two of them have too many states, and meet only in the provider's
  limit and throttle. `MaxModelAttempts` and `MaxLimits` of 2 let a retry be limited and a
  limited call be retried; `MaxClaims` of 7 is never reached by it.
* The constraint `OneGate` keeps freeze and closed admission from being combined:
  both only disable claims.
* The calendar of `chain`: six moments that are in time, late, before the window of their
  day, outside business hours, and after weeks, so that every decision is taken for both
  kinds; `MaxGaps` of 3 is exceeded by an outage of three weeks. `CalendarIsRight` checks the
  arithmetic against its definition on all minutes at which it could differ, for windows at
  the first and last minute of a day.
* `FourDispatches` and `MaxDispatches`: one dispatch more than the budget of a
  semantic item allows to be charged, and two items whose leases overlap in the bucket;
  the vector item is dispatched once because the breaker does not look at it.
  `CircuitThreshold` of 2 is the least that makes counting visible, `SoftLimit` of 1 the
  least that can be full.
* In the requests of `effects`, `MaxAttempts` of 2 has all three attempt numbers the
  controlled resend tells apart, `MaxDispatches` of 3 lets two senders overlap on one of them,
  `MaxObservations` and `MaxAnswers` of 2 let one poll overtake another. One item in mode
  `vectors_only`: senders of different items meet only in the breaker, which `outbox`
  covers.
* In the note of `mirrors`, two texts are an older and a newer one; a text the service writes late
  (`Laggards`) is the older. One writer: the lane of the worker is a loop that runs one pass
  at a time. One mishap is a death or a lease overrun at any step; `settling` has two of them,
  with one text. The import of the pending list (`Imports`) is in `settling` only: with two texts
  it makes eleven million states. The theorems of `MirrorProofs` cover it.
* In the alerts of `mirrors`, `Grace` of 2 tells a tick that fails from one whose failures have
  outlasted the last completed tick; three changes are a fault that comes, goes and comes back,
  or two faults of which one goes; one death falls at any step of either pass, and
  `quiet_recurrence` needs five changes for the third occurrence of a fault.
* In the removals and actions of `effects`, two plans are two reclaimers on one object, one
  version more than the plan names is a change at any step, one object is a directory
  (removed in parts) and one a file that changes. `DailyQuota` of 2 is spent by one plan.
  Two runners put a second decision in place of a reviewed one; the review and the restart
  each start one action runner. Deadlock is not checked there because runs and plans end and
  the bounds leave nothing else to do.
* Slots are interchangeable (symmetry) in the safety run of `Coordination`; runs with
  liveness use none.

### Fairness

`Fairness` of the chain assumes: the worker is restarted and keeps polling (`serve` loops,
launchd keeps it alive); each worker thread takes its steps (handlers have a timeout); the
dispatcher keeps ticking (launchd `StartInterval`); deadlines pass. It assumes nothing
about leases, backoff, business windows, cancellations, the calendar, or recovery by
evidence. A job settles even when no claim ever fits, because `claim_next` fails overdue
jobs.

`AnalysisFairness` assumes the same of an analysis: the worker is restarted and keeps
polling, the threads of each analysis take their steps (the model has a timeout), and time
brings the end of a throttle and the moment of a retry. That a window ends is not assumed.

`DeliveryFairness` assumes: some sender at work takes its steps (its requests have
timeouts and its phases only go forward, so every sender ends unless it dies); the
resource thread (`_serve_resources`, a loop of the worker) keeps sweeping the outbox,
polling tasks and recording what it learned; leases lapse and deadlines pass; the service
ends its tasks. It does not assume that an item is ever dispatched, that the observer
survives, or that the service answers: an item settles by its deadline, a watched task by
its observation budget.

`MemoryFairness` assumes that a writer takes its steps and leases lapse (weak fairness). The
loop of the lane (`pm_system_worker.py:993-1004`) claims and polls in turn for as long as the
worker is up, so an item that can be claimed or looked at again and again is (strong
fairness, since a refusal puts the item aside for a while); and the clock brings a failure
that is recorded again and again past its deadline (strong fairness of `RecordFailure` with
the deadline passed).

`FairGatedRun`, for `gate_resume`, assumes that each runner, review thread and action runner
takes its steps and that a dead server is started again.

## 4. Proofs

Every theorem holds for all values of the constants, from the assumption of its module
(`CoordinationAssumption` and so on) alone, unless the table says otherwise.

| `CoordinationProofs` | invariant it rests on |
|---|---|
| `TypeCorrect` | `TypeOK`, inductive |
| `SlotsAndRunsAgree` | `SlotRunAgreement` with the agreement of the running rows: together inductive; either alone is not, as a sweep tests `jobs.status` and `runs.status` separately and a release trusts the lease |
| `StatusColumnsAgree` | `JobRunAgreement`, on top of the former |
| `KeysExclude` | `KeyExclusion` with the lemma `OnlyClaimsStart`: no operation but a claim makes a job running |
| `BudgetHolds` | `RetryBudget`, inductive: its third part, that a waiting job has a retry to pay with, is what makes the second survive a claim |
| `VerdictsFinal` | action property; uses the slot invariant (a leased run is running, so a release never touches a verdict) |
| `OccurrencesAgree` | `OccInv`: the occurrence equals the projection of the linked rows, and the rows agree |
| `Refinement` | initial states and steps of `Coordination` map to those of `JobLifecycle`, with capacity bounded by an injection of active jobs into slots |

| `CatchUpProofs` | |
|---|---|
| `LatestIsGreatest`, `NextIsLeast` | the arithmetic of `Calendar` against `IsWindow`, for every task and moment; no induction, as days and weeks are divided out |
| `CatchUpIsAccounted` | `Position`: all windows between two rows have rows, and a tick under way stands at the window after the newest row, with everything before it written |

| `OutboxProofs` | invariant it rests on |
|---|---|
| `OutboxTypeCorrect` | `OutboxTypeOK`, inductive |
| `LeasesAgree`, `TasksAgree`, `BudgetHolds` | `ItemInv`, their conjunction with the types: a sweep reclaims by lease what it changes by status, so neither agreement survives it without the other; the lemma `SweepOfItem` says what the sweep does to one item, `EndStep` what every answer does |
| `BreakersAgree` | `BreakerInv`; the lemmas `BucketStep`, `CloseStep`, `ReopenStep`, `QuietStep` are the four ways a bucket may move |
| `ReservationsAgree` | `QuotaInv`: the counter equals the cardinality of the reservations, and `ItemInv`, which the observer's release needs to know that the item of an ended task is no longer on its way |
| `VerdictsFinal`, `VerifiedBodies` | action properties; from `ItemInv` and from the types |

| `ChainProofs` | invariant it rests on |
|---|---|
| `ChainTypeCorrect` | `ChainTypeOK`, inductive |
| `ChainRefinesCoordination` | every step of the chain is a step of `Coordination` or leaves its tables alone, so its invariants carry over |
| `ThreadsAreAlone`, `CompletionsAreEarned` | `RunInv`: no thread while the worker is down; the claim of a thread is the newest of its job, whose run is then neither waiting nor completed; a thread that will report success, and a newest event that says so, stand beside the handler.json of that claim |
| `PlannersAreFed`, `ConsumedEventsAreDecided` | `TickInv`: what the dispatcher validated stays true until it acts, since a completed run has no thread that could rewrite its files |

| of the analyses, in `ChainProofs` | invariant it rests on |
|---|---|
| `AnalysisTypeCorrect` | types of the chain and of `ModelCalls` |
| `AnalysisRefinesCoordination` | every step of an analysis is a step of `Coordination` or leaves its tables alone |
| `CompletedAreAnswered`, `FewAreUnanswered`, `CallsAreInTurn` | `AnalysisInv`, see below |

| `DeliveryProofs` | invariant it rests on |
|---|---|
| `TaskVerdictsHold` | every step is a step of the outbox (`DeliveryIsOutbox`), and a poll is written only on a live task |
| `AttemptsPostedOnce` | `JournalInv` with `SenderInv`: requests are counted by rows, a row is opened only where there is none, and a sender that waits for an answer has its row |
| `DeliveryImplementsRemoteWrite` | the same: the budget of requests is the number of rows, and an acceptance, read from an answer or from the journal, was one of the service |

| `MirrorProofs` | invariant it rests on |
|---|---|
| `MemoryIsInformed` | `MemoryInv`: what a writer in each phase knows of its item is true of outbox, journal and history (`Informed`), attempts and failures are charged as the phase says (`Charged`), rows are numbered as texts were noticed (`Noticed`) |
| `MemoryTypeCorrect`, `DeliveriesAreProven` | from it |
| `NewerTextsStand` | from it, and from `OneWriter`: the lane runs one pass at a time. A second writer (`pm_quarantine_replay.py:215`, started by hand beside the worker) could post an older text it checked before the newer one arrived |
| `ResendsControlled` | from it and `OneWriter`, by `ResendInv`: a text's count of blind sends is paid for by rows left unknown below its attempt and by mishaps; a lapse met at work counts only when the writer records a failure it cannot charge. False without `OneWriter`, see section 5 |
| `AttentionTypeCorrect` | `AttentionTypeOK` with `Tellers`: each pass holds alerts only while it tells, so an identifier is always left for a new one |
| `NoticesAreFew` | `NoticesBounded`: an alert not recorded as told has been shown by the passes about to record it and by those that died |
| `AlertsAreDue` | `FollowInv`: what a pass has read is current unless it is stale, one that is not stale leaves what is due open and closes the rest, and an alert that is open is told or in the hands of the dispatcher |

| `RetentionProofs` | invariant it rests on |
|---|---|
| `RetentionIsOrderly` | `RetentionInv`: types, and for each run the relation of disk, quarantine and action of the object it is at, by phase; two runs on one object are on different actions, so they meet on the path only, where the check after the move decides |
| `RetentionTypeCorrect`, `NothingElseRemoved`, `VerdictsAreTrue`, `OpenActionsAreAttended` | from it |
| `VerdictsAreFinal` | action property; from the table of allowed transitions |

| `GatedProofs` | invariant it rests on |
|---|---|
| `GatedInvariant` | who is at its actions holds the lock, so at most one is; what it believes done is what the log says; the token it works under was approved |
| `ActionsAreApproved`, `ActionsAreCompletedOnce`, `CompleteMeansCarriedOut` | from it |

The invariant of the analyses, `AnalysisInv`, is one argument. While a run waits for a claim all
its calls are over (`Quiet`) and it has no thread, so a claim starts the only one it has
(`AnalystsAlone`), and that thread calls the model only while the calls are over. Hence every call
but the newest is over: answered, or counted as unknown (`RunCalls`), and the count at which
`begin_model_call` refuses bounds the unanswered ones, the newest included. A thread that left a
call open leaves a run that never waits again. A checkpoint is written for the newest call only,
by a thread that holds its answer (`AnalystCalls`), and no call is opened after it, so a
completion, by the thread or from the checkpoint after a restart, has an answer.

`VerifiedBodies` (a verified body stays verified) and the `VerdictsAreFinal` of `RetentionProofs`
(a closed retention action does not move) are theorems whose properties no run lists: they follow from few guards, and
the runs keep to what a bug could break unseen.

Leaves that treat one conjunct of one action name the definitions they expand; moves
of leases are treated once, by the lemmas `Drop` (leases go, their runs stop) and
`Take` (a free slot is leased).

Only model-checked: liveness (`JobsSettle`, `EventsResolve`, `ItemsSettle`,
`WatchedTasksSettle`, `AdmittedTextsSettle`), which is out of the prover's reach. Every safety
property the passing runs check is a theorem. The chain and the analyses share a worker and are
proved one duty at a time, as they are model-checked: `ChainSpec` has no analysis
thread, `AnalysisSpec` no handler thread.

## 5. Findings

`lost_refresh`: `_dependency_validation` (`pm_loop_scheduler.py:325-327`) blocks a
pending dependency event as soon as its upstream run is `interrupted`. Recovery may
later repair that run to `completed` from its evidence, and a blocked event is never
looked at again, so a completed sync remains without its planner. The docstring of
`_append_weekly_dependency_event` (`pm_system_worker.py:252-255`) promises the opposite:
the event stays pending until the run is terminally completed, "avoiding a crash window
that would silently lose refresh". The trace: a thread overruns its lease after the
handler has ended, `claim_next` sweeps it, a tick blocks the event, the worker dies before
its release reports a stale lease, and the restart completes the run.

`single_probe`: `dispatch_once` refuses an item while "Another task already owns the single
recovery probe" (`pm_system_gateway.py:834`), but the probe lease is deleted by provider key
and not by owner: by the deadline of any item of the bucket (`pm_system_gateway.py:461`, the
trace), and by the answer to an older dispatch of the bucket (lines 946 and 1021). The next
dispatch then starts a second probe while the first is still out.

`charged_429`: a 429 answer leaves the ledger row of the attempt `unknown`. The next dispatch
has the same attempt number, as a 429 is not charged; it finds the row, fails without making
a request, and that failure is charged. After two such answers the item is given up. The
comment at `pm_system_gateway.py:1075` says that a 429 keeps the item in the throttle window
"without incrementing its attempt"; the test of that name looks at the first dispatch only.

`memory_replica`: `enqueue_memory_change` (`pm_system_store.py:3594`) admits a text of a note
once: it finds the event by note, hash and epoch. A note that goes from one text to another
and back is not sent a third time; the service keeps the text in between while every event
is consumed. `ov_memory_sync.py:4-5` promises a replica kept "in step whenever a local note
changes". The trace has no fault in it.

`gate_resume`: `_recover_action_runs` (`pm_loop_control_plane_server.py:652`) resumes the runs
whose status is `action_queued` or `executing`, but the status between two actions is
`verifying` (`pm_loop_runtime.py:62`). A server and an action runner that die between two
actions leave a run nobody resumes; the docstring (line 645) says "Resume approved generic
safe-draft actions after a service restart."

`quiet_recurrence`: `resolve_ops_alerts` closes the alert of a fault that is gone, and as a
fingerprint has one row per state, the second recovery is recorded in the next free one, which is
`suppressed` (`pm_system_store.py:3139`). A pass leaves out every fault whose fingerprint has a
suppressed row (`pm_ops_attention.py:124`), so the third occurrence of a fault opens no alert and
nobody is told, though no operator suppressed it. "A later recurrence creates a new open alert"
says the docstring (`pm_system_store.py:3082`); the tests look at the first recurrence
(`tests/test_pm_ops_attention.py:65`) and at a suppression by hand (line 113). `AlertsFollow`
takes suppressed rows as the code does, whoever made them.

### Behaviours without a run of their own

No text of the repository promises otherwise, so these are recorded among the hazards or
here only:

* a reservation is lost when the observer dies between the verdict on a task and the release;
* a submission answered `created` without a task identifier is never observed and stays
  accepted;
* the ledger row of a sender that died stays `pending`, which the check for the one controlled
  resend (`pm_resource_dispatcher.py:750`) does not count, so a third request is possible; the
  bound of one request per attempt holds in every case and is what `OnePostPerTry` and
  `RemoteWrite` state;
* a run that was cancelled may be reported complete afterwards, as neither a runner past its
  last look at the marker nor an action runner looks at it;
* actions are remembered by their identifier: an action of a second decision that has the
  identifier of one already completed is skipped as done;
* an action runner that dies alone is not restarted before the service is, and `state.json` left
  behind by a crash after an approval hides the run from recovery;
* a program that opens a log after the look for open handles (`retention_reclaimer.py:348`) and
  appends to it between the check of its hash in quarantine (lines 374-376) and its removal
  (line 378) loses what it appended;
* a directory of which `rmtree` removed a part and that was moved back counts as
  `rolled_back`;
* two writers of notes at once (the replay tool beside the worker, `pm_quarantine_replay.py:215`)
  can exceed the bound of `ResendsAreControlled`: one overruns its lease, the other claims the
  item, the first records its failure over that claim, and both go on to the next attempt. With a
  single mishap four blind sends of one text are possible;
* the alert that the registry is invalid is closed by the pass that follows it, and raised again by
  the next tick, as long as the last completed tick is younger than 120 seconds; `AlertsFollow`
  counts it as due only after that;
* an interrupted analysis with a completed checkpoint is repaired at a restart only while its
  run is still marked running, unlike a scheduled job.
* the token of a model call lasts 60 seconds and is not renewed, while a call may last 900
  (`pm_system_scheduler.py:577`): under a limit of one, two calls can be out. The test
  `tests/test_pm_system_v45_r2_contracts.py:133` asserts the limit with fresh tokens;
* `begin_model_call` looks at the run and not at the lease, so a thread that lost its lease
  can open a call, which the next thread then finds under way (`CallsInTurn` holds even so);
* a full provider fails the run instead of putting it off, and a freeze met by an analysis
  fails it for good;
* the count of 429 answers of the bucket of model calls is never reset.


## 6. Not modelled, and the plan

Not modelled, for the reasons `PROJECT.json` gives with each component:

* derived views (`pm_system_cockpit.py`, the read models): functions of state that no other
  component reads back;
* rendering and collection (web console, competitive radar, guides): data processing;
* the concept pipeline: batch processing of files behind one planner job; what the rest of the
  system sees of it, the job and its manifest, is in `DependencyChain`;
* one-shot operator scripts (replay, quarantine, repair, task reconciliation): sequences of
  operations that are modelled, run by hand;
* the vendored patch of OpenViking and its verification;
* the staged migration with its lease: run by hand, once per release; the freeze it sets is a
  flag of `Coordination`;
* evidence snapshots and artifact manifests: hashing; the one write that matters to others is a
  step of `DependencyChain` that may fail.

Next in the plan: the worker with handlers and analyses in one behaviour, and two analyses at
once, for the limit of the provider; the migration lease and its stages as a module of its own;
the review of memory candidates; that `ResourceDelivery` under two items implements
`RemoteWrite` for each, which is proved but run with one item.
