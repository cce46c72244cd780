# Formal models of the M365-Assess portal backend

M365-Assess assesses Microsoft 365 tenants with PowerShell. Its **portal** adds a
web client, a TypeScript backend (`portal/bff`, one Node process), a SQLite
database (`portal/db`) and PowerShell workers that the backend runs as child
processes (`portal/workers`). What is hard about the portal is in the backend:
queues, ticks, event streams and routes that await the same store. JavaScript
runs one callback at a time, so in every module **an action is the code between
two awaits**, and every await is a point where any other callback may run.

Paths below are relative to `portal/bff/src` unless they start with `portal`,
`docs` or `src`.

## Inventory

| Component | State | Operations | Talks to | Hard part | Correct when |
|---|---|---|---|---|---|
| Job queue `jobs/queue.ts` | waiting line, active map, `unfinished`, `preempted`; the `jobs` table | `enqueue`, pump, `startJob`, worker callbacks, `cancel`, `drain`, `getState` | supervisor, store, hub (`onProgress`) | cancel against start, lost wakeups, failing writes, restart | pool bounded, each job runs once and ends once, no job stranded, cancel honoured |
| Supervisor `jobs/supervisor.ts` | one child process per call | spawn, timeout, abort, read result | queue, worker process | exit racing abort and timeout | settles exactly once |
| Scheduler `scheduler/scheduler.ts`, `tick.ts` | timer; rows of `scheduled_tasks` | loop, tick, record outcomes | schedule queue, `jobs` table | overlap, order of enqueue and outcome, restart | one job per fire time, single flight, nothing due is forgotten |
| Schedule routes `routes/schedules.ts` | – | create, patch, delete, run-now | schedule store and queue | run-now and edits in the middle of a tick | as the scheduler |
| Cron `scheduler/cron.ts`, timers `system-timers.ts` | – | parse, next fire time | scheduler | boundaries | strictly later, first match |
| Progress hub `sse/hub.ts`, stream route `routes/runs-events.ts` | history, subscribers, terminal set, last state per run | publish, subscribe, unsubscribe | queue, workers, routes, run store | concurrent publishes, joining late, lines of a dead worker | nothing lost to those who listen; streams end; row follows the events |
| Run actions `routes/runs-actions.ts`, `domain/run-retry.ts` | – | cancel a run or a parent with children, retry | queue, run store, hub | partial cancel, worker finishing meanwhile | a cancelled run stays cancelled |
| Run creation `routes/runs-create.ts`, `domain/run-plan.ts` | rows of `runs` | plan, create parent and children, enqueue | run store, queue | failure between create and enqueue | no child is forgotten, its parent ends when it does |
| Run store, roll-up `adapters/runs.ts`, `domain/runs/run-rollup.ts` | `runs` rows | update, roll up the parent | database | parent computed from a stale read | parent agrees with its children |
| Standards timer `scheduler/standards-timer.ts`, `change-detection.ts` | dedupe windows, fingerprints | run per tenant | job queue | fingerprints stored before the enqueue | a changed tenant is run in its window |
| Reports `adapters/reports.ts` | report rows | enqueue render, complete | queue | cancelled or thrown render | a report ends |
| Remediation `routes/remediation.ts`, `adapters/automation.ts`, apply and verify workers | plans and their actions; job rows, the key inside the payload | plan, apply, verify, recording of results | queue, store, tenant | retries and restarts, batches that fail half way, two jobs over one plan | one apply per key, records never say more than was done |
| Alerts, rate limit, backup, drift, baselines, feature adapters, RBAC, credentials | small or per request | see `PROJECT.json` | | mostly sequential | |
| Repositories `portal/db/src` | SQLite | synchronous statements | everything | none: each call is atomic | |
| PowerShell engine, workers, web client, fleet | – | – | – | sequential or external | |

`PROJECT.json` lists every component with its status and the hazards at their lines.

## Modules

| Module | What it is |
|---|---|
| `JobLifecycle` | abstract: what a job's events promise to those who watch them |
| `JobQueue` | the queue and the worker calls, await by await |
| `MCJobQueue` | instances of it for TLC |
| `JobQueueProofs` | its inductive invariant and theorems, checked by TLAPS |
| `JobQueueRowsProofs` | on top of that invariant: its persisted rows, and that it implements `JobLifecycle` |
| `Scheduler` | loop, tick, outcome recording, schedule routes, job rows |
| `Cron` | cron expressions, next fire time |
| `CronProofs` | its theorems |
| `MCScheduler` | instances of both for TLC |
| `SchedulerProofs` | its theorems |
| `ProgressStream` | abstract: what a run's progress stream promises to those who open it |
| `RunStream` | the hub with all that publishes on one run and all that listens to it |
| `RunStreamProofs` | its theorems |
| `RunTree` | parents and children: creation, cancel, retry, roll-up, and their jobs |
| `RunTreeSteps` | its inductive invariant, and lemmas on its operators and steps |
| `RunTreeProofs` | its theorems |
| `Remediation` | plan, apply and verify, from the request to the recorded result |
| `MCRemediation` | instance of it for TLC |
| `RemediationProofs` | its theorems |

Operators named after a function of the code (`pumpLoop`, `schedulePump`,
`isScheduleDue`, `nextFireTime`, ...) model that function. An operator whose comment
starts with `Mutant:` is not part of the specification: it is the form a plausible
bug would give to the definition that follows it, kept to show that the properties
notice.

### JobQueue

`waiting`, `active`, `unfinished` and `preempted` are the fields of `JobQueue`;
`pumpAt = "idle"` is `pumpScheduled = false`. `row[j]` is `progress.queueState`, the
five-state marker that `fromPersistedRecord` reads back; the column beside it is a
projection of it. `enqueue`, `work`, `call` and `pumpAt`/`starting` say at which
await each call under way is. `emitted` is the history of lifecycle events given to
`onProgress`.

A call of the persistence seam is two actions: the write takes effect, and later
its caller resumes. It can also reject, at most `MaxFaults` times; then the code's own
handling follows (the empty catch of `pumpLoop`, the empty catch of the worker chain,
the rejected `enqueue` and `cancel`). `persistState` reads the record before it
writes it; the read contributes only details no property looks at, so the pair is
one write. A worker call settles by exiting (then its result file decides), by spawn
error or timeout, or by an abort that arrives before it exited. A cancel may arrive at
any time, for a job not yet accepted too: the run row carries the job id before
`enqueue` has returned.

### Scheduler

`task` is the `scheduled_tasks` table. The job rows of a schedule are counted:
`running` are those the queue is working on, by whether a tick or a run-now enqueued
them; `stranded` are rows left queued or running by an earlier process or by a
rejected write. Both count for `isRunning`, which queries the table.
`ended` is the `updatedAt` of the newest terminal row. `tick[t]` holds what a call
of `tick()` holds in its closure: the snapshot of the schedules, those still to do, and
the instant. Time is an integer; a cron expression is a period that fires at its
multiples, and `nextFireTime` is the first one strictly later. `Timers` are the system
timers that are available: they have no stored row, so they are always due, and
their target is "all".

### Cron

`Cron` has no variables: it is `parseCron` and `nextFireTime` as operators, on the real
calendar (days from 1 March 2000, in eras of 400 years) and a scaled clock, in the run of 2
seconds, 2 minutes and 3 hours. A field is the set of its comma separated parts. The
properties compare `nextFireTime`, a search by day with expanded fields, with what the
expression says of each instant (`Names`, `Fires`), which expands nothing.

### RunStream

All maps of the hub are keyed by the run, so one run is all of what they do.
`history` holds its events, `call[k]` is where `publish()` of event k is:
called and waiting for the row's update (`write`), resumed (`written`), about to
fan out (`fanOut`), `done`. `lastState`, `terminal` and `subscribers` are `runStates`,
`terminalRuns` and `subscribersByRun`. `writes` are updates of the row that were
called and have not taken effect, `row` and `section` the rows of the run
and of the worker's section. `openAt` and `joinedOver` are history variables: the
calls that were not done when an event was published or a client joined.

The publishers are the job (`JobStep`: the events of `JobLifecycle`, reused here as the
abstract queue that `JobQueue` is shown to implement), the worker's progress lines
(`Line`) and the cancel route (`CancelAsked`, `CancelPersists`, `CancelPublishes`).
`forwardProgressLines` leaves its listener on the worker's output when the job settles,
so `Line` does not ask whether the job is over. A write may reject, before the row was written or after it, when the
roll-up that follows in the same call throws; `updateStore` has
noted the state by then, so an event with the same state does not write again. The
run's row may be left behind for ever, which is why `RowFollowsHub` excepts a newest
write that was rejected (`missed`). With that exception the row says what the newest
event says: also when the newest event is a late line, which takes a
terminal row back to "running".

`Outcomes` is {"succeeded"} in the run: the hub and the row only tell terminal from
not terminal and changed from unchanged, and "cancelled", the other terminal state, arises
by the cancel route and by the queue.

### RunTree

`runs` is the table of runs: `leaf` says whether a row has a job of its own or is a parent,
`parent` and `status` are its columns. `chains` are the calls of `updateRun` under way, oldest
first: `updateRun` writes the row, and then, each in a later turn, `rollUpParent` reads the
parent, lists the children, and writes the parent. Chains overlap, and that is the hazard: a
parent may be written from children that have changed meanwhile. The requests create a
parent with its children (one transaction, then one enqueue at a time), cancel a parent
or retry a run. Cancel and retry read the run, whose status decides whether they go on (`AskCancel`,
`AskRetry`), and list its children after an await, as they are by then (`CancelParent`,
`RetryParent`); when nothing is left to do they are refused (`Refuse`). Which children a retry
takes is decided by its body and by the sections on record, so a child that succeeded or that runs
again may be taken: `selectFailedTargets` is any choice of some of them. A retry has two more awaits, for the sections and the body,
in which a run only gains children; that choice covers them. Jobs are again `JobLifecycle`. Of a run's events `RunTree` has those of the
queue and of the requests; the worker's progress lines are in `RunStream`. What `RowTellsOutcome`
and `OutcomeStands` say of a row is therefore true until a late line arrives, which
takes any row back to "running".

What one meets here. A retry of a parent inserts the retry's parent as a
child of the original, and a roll-up goes up one level, so the original may stay
"running" when all jobs are over. A second retry takes the failed retry parent for
a child to retry, and its tenant gets two jobs. An enqueue that throws leaves the
rows that were created for it queued, for ever, and with them their parent.
`ParentAgrees`, `AnsweredRunsEnd` and `NoRunForgotten` name these cases (`Stuck`,
`Retried`) and hold for everything else.

One assumption is finer than the code. `rollUpParent` does not write when neither status nor
`finishedAt` has changed (`adapters/runs.ts` 47), and `finishedAt` is a stamp in milliseconds. `Unchanged`
takes every update of a run that is over to have an instant of its own, so a parent that is over is
written again, with the status it has if that is what its children add up to. When the stamp
is not new (two in one millisecond, or the cancel route's `now`, which all its updates
share and which may be older than a child's end), the code leaves that write out if the status is equal too,
and an older roll-up still under way has the last word. The run's result
depends on it: were `Unchanged` allowed to skip there, `ParentAgrees` would fail for a child of a retry that fails
in the millisecond in which its siblings' roll-up, older but not yet written, says "running".
`ParentAgrees` is claimed for stamps that differ.

### Remediation

A request looks up its key among the persisted jobs (`Found`), awaits, and enqueues. `ask` and
`at` say what each request asks for and where it is; the selection is a set of positions in the
plan. `life` is the life of its job as `JobLifecycle` sees it (a row that is not "unknown" is in
the `jobs` table), `work` its worker: the results so far and how many of them are stored.
`stored` says whether the plan is in the database, and `state` is the column of that name of the rows of
its actions; a row does not exist before the plan is stored ("absent"). `changed` and `passed`
are what the tenant has really had: the actions some job carried out, and those some verify
found in order. `wrote` and `after` are history variables: the jobs that wrote an action's row, in
order, and, of the jobs with something to record, those that were over when a job started. `restarts` counts restarts.

The plan worker stores an action as "planned", or as "skipped" when a gate refuses it or no
remediation is defined for it (`portal/workers/M365Portal.Workers/Plan-Remediation.ps1` 218), and the import takes
that over. `StorePlan` chooses which ones out of `Gated`; in the run that is the second of the two
actions, or both. Both is how it is wired today: `plan-remediation.ps1` passes no allowlist, so every
action is stored as skipped. An apply looks at the actions the caller selected, not at this state.

The worker's loop is one action per step: it skips, rejects, throws, dry-runs, applies or
fails, and stops at the first failure. When a job succeeds its results are stored one by one
with an await between; a failed job's results are not stored at all. `Killed` is a crash or the
timeout, after which the job has failed (only the jobs of runs can be cancelled); `Restart` loses the
queue's memory and leaves the worker process free to go on.

What the executor answers is left open over all of its answers. As it is wired today,
`apply-remediation.ps1` passes no caller context, so that `Test-RemediationGate` rejects
every action, and a verify finds no collector and records "failed": the
properties hold for that choice as for the others. `OnlyWhatWasAsked` is therefore said of who
wrote a row, and not of the state a row is in.

## Runs

| Run | Instance | Shows |
|---|---|---|
| `queue_safety` | 3 jobs, 1 cancel, pool 2, 2 faults, symmetry | types, pool bound, exact counter, no lost wakeup, one home per job, withdrawn jobs never run, no orphaned rows, rows tell the last event of a job |
| `queue_lifecycle` | 2 jobs, 1 cancel, pool 1, 1 fault, fair | `JobQueue` implements `JobLifecycle`, liveness included; a job marked by a cancel before its worker starts never runs |
| `queue_cancel_starting` | 2 jobs, 1 cancel, pool 1 | **violated**: a cancel answered true does not stop a starting job |
| `queue_cancel_refused` | same | **violated**: a cancel is refused for a job about to run |
| `queue_drain` | same | **violated**: `drain()` resolves over a row that says queued |
| `scheduler` | 1 task of period 1 or 2, 1 timer, 1 tick, 1 run-now, 1 edit, 1 fault or restart, time to 3, fair | types, the scheduler has no more own jobs than ticks, nothing is put off, due tasks are served, outcomes are recorded, and in order; over samples, `nextFireTime` is the first instant an expression names, and fails only for one that names none |
| `scheduler_single_flight` | 1 task, 1 run-now | **violated**: run-now overlaps the job in flight |
| `scheduler_slot` | 1 task of period 3, time to 8, no edits, faults or run-now | **violated**: one fire time is run twice |
| `scheduler_timers` | 1 task, 1 timer, fair | **violated**: a system timer never runs |
| `run_stream` | 1 client, 2 overlapping publishes, 2 lines or rejected writes, a cancel, fair | `RunStream` implements `ProgressStream`, liveness included; what a stream lacks, repeats or gives out of order; that the rows follow the events |
| `run_tree` | 2 requests (create, cancel, retry), 2 tenants, pool 2, 5 runs, 2 chains, 1 fault, fair | parents agree with their children, every run is moved by a job, rows tell the job's outcome, outcomes stand, answered runs end |
| `remediation` | 3 requests over a plan of 2 actions, 2 keys, pool 2, 1 restart, symmetry | one apply per key but by an overlap, records of what was asked and done, the newest job's results stay |

Bounds. Three jobs with a pool of two is the least instance with a job in line,
one starting and one active (or two active and one starting) at once; two faults
allow a failure while another one is being handled. In
the refinement run a pool of one makes the second job depend on the first one's release.
In `scheduler` time 3 gives two fire times and thus a second outcome, and two periods let an edit
change the cron between a tick's snapshot and its write (295,952 states); one fault lets
each await fail in turn, or the process restart at any point. `MaxTime` stops the
clock and not the loop: a tick still fires at the last instant, so that the liveness
properties do not depend on the bound. A run that stops by itself (every job
over, every cancel answered) is not a deadlock of the code, hence
`CHECK_DEADLOCK FALSE`.

The samples of `Cron` are 24 accepted expressions (every kind of part, both kinds of day
and both at once, 1 January, 29 and 30 February) and one that is refused at each date, from the first
and last second of days that end a week, a month, a half year or a February, and of the two
days in 2096 from which 29 February is next to come in 2104, with offsets of none, half a day
east and more than half a day west.

In `run_stream` two calls of `publish()` are the least number that can overtake each
other; a client may join before, between and after them, and since clients do not see each
other one is enough for what a stream may hold. Two lines and rejections
give a line before and one after the job's end, a rejected write with a line
behind it, and two rejected writes. In `run_tree` five runs are a parent with two children and a
retry's parent with its child, two chains the least number that race, and two
targets let one child end while the other is still to be enqueued. In `remediation` one
request makes the plan and two more overlap or follow each other; two keys let the
second apply be another one or a replay, and a selection that is not a prefix makes the
positions in the plan and in the results differ; the gates refuse one action of the plan or both.

Fairness. Weak fairness per process: pending callbacks are run by the event loop,
calls of the store settle, a worker settles because its timeout kills it
(`jobs/supervisor.ts` 260-263), the clock runs and `setTimeout` fires. In `RunStream` and `RunTree` the
queue's own steps are fair because `JobQueue` is shown to bring every job to an end. Nothing
is assumed of users, of progress lines, of faults or of restarts; `Remediation` states safety only.

What the violations say is in `PROJECT.json` under findings, each with the line of
the repository that says otherwise. Shortly: `cancel()` reads the row, and
between its await and its `preempted.add` the job may start (and, the other way
round, between the running row and `active.set` a job cannot be cancelled at all);
the run-now route is mounted without `isRunning`; `recordOutcomes()` runs after the
new job is enqueued and moves `nextRunAt` back to the fire time just served; and
the tenant "all" of a system timer is refused by a foreign key.

Conditions in the properties. `NoOrphan` holds while no write has been rejected: the
code strands a row when one is. `RowTellsTheEnd` excepts a row that a cancel, which had read it
earlier, turned to cancelled after the job's end. `OwnJobsWithinTicks` counts the ticks that may
overlap: the loop does not wait for a tick, and two slow ones may both find nothing
running. The run has one tick under way; the theorem covers any number. `DueIsServed` excepts schedules with a stranded row: `isRunning` stays
true for them for ever.
`OutcomesInOrder` holds while ticks do not overlap: of two that do, the one that writes
last may carry the older completion, and `lastRunAt` then goes back. The theorem says so as an
assumption, and the run has one tick. `PreemptedNeverRuns` speaks of a job whose mark came before
its worker; what a mark that comes too late does is `queue_cancel_starting`.
`OutcomeStands` excepts a cancel of the parent, which writes "cancelled" over what it has read.
`RepeatsOnlyIfJoinedDuring` and `OvertakenOnlyWhileOpen` say exactly when a stream
repeats an event or gives it late: while its `publish()` awaited the store.
`OneApplyPerKey` excepts requests that overlap: the key is looked up several awaits before
the job's row exists. A replay after a restart is answered with the job of its key
although that job will not run any more.

## Proofs

Liveness and fairness are beyond the prover and stay with TLC. Every invariant of a passing
run, its action properties, and the safety part of both refinements are also proved, for every
value of the constants that the module's assumption allows. None but the simplest is inductive alone; each module
of proofs therefore has an inductive invariant, of named parts. Each action has a lemma
named after it, actions that change the same few variables share one, and the theorems
follow by `PTL`.

| Module | Theorem | Property |
|---|---|---|
| `JobQueueProofs` | `Inductive`, `TypeCorrect` | `IInv`, `TypeOK` |
| | `PoolNeverExceeded` | `PoolBound` |
| | `CounterIsExact` | `UnfinishedCounts` |
| | `NoWakeupIsLost` | `NoLostWakeup` |
| | `JobsHaveOneHome` | `OneHome` |
| | `WithdrawnStaysOut` | `WithdrawnNeverRuns` |
| | `PreemptedStaysOut` | `PreemptedNeverRuns` |
| `JobQueueRowsProofs` | `RowsInductive` | `RInv` |
| | `NoJobIsStranded` | `NoOrphan` |
| | `RowsTellTheEnd` | `RowTellsTheEnd` |
| | `LifecycleIsImplemented` | the safety part of `ImplementsLifecycle` |
| `SchedulerProofs` | `Inductive`, `TypeCorrect` | `IInv`, `TypeOK` |
| | `OwnJobsBounded` | `OwnJobsWithinTicks` |
| | `NothingPutOff` | `NeverPutOff` |
| | `OutcomesForward` | `OutcomesInOrder`, of ticks that do not overlap |
| `CronProofs` | `NextFireTimeIsFirst` | `NextIsFirst` |
| | `NeverIsNever` | `NeverMeansNever` |
| `RunStreamProofs` | `Inductive`, `TypeCorrect` | `IInv`, `TypeOK` |
| | `StreamsEnd` | `StreamsEndTogether` |
| | `NothingIsMissed` | `NothingMissed` |
| | `OvertakingIsOverlap` | `OvertakenOnlyWhileOpen` |
| | `RepeatsAreOverlap` | `RepeatsOnlyIfJoinedDuring` |
| | `StreamsTellOutcome` | `EndsWithOutcome` |
| | `RowFollows` | `RowFollowsHub` |
| | `SectionStaysRecent` | `SectionIsRecent` |
| | `StreamIsImplemented` | the safety part of `ImplementsStream` |
| `RunTreeProofs` | `Inductive`, `TypeCorrect` | `IInv`, `TypeOK` |
| | `NothingForgotten` | `NoRunForgotten` |
| | `RowsTell` | `RowTellsOutcome` |
| | `ParentsAgree` | `ParentAgrees` |
| | `OutcomesStand` | `OutcomeStands` |
| `RemediationProofs` | `Inductive`, `TypeCorrect` | `IInv`, `TypeOK` |
| | `KeysApplyOnce` | `OneApplyPerKey` |
| | `RecordsAreTrue` | `AppliedMeansDone` |
| | `NothingUnasked` | `OnlyWhatWasAsked` |
| | `RecordsAreComplete` | `SucceededIsRecorded` |
| | `LaterRecordStands` | `LatestWins` |

`JobQueueProofs`, for every finite set of jobs, any callers, any pool size and any number
of faults (`JobQueueAssumption`). The pool bound needs to know that while a job
is being started a slot is still free for it, which needs that only the pump adds
to `active` and that it holds one job at a time; the counter needs the same and
that each job is in one place. `Books` states what the pump's own variables mean to
each other at each of its awaits, and is a predicate of five values so that the same
lemma serves every caller of `pumpLoop` (`PumpLoopBooks`, `SchedulePumpBooks`).
`Placed` says where a job may be, `Decided` that a settled worker has a terminal
verdict, `Called` that a cancel call in progress has a job and that a withdrawn one is
in no other place.

That a marked job never runs is a property of two states, and what goes from the one to the other
is `Doomed`: no worker was called, and the job is marked, or `startJob()` has taken the mark off and
is giving the job up, or the job has left the queue. `PumpLoop` can only take a job that is in line
(`PumpLoopTakes`), nothing accepted joins the line again, and the pump calls no worker for a
marked job, so every step keeps it (`StaysDoomed`), whichever write rejects.

`JobQueueRowsProofs` goes on from there. `RInv` is inductive relative to `IInv`: a row that is
not over has an owner (`Owned`, `NoOrphan` for one job), whoever is about to publish a
job's end has written it (`Saved`), the last event and the row agree and a job that is still
under way has not been told to be over (`Told`), a cancel call goes one of
its two ways (`OneWay`), and a pump past the check of `preempted` left a cancelled
row (`Preempted`).

The refinement of `JobLifecycle` needs one more invariant, `FInv`, relative to both: what a
job was told last follows from where it is (`Follows`: queued while in line, in hand or being
withdrawn, running while its worker is under way), one call withdraws a job (`Alone`), and
there are no more faults than allowed, so that a job is lost only if one may be. Every action
leaves every job `Unmoved` (`QuietStep`) or moves the life of one job by one step of
`JobLifecycle` (`LoudStep`). That a job starts only while fewer than `PoolSize` run comes from
`Books`: the slot was kept free since the pump took the job in hand.

`SchedulerProofs`, for any schedules, timers, requests, bounds and any finite number of
overlapping ticks (`SchedulerAssumption`). `Ticking` says that the schedule a tick is at is one
it has to do, and has a row by the time it is written; `Asking` the same of
requests. `Room` is the strengthening of `OwnJobsWithinTicks`: the jobs in flight and the ticks
that have found none and are about to enqueue are together no more than the ticks.
`Timely` is the strengthening of `NeverPutOff`: no call holds an instant of the future, and a stored
next run `Fits` some period at this instant; since the next fire time grows with the instant it
is asked for (`FireTimeGrows`), what fitted an earlier instant fits a later one (`FitsLater`).
`Abreast` is that of `OutcomesInOrder`: the rows a recording tick has read still say what
`lastRunAt` is, and the completion it holds is later (`Follows`). Only a record moves
`lastRunAt`, and `t = u` for all ticks means that nobody else is recording.

`CronProofs`, for every accepted expression, every instant and offset, and any number of
seconds, minutes and hours to the larger unit, so for the real clock
(`CronAssumption`). The lemmas on division give the clock: an instant is made of the
parts it is read into (`ClockReads`, `ClockMakes`). A field holds the values that
its parts name (`FieldHolds`), the instants of a day in the parsed expression are those at which
the expression fires (`DayFires`), and the search, by days and then by the least instant of the
first day that has one, finds the least of all (`SearchIs`; least elements exist
because `<` on the naturals is well-founded). That the search never gives up needs the
calendar from its other side: a date of a given year falls on the day of its
number (`DateFalls`), one of eight years in a row has a leap day (`LeapDayComes`), and thus every date and
every weekday of every month comes within the 2928 days that are searched
(`NamedDateComes`, `WeekdayComes`). No day has a date its month lacks (`DateFits`), so an expression
for 30 February has no fire time.
The theorems state `NextIsFirst` and `NeverMeansNever` of `Cron`; the
invariants of these names in `MCScheduler` ask the same of the samples, once, in the first states of the run.

`RunStreamProofs`, for any clients, outcomes, lines and rejected writes
(`RunStreamAssumption`). The properties of streams are inductive once `Pending` (a call under way
was so whenever a later event came) and `Over` (a run that is over has told so) are
known. `Waiting` ties pending writes to the calls and the route that await them, and
`Rows` says that the last pending write, or else the row, tells what the newest event tells,
or what the cancel route is about to publish. For repeats `Order` splits
a stream into the replay, which has events 1 to n, and the rest, which has each event
at most once and one of the replay only if it was under way when the client joined.

`RunTreeSteps` and `RunTreeProofs`, for any number of requests, targets, rows, updates under way
and faults (`RunTreeAssumption`). The three properties speak of quiet states only, so the
invariant has to say what is owed while something is under way. `Tree` says which rows are
leaves, `Holds` what a request holds at each of its steps and that no run is
to be enqueued by two of them. `Line` is what makes the rest work: updates do not overtake
one another on their way through the await points, so the newest one decides. `Known` is what the hub
can have been told of a job; `Told` says that the newest pending update of a run, or else
its row, tells what the hub published last or what a cancel is about to publish; `Remembered`
that a leaf without a job is still to be enqueued or will tell its end. `Agrees` is the
strengthening of `ParentAgrees`: a parent whose children are over shows what they add up to,
or the newest roll-up under way has not read them yet or has read them as they are, or a cancel
has written or is about to write it. It needs `RollupIs`, what `rollupRunStatus` makes of
a set of statuses, and that a status that is over does not move except to another one by an update
still under way. `OutcomeStands` follows from `Final`, inductive relative to `IInv`: a run whose row has
an outcome, or is to get one by an update under way, is over (`Over`: its job is, or it has none and
nobody is to enqueue it), and what is still to be written behind that is cancelled (`Withdrawn`).
It needs `Apart`, without which a run that `failRun` failed could be on another list, and `Line`,
without which an older update of the job could come after its outcome.

`RemediationProofs`, for any actions, keys, selections, requests, pool and restarts.
`Requesting` follows a request: what is known of it at each step (`Phase`), and that of two applies
of one key the later one met the earlier one without a job (`Met`). `Working` follows a worker:
its results are about what was asked and say what was done (`Honest`), those told are on
record (`Told`), and there is one for every action in the end (`Complete`). `Recorded`
joins the properties themselves with who may have written a record (`Written`).

Only model-checked: liveness, which is `AnsweredRunsEnd` of `RunTree`, `DueIsServed` and `OutcomesRecorded` of
`Scheduler` and the fairness of `JobLifecycle` and `ProgressStream`. The code's own search, which counts
up in loops, is modelled as the least match; that the loops compute it is not proved.

## Not modelled

Parsing, authorization, formatting, audit rows and the text of messages; how a killed
process tree dies; `getState` and the other reads. Repository calls are atomic because
SQLite statements here are synchronous.

- Cron: splitting text into parts, `parseTzOffset`, `describeCron`; `"*,*"`, which the code
  does not take for a wildcard and a set of parts cannot tell from `"*"`. `Scheduler` itself
  keeps its expressions to periods.
- Scheduler: schedules created
  by users with target "all" or a group, which behave as `Timers` do when they are
  enqueued; credentials, reduced to the choice of failing the run before a
  job exists. The order in which a tick visits schedules is left open.
- Hub: the sanitising of messages, and `stream()`, which the application does not use.
- Runs: the resolution of targets, how a retry computes what it retries from its body and the
  sections on record, the ingestion of findings and artifacts of a finished run. The idempotency key of run
  creation is dead code as the application is assembled: `app.ts` 764-770 mounts the route
  without a store for it, so there is nothing to check.
- Remediation: more than one plan (plans share nothing, and the lookup of keys does not
  look at the plan); a refused request is forgotten; findings, audit and alerts that follow
  a result, the values before and after, instructions.
- Reports and the standards timer are planned below.

The repository is mostly code of another kind: feature routes that spawn one worker per
request and map its answer, the web client and the report's script, the PowerShell
collectors and checks, SQL behind synchronous calls. None of it keeps state between
steps that interleave; a model of it would repeat the code. The modules
therefore cover the backend's concurrent core nearly line by line and a small
share of the whole.

## Plan

Done: the queue, the scheduler, the hub and the stream of one run, parents and children,
remediation. Left:

1. `ReportRender` (a render job moves its report row before its own terminal write) and
   `StandardsTimer` with change detection.
2. Pure algorithms against reference definitions: roll-up, sliding window rate limit.
