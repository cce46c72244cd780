----------------------------- MODULE Scheduler -----------------------------
(***************************************************************************)
(* Scheduled runs: the scheduler loop (scheduler/scheduler.ts), its tick   *)
(* (scheduler/tick.ts), the routes that change schedules or run them now   *)
(* (routes/schedules.ts) and the store they share.  A tick and a run-now   *)
(* request await the store, and enqueuing awaits the file system, so they  *)
(* interleave with each other and with the jobs they start.  Time is       *)
(* counted in loop intervals; the clock stops at MaxTime, ticks do not.    *)
(***************************************************************************)
EXTENDS Naturals, Sequences, FiniteSets

CONSTANTS Tasks,        \* user schedules whose target is a tenant
          Timers,       \* available code-deployed timers, whose target is "all"
          Ticks,        \* tick() calls that may be under way at once
          Requests,     \* run-now requests that may be under way at once
          Periods,      \* cron expressions: fire at every multiple of the period
          Interval,     \* the loop's interval
          MaxTime,      \* where the clock stops
          MaxRunNow,    \* how many run-now requests are made
          MaxPatches,   \* how many times schedules are edited
          MaxFaults     \* how often an awaited call rejects or the process restarts

ASSUME SchedulerAssumption ==
  /\ IsFiniteSet(Tasks) /\ Tasks \cap Timers = {} /\ IsFiniteSet(Ticks)
  /\ Periods \subseteq Nat \ {0} /\ Periods # {}
  /\ Interval \in Nat \ {0} /\ MaxTime \in Nat /\ MaxTime > Interval
  /\ {MaxRunNow, MaxPatches, MaxFaults} \subseteq Nat

VARIABLES
  now,       \* the clock, from 1
  timerAt,   \* when the loop fires next
  task,      \* task[s]: the row of schedule s
  running,   \* running[s]: how many of its jobs are in flight, by who enqueued them
  stranded,  \* stranded[s]: how many of its rows are queued or running with no job left
  ended,     \* ended[s]: when its newest terminal job finished, or Never
  starts,    \* starts[s]: the instants of the ticks that enqueued a job for s
  tick,      \* tick[t]: a call of tick()
  request,   \* request[r]: a run-now request
  budget     \* what is left of the Max bounds

vars == <<now, timerAt, task, running, stranded, ended, starts, tick, request, budget>>
jobVars == <<running, stranded, ended>>
time == <<now, timerAt>>

Never == 0
Schedules == Tasks \cup Timers

(* nextFireTime(): the first match strictly after an instant. *)
nextFireTime(period, from) == (from \div period + 1) * period

(* Mutant: the tick, too, is given no isRunning and takes the default. *)
isRunningDefault(s) == FALSE

(* isRunning() looks for queued or running rows, whoever left them. *)
isRunning(s) ==
  running[s].tick + running[s].user + stranded[s].tick + stranded[s].user > 0

(* The route is mounted without an isRunning option, and takes the default. *)
routeIsRunning(s) == FALSE

(* A job row references a tenant, and the target "all" is none. *)
CanEnqueue(s) == s \in Tasks

Spend(what) == budget[what] > 0 /\ budget' = [budget EXCEPT ![what] = @ - 1]

NoJobs    == [tick |-> 0, user |-> 0]
Blank     == [state |-> "absent", enabled |-> FALSE, cron |-> CHOOSE p \in Periods : TRUE,
              lastRunAt |-> Never, nextRunAt |-> Never]
NoTick    == [at |-> "idle", now |-> Never, todo |-> {}, cur |-> "none", rows |-> [s \in Tasks |-> Blank]]
NoRequest == [at |-> "idle", cur |-> "none", now |-> Never]

Init ==
  /\ now = 1
  /\ timerAt = 1 + Interval
  /\ task = [s \in Tasks |-> Blank]
  /\ running = [s \in Schedules |-> NoJobs]
  /\ stranded = [s \in Schedules |-> NoJobs]
  /\ ended = [s \in Schedules |-> Never]
  /\ starts = [s \in Schedules |-> <<>>]
  /\ tick = [t \in Ticks |-> NoTick]
  /\ request = [r \in Requests |-> NoRequest]
  /\ budget = [runNow |-> MaxRunNow, patches |-> MaxPatches, faults |-> MaxFaults]

-----------------------------------------------------------------------------
(* Users edit schedules. *)

CreateSchedule(s) ==
  /\ task[s].state = "absent"
  /\ \E p \in Periods, e \in BOOLEAN :
       task' = [task EXCEPT ![s] = [state |-> "present", enabled |-> e, cron |-> p,
                                    lastRunAt |-> Never, nextRunAt |-> nextFireTime(p, now)]]
  /\ UNCHANGED <<time, jobVars, starts, tick, request, budget>>

(* Mutant: the next run follows on from the one that was planned. *)
PatchCronFromPlanned(s) ==
  /\ task[s].state = "present"
  /\ Spend("patches")
  /\ \E p \in Periods : task' = [task EXCEPT ![s].cron = p, ![s].nextRunAt = nextFireTime(p, @)]
  /\ UNCHANGED <<time, jobVars, starts, tick, request>>

(* PATCH of the cron expression or the timezone reschedules. *)
PatchCron(s) ==
  /\ task[s].state = "present"
  /\ Spend("patches")
  /\ \E p \in Periods : task' = [task EXCEPT ![s].cron = p, ![s].nextRunAt = nextFireTime(p, now)]
  /\ UNCHANGED <<time, jobVars, starts, tick, request>>

PatchEnabled(s) ==
  /\ task[s].state = "present"
  /\ Spend("patches")
  /\ task' = [task EXCEPT ![s].enabled = ~@]
  /\ UNCHANGED <<time, jobVars, starts, tick, request>>

DeleteSchedule(s) ==
  /\ task[s].state = "present"
  /\ Spend("patches")
  /\ task' = [task EXCEPT ![s].state = "deleted"]
  /\ UNCHANGED <<time, jobVars, starts, tick, request>>

-----------------------------------------------------------------------------
(* POST run-now: look up, enqueue, then set the schedule due. *)

RunNow(r, s) ==
  /\ request[r].at = "idle"
  /\ task[s].state = "present" /\ ~routeIsRunning(s)
  /\ Spend("runNow")
  /\ request' = [request EXCEPT ![r] = [at |-> "enqueue", cur |-> s, now |-> now]]
  /\ UNCHANGED <<time, task, jobVars, starts, tick>>

(* The job is enqueued, or its run is failed for want of a credential. *)
RunNowEnqueues(r) ==
  /\ request[r].at = "enqueue"
  /\ \/ running' = [running EXCEPT ![request[r].cur].user = @ + 1]
     \/ UNCHANGED running
  /\ request' = [request EXCEPT ![r].at = "update"]
  /\ UNCHANGED <<time, task, stranded, ended, starts, tick, budget>>

RunNowSetsDue(r) ==
  /\ request[r].at = "update"
  /\ task' = [task EXCEPT ![request[r].cur].nextRunAt = request[r].now]
  /\ request' = [request EXCEPT ![r] = NoRequest]
  /\ UNCHANGED <<time, jobVars, starts, tick, budget>>

(* Either call rejects, and the request answers with the error. *)
RunNowThrows(r) ==
  /\ request[r].at \in {"enqueue", "update"}
  /\ Spend("faults")
  /\ request' = [request EXCEPT ![r] = NoRequest]
  /\ UNCHANGED <<time, task, jobVars, starts, tick>>

-----------------------------------------------------------------------------
(* tick(): tickSchedules(), then recordOutcomes(). *)

Goto(t, at) == tick' = [tick EXCEPT ![t].at = at]

(* On to the next due schedule, or to recordOutcomes(). *)
Continue(t, todo) ==
  tick' = [tick EXCEPT ![t] = IF todo = {} THEN [NoTick EXCEPT !.at = "list"]
                              ELSE [@ EXCEPT !.at = "check", !.todo = todo, !.cur = "none"]]

(* A timer has no stored row, hence no nextRunAt: it is always due. *)
isScheduleDue(s, at) ==
  \/ s \in Timers
  \/ s \in Tasks /\ task[s].state = "present" /\ task[s].enabled /\ task[s].nextRunAt <= at

(* listSchedules() at the start of a tick. *)
Snapshot(t) ==
  LET due == {s \in Schedules : isScheduleDue(s, now)} IN
  tick' = [tick EXCEPT ![t] = IF due = {} THEN [NoTick EXCEPT !.at = "list"]
                              ELSE [at |-> "check", now |-> now, todo |-> due, cur |-> "none", rows |-> task]]

(* setTimeout(loop, intervalMs); the clock cannot pass MaxTime. *)
NextTimer == IF now + Interval < MaxTime THEN now + Interval ELSE MaxTime

(* Mutant: the loop is not armed again. *)
LoopFiresOnce(t) ==
  /\ tick[t].at = "idle" /\ timerAt <= now
  /\ timerAt' = MaxTime + 1
  /\ Snapshot(t)
  /\ UNCHANGED <<now, task, jobVars, starts, request, budget>>

(* The loop fires a tick and is armed again, whatever becomes of the tick. *)
LoopFires(t) ==
  /\ tick[t].at = "idle" /\ timerAt <= now
  /\ timerAt' = NextTimer
  /\ Snapshot(t)
  /\ UNCHANGED <<now, task, jobVars, starts, request, budget>>

(* A schedule that has a job in flight is skipped. *)
TickChecks(t) ==
  /\ tick[t].at = "check"
  /\ \E s \in tick[t].todo :
       \/ isRunning(s) /\ Continue(t, tick[t].todo \ {s})
       \/ ~isRunning(s) /\ tick' = [tick EXCEPT ![t].at = "enqueue", ![t].cur = s]
  /\ UNCHANGED <<time, task, jobVars, starts, request, budget>>

(* The job is enqueued, or its run is failed for want of a credential. *)
TickEnqueues(t) ==
  /\ tick[t].at = "enqueue" /\ CanEnqueue(tick[t].cur)
  /\ \/ /\ running' = [running EXCEPT ![tick[t].cur].tick = @ + 1]
        /\ starts' = [starts EXCEPT ![tick[t].cur] = Append(@, tick[t].now)]
     \/ UNCHANGED <<running, starts>>
  /\ Goto(t, "update")
  /\ UNCHANGED <<time, task, stranded, ended, request, budget>>

(* The next run follows from the instant of the tick and the cron it read. *)
TickReschedules(t) ==
  /\ tick[t].at = "update"
  /\ LET s == tick[t].cur IN
     /\ task' = [task EXCEPT ![s].nextRunAt = nextFireTime(tick[t].rows[s].cron, tick[t].now)]
     /\ Continue(t, tick[t].todo \ {s})
  /\ UNCHANGED <<time, jobVars, starts, request, budget>>

(* enqueue() or updateSchedule() throws: the schedule is left due.         *)
TickSkips(t) ==
  /\ \/ tick[t].at = "enqueue" /\ ~CanEnqueue(tick[t].cur) /\ UNCHANGED budget
     \/ tick[t].at \in {"enqueue", "update"} /\ Spend("faults")
  /\ Continue(t, tick[t].todo \ {tick[t].cur})
  /\ UNCHANGED <<time, task, jobVars, starts, request>>

(* On to the next schedule of recordOutcomes(), or the tick is over. *)
RecordNext(t, todo) ==
  tick' = [tick EXCEPT ![t] = IF todo = {} THEN NoTick
                              ELSE [@ EXCEPT !.at = "read", !.todo = todo, !.cur = "none", !.now = Never]]

(* recordOutcomes() lists the schedules again. *)
TickLists(t) ==
  /\ tick[t].at = "list"
  /\ LET stored == {s \in Tasks : task[s].state = "present"} IN
     tick' = [tick EXCEPT ![t] = IF stored = {} THEN NoTick
                                 ELSE [@ EXCEPT !.at = "read", !.todo = stored, !.rows = task]]
  /\ UNCHANGED <<time, task, jobVars, starts, request, budget>>

(* Mutant: a schedule's first outcome is recorded, the later ones are not. *)
NewOutcomeFirst(t, s) == ended[s] # Never /\ tick[t].rows[s].lastRunAt = Never

(* The newest finished job is news if it finished after lastRunAt. *)
NewOutcome(t, s) == ended[s] # Never /\ ended[s] > tick[t].rows[s].lastRunAt

(* lastFinishedJob(); tick[t].now becomes the instant it finished. *)
TickReads(t) ==
  /\ tick[t].at = "read"
  /\ \E s \in tick[t].todo :
       \/ NewOutcome(t, s)
          /\ tick' = [tick EXCEPT ![t].at = "find", ![t].cur = s, ![t].now = ended[s]]
       \/ ~NewOutcome(t, s) /\ RecordNext(t, tick[t].todo \ {s})
  /\ UNCHANGED <<time, task, jobVars, starts, request, budget>>

(* recordScheduleOutcome() fetches the row, if it is still there, ...      *)
TickFinds(t) ==
  /\ tick[t].at = "find"
  /\ LET s == tick[t].cur IN
     \/ task[s].state = "present"
        /\ tick' = [tick EXCEPT ![t].at = "write", ![t].rows[s] = task[s]]
     \/ task[s].state # "present" /\ RecordNext(t, tick[t].todo \ {s})
  /\ UNCHANGED <<time, task, jobVars, starts, request, budget>>

(* Mutant: the outcome is stamped with the clock, not with the completion. *)
TickRecordsNow(t) ==
  /\ tick[t].at = "write"
  /\ LET s == tick[t].cur IN
     /\ task' = [task EXCEPT ![s].lastRunAt = now,
                             ![s].nextRunAt = nextFireTime(tick[t].rows[s].cron, tick[t].now)]
     /\ RecordNext(t, tick[t].todo \ {s})
  /\ UNCHANGED <<time, jobVars, starts, request, budget>>

(* ... and the next run follows from the completion.                       *)
TickRecords(t) ==
  /\ tick[t].at = "write"
  /\ LET s == tick[t].cur IN
     /\ task' = [task EXCEPT ![s].lastRunAt = tick[t].now,
                             ![s].nextRunAt = nextFireTime(tick[t].rows[s].cron, tick[t].now)]
     /\ RecordNext(t, tick[t].todo \ {s})
  /\ UNCHANGED <<time, jobVars, starts, request, budget>>

(* Any other call that rejects ends the tick; the loop swallows the error. *)
TickAborts(t) ==
  /\ tick[t].at \in {"check", "list", "read", "find", "write"}
  /\ Spend("faults")
  /\ tick' = [tick EXCEPT ![t] = NoTick]
  /\ UNCHANGED <<time, task, jobVars, starts, request>>

-----------------------------------------------------------------------------
(* The job queue and the process. *)

(* Mutant: the end of a job is counted for its tick and for its user. *)
JobEndsTwice(s) ==
  /\ running[s].tick + running[s].user > 0
  /\ running' = [running EXCEPT ![s].tick = @ - 1, ![s].user = @ - 1]
  /\ ended' = [ended EXCEPT ![s] = now]
  /\ UNCHANGED <<time, task, stranded, starts, tick, request, budget>>

(* A job reaches a terminal state and its row is stamped. *)
JobEnds(s) ==
  /\ \E by \in {"tick", "user"} :
       running[s][by] > 0 /\ running' = [running EXCEPT ![s][by] = @ - 1]
  /\ ended' = [ended EXCEPT ![s] = now]
  /\ UNCHANGED <<time, task, stranded, starts, tick, request, budget>>

(* A write of a job's state rejects: the job is gone, its row stays. *)
JobStrands(s) ==
  /\ Spend("faults")
  /\ \E by \in {"tick", "user"} :
       /\ running[s][by] > 0
       /\ running' = [running EXCEPT ![s][by] = @ - 1]
       /\ stranded' = [stranded EXCEPT ![s][by] = @ + 1]
  /\ UNCHANGED <<time, task, ended, starts, tick, request>>

(* The process restarts: nothing takes up the jobs it had. *)
Restart ==
  /\ Spend("faults")
  /\ stranded' = [s \in Schedules |-> [by \in {"tick", "user"} |-> stranded[s][by] + running[s][by]]]
  /\ running' = [s \in Schedules |-> NoJobs]
  /\ tick' = [t \in Ticks |-> NoTick]
  /\ request' = [r \in Requests |-> NoRequest]
  /\ timerAt' = NextTimer
  /\ UNCHANGED <<now, task, ended, starts>>

Advance ==
  /\ now < MaxTime
  /\ now' = now + 1
  /\ UNCHANGED <<timerAt, task, jobVars, starts, tick, request, budget>>

-----------------------------------------------------------------------------
TickStep(t) == \/ LoopFires(t) \/ TickChecks(t) \/ TickEnqueues(t) \/ TickReschedules(t)
               \/ TickSkips(t) \/ TickLists(t) \/ TickReads(t) \/ TickFinds(t) \/ TickRecords(t)

RequestStep(r) == RunNowEnqueues(r) \/ RunNowSetsDue(r)

UserStep == \/ \E s \in Tasks : CreateSchedule(s) \/ PatchCron(s) \/ PatchEnabled(s) \/ DeleteSchedule(s)
            \/ \E r \in Requests, s \in Tasks : RunNow(r, s)

Next == \/ UserStep
        \/ \E t \in Ticks : TickStep(t) \/ TickAborts(t)
        \/ \E r \in Requests : RequestStep(r) \/ RunNowThrows(r)
        \/ \E s \in Schedules : JobEnds(s) \/ JobStrands(s)
        \/ Restart
        \/ Advance

(* The clock runs, the loop fires when it is due, pending awaits settle,   *)
(* and jobs end because their timeout kills them.                          *)
Fairness == /\ WF_vars(Advance)
            /\ \A t \in Ticks : WF_vars(TickStep(t))
            /\ \A r \in Requests : WF_vars(RequestStep(r))
            /\ \A s \in Schedules : WF_vars(JobEnds(s))

Spec     == Init /\ [][Next]_vars
FairSpec == Spec /\ Fairness
-----------------------------------------------------------------------------
(* Properties. *)

Row == [state : {"absent", "present", "deleted"}, enabled : BOOLEAN, cron : Periods,
        lastRunAt : Nat, nextRunAt : Nat]

TypeOK ==
  /\ now \in 1..MaxTime /\ timerAt \in Nat
  /\ task \in [Tasks -> Row]
  /\ running \in [Schedules -> [tick : Nat, user : Nat]]
  /\ stranded \in [Schedules -> [tick : Nat, user : Nat]]
  /\ ended \in [Schedules -> Nat]
  /\ starts \in [Schedules -> Seq(Nat)]
  /\ tick \in [Ticks -> [at : {"idle", "check", "enqueue", "update", "list", "read", "find", "write"}, now : Nat,
                         todo : SUBSET Schedules, cur : Schedules \cup {"none"}, rows : [Tasks -> Row]]]
  /\ request \in [Requests -> [at : {"idle", "enqueue", "update"}, cur : Tasks \cup {"none"}, now : Nat]]
  /\ budget \in [{"runNow", "patches", "faults"} -> Nat]

(* The scheduler itself never has more rows of one schedule queued or      *)
(* running than ticks can be under way, so never two while ticks do not    *)
(* overlap, although a tick checks, enqueues and reschedules in separate   *)
(* steps, a failed step leaves the schedule due, run-now sets it due at    *)
(* any moment, and a restart forgets the jobs (tickSchedules' isRunning    *)
(* check against the jobs table; the loop does not wait for a tick).       *)
OwnJobsWithinTicks ==
  \A s \in Schedules : running[s].tick + stranded[s].tick <= Cardinality(Ticks)

(* No schedule is put off: whatever instant and whatever cron, since        *)
(* patched, a tick or a run-now request still holds when it writes, the    *)
(* next run it stores is no later than the next fire time of a cron that   *)
(* the schedule can have (updateSchedule in tick.ts and routes/schedules). *)
NeverPutOff ==
  \A s \in Tasks : task[s].state = "present" =>
    \E p \in Periods : task[s].nextRunAt <= nextFireTime(p, now)

(* Outcomes are recorded in order: while ticks do not overlap, lastRunAt   *)
(* only ever moves forward, and never past the newest finished job, though *)
(* the tick compares it in a row it read two awaits before it writes, and  *)
(* ticks fail, the process restarts and jobs end meanwhile (recordOutcomes *)
(* and recordScheduleOutcome).                                             *)
OutcomesInOrder ==
  [][\A s \in Tasks : task'[s].lastRunAt # task[s].lastRunAt =>
       task'[s].lastRunAt > task[s].lastRunAt /\ task'[s].lastRunAt <= ended[s]]_vars

Stranded(s) == stranded[s] # NoJobs

(* A due task is served: it does not stay due for ever, whatever edits,    *)
(* failed ticks and restarts come between, unless a row left behind keeps  *)
(* it "running" (the loop's rearming, tickSchedules, recordOutcomes).      *)
DueIsServed ==
  \A s \in Tasks : isScheduleDue(s, now) ~> ~isScheduleDue(s, now) \/ Stranded(s)

(* The completion of every job reaches its schedule's lastRunAt, however   *)
(* ticks fail, unless the schedule is deleted (recordOutcomes).            *)
OutcomesRecorded ==
  \A s \in Tasks, e \in 1..MaxTime :
    ended[s] = e ~> task[s].lastRunAt >= e \/ task[s].state # "present"

(* EPIC-007's acceptance criterion: "A schedule cannot run concurrently    *)
(* with itself."  run-now is mounted without an isRunning option.          *)
SingleFlight == \A s \in Schedules : running[s].tick + running[s].user <= 1

(* A due schedule gets exactly one job (tick.test.ts): no two ticks run a  *)
(* task for the same fire time.  For instances without edits and run-now.  *)
OncePerSlot ==
  \A s \in Tasks : \A i, j \in DOMAIN starts[s] :
    starts[s][i] \div task[s].cron = starts[s][j] \div task[s].cron => i = j

(* The tick enqueues "one Job per due schedule", code-deployed system      *)
(* timers included (tick.ts): an available timer's job runs at some point. *)
TimersRun == \A s \in Timers : <>(starts[s] # <<>>)
=============================================================================
