--------------------------- MODULE SchedulerProofs ---------------------------
(***************************************************************************)
(* Proofs about Scheduler, for any schedules, timers, requests and bounds. *)
(* What a tick holds across its awaits (Ticking) and what a request holds  *)
(* (Asking) make the types inductive.  That the scheduler has no more jobs *)
(* of its own than ticks needs to count the ticks that have found nothing  *)
(* in flight and are about to enqueue (Room).  That nothing is put off     *)
(* rests on the instants that calls hold (Timely); that outcomes are       *)
(* recorded in order, on the rows a tick has read (Abreast).               *)
(***************************************************************************)
EXTENDS Scheduler, FiniteSetTheorems, TLAPS

Doing == {"idle", "check", "enqueue", "update", "list", "read", "find", "write"}

TickType == [at : Doing, now : Nat, todo : SUBSET Schedules, cur : Schedules \cup {"none"}, rows : [Tasks -> Row]]

RequestType == [at : {"idle", "enqueue", "update"}, cur : Tasks \cup {"none"}, now : Nat]

JobCounts == [tick : Nat, user : Nat]

(* The types, in three parts. *)
Stored == /\ now \in 1..MaxTime /\ timerAt \in Nat /\ task \in [Tasks -> Row]
          /\ budget \in [{"runNow", "patches", "faults"} -> Nat]
Jobs   == /\ running \in [Schedules -> JobCounts] /\ stranded \in [Schedules -> JobCounts]
          /\ ended \in [Schedules -> Nat] /\ starts \in [Schedules -> Seq(Nat)]
Calls  == tick \in [Ticks -> TickType] /\ request \in [Requests -> RequestType]

(* A schedule a tick is at is one it has yet to do, and one with a row by  *)
(* the time the row is written.                                            *)
Holds(k) ==
  /\ k.at \in {"enqueue", "update", "find", "write"} => k.cur \in k.todo
  /\ k.at = "update" => k.cur \in Tasks
  /\ k.at \in {"read", "find", "write"} => k.todo \subseteq Tasks

Ticking == \A t \in Ticks : Holds(tick[t])

Asking == \A r \in Requests : request[r].at # "idle" => request[r].cur \in Tasks

InFlight(s) == running[s].tick + stranded[s].tick

(* The ticks that checked s and are about to enqueue its job. *)
About(s) == {t \in Ticks : tick[t].at = "enqueue" /\ tick[t].cur = s}

(* A tick gets there only while nothing is in flight. *)
Room == \A s \in Schedules : InFlight(s) + Cardinality(About(s)) <= Cardinality(Ticks)

IInv == TypeOK /\ Ticking /\ Asking /\ Room

-----------------------------------------------------------------------------
(* The parts of the types. *)
LEMMA TypesAre == TypeOK <=> Stored /\ Jobs /\ Calls
  BY DEF TypeOK, Stored, Jobs, Calls, TickType, RequestType, JobCounts, Doing

LEMMA TypesAreNext == TypeOK' <=> Stored' /\ Jobs' /\ Calls'
  BY DEF TypeOK, Stored, Jobs, Calls, TickType, RequestType, JobCounts, Doing

-----------------------------------------------------------------------------
(* Operators. *)

(* Times are natural numbers. *)
LEMMA FireTimeIsNat == ASSUME NEW p \in Periods, NEW from \in Nat
                       PROVE  nextFireTime(p, from) \in Nat
  BY SchedulerAssumption DEF nextFireTime

LEMMA NextTimerIsNat == ASSUME now \in Nat PROVE NextTimer \in Nat
  BY SchedulerAssumption DEF NextTimer

LEMMA BlankIsRow == Blank \in Row
<1>1. (CHOOSE p \in Periods : TRUE) \in Periods
  BY SchedulerAssumption
<1> QED
  BY <1>1 DEF Blank, Row, Never

LEMMA NoTickType == NoTick \in TickType /\ Holds(NoTick)
  BY BlankIsRow DEF NoTick, TickType, Doing, Holds, Never

LEMMA NoRequestType == NoRequest \in RequestType
  BY DEF NoRequest, RequestType, Never

(* One tick is replaced by another one that is in order. *)
LEMMA TickSet ==
  ASSUME tick \in [Ticks -> TickType], Ticking, NEW t \in Ticks, NEW k \in TickType, Holds(k),
         tick' = [tick EXCEPT ![t] = k]
  PROVE  tick' \in [Ticks -> TickType] /\ Ticking'
  BY DEF Ticking

(* Continue and RecordNext keep a tick in order. *)
LEMMA ContinueTypes ==
  ASSUME tick \in [Ticks -> TickType], Ticking, NEW t \in Ticks, NEW todo \in SUBSET Schedules, Continue(t, todo)
  PROVE  /\ tick' \in [Ticks -> TickType] /\ Ticking'
         /\ tick'[t].at # "enqueue"
         /\ \A u \in Ticks \ {t} : tick'[u] = tick[u]
<1> DEFINE k == IF todo = {} THEN [NoTick EXCEPT !.at = "list"]
                ELSE [tick[t] EXCEPT !.at = "check", !.todo = todo, !.cur = "none"]
<1>1. tick' = [tick EXCEPT ![t] = k]
  BY DEF Continue
<1>2. k \in TickType /\ k.at \in {"list", "check"}
  BY NoTickType DEF TickType, Doing
<1>3. Holds(k)
  BY <1>2 DEF Holds
<1> HIDE DEF k
<1> QED
  BY <1>1, <1>2, <1>3, TickSet

LEMMA RecordNextTypes ==
  ASSUME tick \in [Ticks -> TickType], Ticking, NEW t \in Ticks, NEW todo \in SUBSET Tasks, RecordNext(t, todo)
  PROVE  /\ tick' \in [Ticks -> TickType] /\ Ticking'
         /\ tick'[t].at # "enqueue"
         /\ \A u \in Ticks \ {t} : tick'[u] = tick[u]
<1> DEFINE k == IF todo = {} THEN NoTick
                ELSE [tick[t] EXCEPT !.at = "read", !.todo = todo, !.cur = "none", !.now = Never]
<1>1. tick' = [tick EXCEPT ![t] = k]
  BY DEF RecordNext
<1>2. k \in TickType /\ k.at \in {"idle", "read"} /\ k.todo \subseteq Tasks
  BY NoTickType DEF TickType, Doing, Schedules, Never, NoTick
<1>3. Holds(k)
  BY <1>2 DEF Holds
<1> HIDE DEF k
<1> QED
  BY <1>1, <1>2, <1>3, TickSet

(* Fewer ticks are about to enqueue when no tick has come to it. *)
LEMMA AboutIsFinite == ASSUME NEW s PROVE IsFiniteSet(About(s)) /\ IsFiniteSet(About(s)')
<1>1. About(s) \subseteq Ticks /\ About(s)' \subseteq Ticks
  BY DEF About
<1> QED
  BY <1>1, SchedulerAssumption, FS_Subset

LEMMA Counts ==
  ASSUME NEW S, NEW T, IsFiniteSet(T), S \subseteq T
  PROVE  Cardinality(S) \in Nat /\ Cardinality(T) \in Nat /\ Cardinality(S) <= Cardinality(T)
<1>1. IsFiniteSet(S) /\ Cardinality(S) <= Cardinality(T)
  BY FS_Subset
<1> QED
  BY <1>1, FS_CardinalityType

(* Jobs that end or strand, and ticks that move on, leave as much room. *)
LEMMA FlightKeeps ==
  ASSUME Jobs, Jobs', Room,
         \A s \in Schedules : InFlight(s)' <= InFlight(s),
         \A u \in Ticks : tick'[u].at = "enqueue" => tick[u].at = "enqueue" /\ tick'[u].cur = tick[u].cur
  PROVE  Room'
<1> SUFFICES ASSUME NEW s \in Schedules
             PROVE  InFlight(s)' + Cardinality(About(s)') <= Cardinality(Ticks)
  BY DEF Room
<1>1. InFlight(s) \in Nat /\ InFlight(s)' \in Nat
  BY DEF Jobs, JobCounts, InFlight
<1>2. About(s)' \subseteq About(s)
  BY DEF About
<1>3. /\ Cardinality(About(s)) \in Nat /\ Cardinality(About(s)') \in Nat
      /\ Cardinality(About(s)') <= Cardinality(About(s))
  BY <1>2, AboutIsFinite, Counts
<1>4. Cardinality(Ticks) \in Nat
  BY SchedulerAssumption, FS_CardinalityType
<1>5. InFlight(s) + Cardinality(About(s)) <= Cardinality(Ticks)
  BY DEF Room
<1>6. InFlight(s)' <= InFlight(s)
  OBVIOUS
<1> HIDE DEF InFlight, About
<1> QED
  BY <1>1, <1>3, <1>4, <1>5, <1>6

(* Nothing changes but what a tick holds, and it does not come to enqueue. *)
LEMMA TickMoves ==
  ASSUME IInv, NEW t \in Ticks, UNCHANGED <<running, stranded, request>>, Stored', Jobs',
         tick' \in [Ticks -> TickType], Ticking',
         tick'[t].at # "enqueue", \A u \in Ticks \ {t} : tick'[u] = tick[u]
  PROVE  IInv'
<1>1. Jobs /\ Calls
  BY TypesAre DEF IInv
<1>2. TypeOK'
  BY <1>1, TypesAreNext DEF Calls
<1>3. Asking'
  BY DEF IInv, Asking
<1>4. \A s \in Schedules : InFlight(s)' <= InFlight(s)
  BY <1>1 DEF Jobs, JobCounts, InFlight
<1>5. Room'
  BY <1>1, <1>4, FlightKeeps DEF IInv
<1> QED
  BY <1>2, <1>3, <1>5 DEF IInv

(* Jobs and calls stay what they are. *)
LEMMA StoreKeeps ==
  ASSUME IInv, Stored', UNCHANGED <<jobVars, starts, tick, request>>
  PROVE  IInv'
<1>1. Jobs /\ Calls
  BY TypesAre DEF IInv
<1>2. Jobs' /\ Calls'
  BY <1>1 DEF Jobs, Calls, jobVars
<1>3. TypeOK'
  BY <1>2, TypesAreNext
<1>4. Ticking' /\ Asking'
  BY DEF IInv, Ticking, Asking
<1>5. Room'
  BY DEF IInv, Room, About, InFlight, jobVars
<1> QED
  BY <1>3, <1>4, <1>5 DEF IInv

-----------------------------------------------------------------------------
(* Users. *)

LEMMA SpendType == ASSUME Stored, NEW what \in {"runNow", "patches", "faults"}, Spend(what)
                   PROVE  budget' \in [{"runNow", "patches", "faults"} -> Nat]
  BY DEF Stored, Spend

LEMMA EditKeeps ==
  ASSUME IInv, NEW s \in Tasks,
         CreateSchedule(s) \/ PatchCron(s) \/ PatchEnabled(s) \/ DeleteSchedule(s)
  PROVE  IInv'
<1>1. Stored /\ now \in Nat
  BY TypesAre DEF IInv, Stored
<1>2. task[s] \in Row
  BY <1>1 DEF Stored
<1>3. CASE CreateSchedule(s)
  <2>1. PICK p \in Periods, e \in BOOLEAN :
          task' = [task EXCEPT ![s] = [state |-> "present", enabled |-> e, cron |-> p,
                                       lastRunAt |-> Never, nextRunAt |-> nextFireTime(p, now)]]
    BY <1>3 DEF CreateSchedule
  <2>2. nextFireTime(p, now) \in Nat
    BY <1>1, FireTimeIsNat
  <2>3. Stored'
    BY <1>1, <1>3, <2>1, <2>2 DEF CreateSchedule, Stored, Row, Never, time
  <2> QED
    BY <1>3, <2>3, StoreKeeps DEF CreateSchedule
<1>4. CASE PatchCron(s)
  <2>1. PICK p \in Periods : task' = [task EXCEPT ![s].cron = p, ![s].nextRunAt = nextFireTime(p, now)]
    BY <1>4 DEF PatchCron
  <2>2. nextFireTime(p, now) \in Nat
    BY <1>1, FireTimeIsNat
  <2>3. task' \in [Tasks -> Row]
    BY <1>1, <1>2, <2>1, <2>2 DEF Stored, Row
  <2>4. Stored'
    BY <1>1, <1>4, <2>3, SpendType DEF PatchCron, Stored, time
  <2> QED
    BY <1>4, <2>4, StoreKeeps DEF PatchCron
<1>5. CASE PatchEnabled(s)
  <2>1. task' \in [Tasks -> Row]
    BY <1>1, <1>2, <1>5 DEF PatchEnabled, Stored, Row
  <2>2. Stored'
    BY <1>1, <1>5, <2>1, SpendType DEF PatchEnabled, Stored, time
  <2> QED
    BY <1>5, <2>2, StoreKeeps DEF PatchEnabled
<1>6. CASE DeleteSchedule(s)
  <2>1. task' \in [Tasks -> Row]
    BY <1>1, <1>2, <1>6 DEF DeleteSchedule, Stored, Row
  <2>2. Stored'
    BY <1>1, <1>6, <2>1, SpendType DEF DeleteSchedule, Stored, time
  <2> QED
    BY <1>6, <2>2, StoreKeeps DEF DeleteSchedule
<1> QED
  BY <1>3, <1>4, <1>5, <1>6

(* A request awaits; the jobs of users are not among those counted. *)
LEMMA RequestSet ==
  ASSUME IInv, Stored', Jobs', UNCHANGED <<stranded, tick>>,
         \A s \in Schedules : running'[s].tick = running[s].tick,
         NEW r \in Requests, NEW q \in RequestType, q.at # "idle" => q.cur \in Tasks,
         request' = [request EXCEPT ![r] = q]
  PROVE  IInv'
<1>1. Jobs /\ Calls
  BY TypesAre DEF IInv
<1>2. Calls' /\ Asking'
  BY <1>1 DEF IInv, Calls, Asking
<1>3. TypeOK'
  BY <1>2, TypesAreNext
<1>4. Ticking'
  BY DEF IInv, Ticking
<1>5. \A s \in Schedules : InFlight(s)' <= InFlight(s)
  BY <1>1 DEF Jobs, JobCounts, InFlight
<1>6. Room'
  BY <1>1, <1>5, FlightKeeps DEF IInv
<1> QED
  BY <1>2, <1>3, <1>4, <1>6 DEF IInv

LEMMA RunNowKeeps ==
  ASSUME IInv, NEW r \in Requests, NEW s \in Tasks, RunNow(r, s)
  PROVE  IInv'
<1>1. Stored /\ Jobs /\ now \in Nat
  BY TypesAre DEF IInv, Stored
<1>2. Stored' /\ Jobs'
  BY <1>1, SpendType DEF RunNow, Stored, Jobs, time, jobVars
<1>3. [at |-> "enqueue", cur |-> s, now |-> now] \in RequestType
  BY <1>1 DEF RequestType
<1> QED
  BY <1>2, <1>3, RequestSet DEF RunNow, jobVars

LEMMA RequestKeeps ==
  ASSUME IInv, NEW r \in Requests, RunNowEnqueues(r) \/ RunNowSetsDue(r) \/ RunNowThrows(r)
  PROVE  IInv'
<1>1. Stored /\ Jobs /\ Calls
  BY TypesAre DEF IInv
<1>2. request[r] \in RequestType /\ (request[r].at # "idle" => request[r].cur \in Tasks)
  BY <1>1 DEF IInv, Calls, Asking
<1>3. CASE RunNowEnqueues(r)
  <2>1. request[r].cur \in Tasks /\ request[r].cur \in Schedules
    BY <1>2, <1>3 DEF RunNowEnqueues, Schedules
  <2>2. /\ running' \in [Schedules -> JobCounts]
        /\ \A s \in Schedules : running'[s].tick = running[s].tick
    <3>1. running[request[r].cur] \in JobCounts
      BY <1>1, <2>1 DEF Jobs
    <3> DEFINE c == [running[request[r].cur] EXCEPT !.user = @ + 1]
    <3>2. c \in JobCounts /\ c.tick = running[request[r].cur].tick
      BY <3>1 DEF JobCounts
    <3>3. running' = [running EXCEPT ![request[r].cur] = c] \/ running' = running
      BY <1>3 DEF RunNowEnqueues
    <3> HIDE DEF c
    <3> QED
      BY <1>1, <2>1, <3>2, <3>3 DEF Jobs
  <2>3. Stored' /\ Jobs'
    BY <1>1, <1>3, <2>2 DEF RunNowEnqueues, Stored, Jobs, time
  <2>4. PICK q \in RequestType : q = [request[r] EXCEPT !.at = "update"]
    BY <1>2 DEF RequestType
  <2>5. request' = [request EXCEPT ![r] = q]
    BY <1>3, <2>4 DEF RunNowEnqueues
  <2>6. q.cur \in Tasks
    BY <1>2, <2>1, <2>4 DEF RequestType
  <2> QED
    BY <1>3, <2>2, <2>3, <2>5, <2>6, RequestSet DEF RunNowEnqueues
<1>4. CASE RunNowSetsDue(r)
  <2>1. request[r].cur \in Tasks /\ request[r].now \in Nat
    BY <1>2, <1>4 DEF RunNowSetsDue, RequestType
  <2>2. task' \in [Tasks -> Row]
    <3>1. task[request[r].cur] \in Row
      BY <1>1, <2>1 DEF Stored
    <3> QED
      BY <1>1, <1>4, <2>1, <3>1 DEF RunNowSetsDue, Stored, Row
  <2>3. Stored' /\ Jobs'
    BY <1>1, <1>4, <2>2 DEF RunNowSetsDue, Stored, Jobs, time, jobVars
  <2> QED
    BY <1>4, <2>3, NoRequestType, RequestSet DEF RunNowSetsDue, jobVars, NoRequest
<1>5. CASE RunNowThrows(r)
  <2>1. Stored' /\ Jobs'
    BY <1>1, <1>5, SpendType DEF RunNowThrows, Stored, Jobs, time, jobVars
  <2> QED
    BY <1>5, <2>1, NoRequestType, RequestSet DEF RunNowThrows, jobVars, NoRequest
<1> QED
  BY <1>3, <1>4, <1>5

-----------------------------------------------------------------------------
(* tick(). *)

LEMMA LoopFiresKeeps ==
  ASSUME IInv, NEW t \in Ticks, LoopFires(t)
  PROVE  IInv'
<1>1. Stored /\ Jobs /\ Calls /\ now \in Nat
  BY TypesAre DEF IInv, Stored
<1> DEFINE due == {s \in Schedules : isScheduleDue(s, now)}
           k == IF due = {} THEN [NoTick EXCEPT !.at = "list"]
                ELSE [at |-> "check", now |-> now, todo |-> due, cur |-> "none", rows |-> task]
<1>2. tick' = [tick EXCEPT ![t] = k]
  BY DEF LoopFires, Snapshot
<1>3. due \in SUBSET Schedules
  OBVIOUS
<1> HIDE DEF due
<1>4. k \in TickType /\ k.at \in {"list", "check"}
  BY <1>1, <1>3, NoTickType DEF TickType, Doing, Stored
<1>5. Holds(k)
  BY <1>4 DEF Holds
<1> HIDE DEF k
<1>6. /\ tick' \in [Ticks -> TickType] /\ Ticking'
      /\ tick'[t].at # "enqueue" /\ \A u \in Ticks \ {t} : tick'[u] = tick[u]
  BY <1>1, <1>2, <1>4, <1>5, TickSet DEF Calls, IInv
<1>7. Stored' /\ Jobs'
  BY <1>1, NextTimerIsNat DEF LoopFires, Stored, Jobs, jobVars
<1> QED
  BY <1>6, <1>7, TickMoves DEF LoopFires, jobVars

(* What a tick is at is what it holds. *)
LEMMA TickHolds ==
  ASSUME IInv, NEW t \in Ticks
  PROVE  /\ tick[t] \in TickType /\ Holds(tick[t])
         /\ tick[t].todo \in SUBSET Schedules /\ tick[t].now \in Nat
<1>1. tick[t] \in TickType
  BY TypesAre DEF IInv, Calls
<1> QED
  BY <1>1 DEF IInv, Ticking, TickType

LEMMA TickChecksKeeps ==
  ASSUME IInv, NEW t \in Ticks, TickChecks(t)
  PROVE  IInv'
<1>1. Stored /\ Jobs /\ Calls /\ Ticking
  BY TypesAre DEF IInv
<1>2. Stored' /\ Jobs'
  BY <1>1 DEF TickChecks, Stored, Jobs, time, jobVars
<1>3. PICK s \in tick[t].todo :
        \/ isRunning(s) /\ Continue(t, tick[t].todo \ {s})
        \/ ~isRunning(s) /\ tick' = [tick EXCEPT ![t].at = "enqueue", ![t].cur = s]
  BY DEF TickChecks
<1>4. s \in Schedules
  BY <1>3, TickHolds
<1>5. CASE Continue(t, tick[t].todo \ {s})
  <2>1. tick[t].todo \ {s} \in SUBSET Schedules
    BY TickHolds
  <2>2. /\ tick' \in [Ticks -> TickType] /\ Ticking'
        /\ tick'[t].at # "enqueue" /\ \A u \in Ticks \ {t} : tick'[u] = tick[u]
    BY <1>1, <1>5, <2>1, ContinueTypes DEF Calls
  <2> QED
    BY <1>2, <2>2, TickMoves DEF TickChecks, jobVars
<1>6. CASE ~isRunning(s) /\ tick' = [tick EXCEPT ![t].at = "enqueue", ![t].cur = s]
  <2>1. PICK k : k = [tick[t] EXCEPT !.at = "enqueue", !.cur = s]
    OBVIOUS
  <2>2. k \in TickType /\ k.at = "enqueue" /\ k.cur = s /\ k.todo = tick[t].todo
    BY <1>4, <2>1, TickHolds DEF TickType, Doing
  <2>3. Holds(k)
    BY <1>3, <2>2 DEF Holds
  <2>4. tick' = [tick EXCEPT ![t] = k]
    BY <1>6, <2>1
  <2>5. tick' \in [Ticks -> TickType] /\ Ticking'
    BY <1>1, <2>2, <2>3, <2>4, TickSet DEF Calls
  <2>6. TypeOK'
    BY <1>1, <1>2, <2>5, TypesAreNext DEF Calls, TickChecks
  <2>7. Asking'
    BY DEF IInv, Asking, TickChecks
  <2>8. ASSUME NEW x \in Schedules
        PROVE  InFlight(x)' + Cardinality(About(x)') <= Cardinality(Ticks)
    <3>1. InFlight(x)' = InFlight(x) /\ InFlight(x) \in Nat
      BY <1>1 DEF InFlight, TickChecks, jobVars, Jobs, JobCounts
    <3>2. CASE x = s
      <4>1. InFlight(x) = 0
        BY <1>1, <1>4, <1>6, <3>2 DEF isRunning, Jobs, JobCounts, InFlight
      <4>2. About(x)' \subseteq Ticks
        BY DEF About
      <4>3. Cardinality(About(x)') \in Nat /\ Cardinality(About(x)') <= Cardinality(Ticks)
        BY <4>2, SchedulerAssumption, Counts
      <4> QED
        BY <3>1, <4>1, <4>3
    <3>3. CASE x # s
      <4>1. About(x)' \subseteq About(x)
        BY <1>1, <2>2, <2>4, <3>3 DEF About, Calls
      <4>2. /\ Cardinality(About(x)) \in Nat /\ Cardinality(About(x)') \in Nat
            /\ Cardinality(About(x)') <= Cardinality(About(x))
        BY <4>1, AboutIsFinite, Counts
      <4>3. InFlight(x) + Cardinality(About(x)) <= Cardinality(Ticks)
        BY DEF IInv, Room
      <4>4. Cardinality(Ticks) \in Nat
        BY SchedulerAssumption, FS_CardinalityType
      <4> QED
        BY <3>1, <4>2, <4>3, <4>4
    <3> QED
      BY <3>2, <3>3
  <2> QED
    BY <2>5, <2>6, <2>7, <2>8 DEF IInv, Room
<1> QED
  BY <1>3, <1>5, <1>6

(* A tick enqueues: its job takes the room the tick had.                   *)
LEMMA TickEnqueuesKeeps ==
  ASSUME IInv, NEW t \in Ticks, TickEnqueues(t)
  PROVE  IInv'
<1> DEFINE s == tick[t].cur
           k == [tick[t] EXCEPT !.at = "update"]
           c == [running[s] EXCEPT !.tick = @ + 1]
<1>1. Stored /\ Jobs /\ Calls /\ Ticking
  BY TypesAre DEF IInv
<1>2. s \in Tasks /\ s \in Schedules /\ s \in tick[t].todo /\ tick[t].at = "enqueue"
  BY TickHolds DEF TickEnqueues, CanEnqueue, Schedules, Holds
<1>3. k \in TickType /\ Holds(k) /\ k.at = "update"
  BY <1>2, TickHolds DEF TickType, Doing, Holds
<1>4. tick' = [tick EXCEPT ![t] = k]
  BY DEF TickEnqueues, Goto
<1>5. c \in JobCounts /\ c.tick = running[s].tick + 1
  <2>1. running[s] \in JobCounts
    BY <1>1, <1>2 DEF Jobs
  <2> QED
    BY <2>1 DEF JobCounts
<1>6. \/ running' = [running EXCEPT ![s] = c] /\ starts' = [starts EXCEPT ![s] = Append(@, tick[t].now)]
      \/ UNCHANGED <<running, starts>>
  BY DEF TickEnqueues
<1>7. UNCHANGED <<time, task, stranded, ended, request, budget>>
  BY DEF TickEnqueues
<1> HIDE DEF c, k
<1>8. running' \in [Schedules -> JobCounts]
  BY <1>1, <1>2, <1>5, <1>6 DEF Jobs
<1>9. starts' \in [Schedules -> Seq(Nat)]
  <2>1. Append(starts[s], tick[t].now) \in Seq(Nat)
    BY <1>1, <1>2, TickHolds DEF Jobs
  <2> QED
    BY <1>1, <1>2, <1>6, <2>1 DEF Jobs
<1>10. tick' \in [Ticks -> TickType] /\ Ticking'
  BY <1>1, <1>3, <1>4, TickSet DEF Calls
<1>11. Stored' /\ Jobs' /\ Calls'
  BY <1>1, <1>7, <1>8, <1>9, <1>10 DEF Stored, Jobs, Calls, time
<1>12. Asking'
  BY <1>7 DEF IInv, Asking
<1>13. ASSUME NEW x \in Schedules
       PROVE  InFlight(x)' + Cardinality(About(x)') <= Cardinality(Ticks)
  <2>1. InFlight(x) + Cardinality(About(x)) <= Cardinality(Ticks)
    BY DEF IInv, Room
  <2>2. Cardinality(Ticks) \in Nat /\ InFlight(x) \in Nat
    BY <1>1, SchedulerAssumption, FS_CardinalityType DEF Jobs, JobCounts, InFlight
  <2>3. CASE x # s \/ running' = running
    <3>1. About(x)' \subseteq About(x)
      BY <1>1, <1>3, <1>4 DEF About, Calls
    <3>2. /\ Cardinality(About(x)) \in Nat /\ Cardinality(About(x)') \in Nat
          /\ Cardinality(About(x)') <= Cardinality(About(x))
      BY <3>1, AboutIsFinite, Counts
    <3>3. InFlight(x)' = InFlight(x)
      BY <1>1, <1>6, <1>7, <2>3 DEF InFlight, Jobs
    <3> QED
      BY <2>1, <2>2, <3>2, <3>3
  <2>4. CASE x = s /\ running' = [running EXCEPT ![s] = c]
    <3>1. About(x)' = About(x) \ {t} /\ t \in About(x)
      BY <1>1, <1>2, <1>3, <1>4, <2>4 DEF About, Calls
    <3>2. Cardinality(About(x)') = Cardinality(About(x)) - 1
      BY <3>1, AboutIsFinite, FS_RemoveElement
    <3>3. Cardinality(About(x)) \in Nat
      BY AboutIsFinite, FS_CardinalityType
    <3>4. running[s].tick \in Nat /\ stranded[s].tick \in Nat
      BY <1>1, <1>2 DEF Jobs, JobCounts
    <3>5. InFlight(x)' = InFlight(x) + 1
      <4>1. running'[s].tick = running[s].tick + 1
        BY <1>1, <1>2, <1>5, <2>4 DEF Jobs
      <4>2. stranded' = stranded /\ x = s
        BY <1>7, <2>4
      <4> HIDE DEF s
      <4>3. InFlight(x) = running[s].tick + stranded[s].tick
        BY <4>2 DEF InFlight
      <4>4. InFlight(x)' = running[s].tick + 1 + stranded[s].tick
        BY <4>1, <4>2 DEF InFlight
      <4> QED
        BY <3>4, <4>3, <4>4
    <3> QED
      BY <2>1, <2>2, <3>2, <3>3, <3>5
  <2> QED
    BY <1>6, <2>3, <2>4
<1> QED
  BY <1>10, <1>11, <1>12, <1>13, TypesAreNext DEF IInv, Room

(* The steps after which a tick goes on, or is over. *)
LEMMA TickReschedulesKeeps ==
  ASSUME IInv, NEW t \in Ticks, TickReschedules(t)
  PROVE  IInv'
<1> DEFINE s == tick[t].cur
<1>1. Stored /\ Jobs /\ Calls /\ Ticking
  BY TypesAre DEF IInv
<1>2. s \in Tasks
  BY TickHolds DEF TickReschedules, Holds
<1>3. nextFireTime(tick[t].rows[s].cron, tick[t].now) \in Nat
  <2>1. tick[t].rows[s].cron \in Periods
    BY <1>2, TickHolds DEF TickType, Row
  <2> QED
    BY <2>1, TickHolds, FireTimeIsNat
<1>4. task' \in [Tasks -> Row]
  <2>1. task' = [task EXCEPT ![s].nextRunAt = nextFireTime(tick[t].rows[s].cron, tick[t].now)]
    BY DEF TickReschedules
  <2>2. task[s] \in Row
    BY <1>1, <1>2 DEF Stored
  <2> HIDE DEF s
  <2> QED
    BY <1>1, <1>2, <1>3, <2>1, <2>2 DEF Stored, Row
<1>5. Stored' /\ Jobs'
  BY <1>1, <1>4 DEF TickReschedules, Stored, Jobs, time, jobVars
<1>6. /\ tick' \in [Ticks -> TickType] /\ Ticking'
      /\ tick'[t].at # "enqueue" /\ \A u \in Ticks \ {t} : tick'[u] = tick[u]
  <2>1. tick[t].todo \ {s} \in SUBSET Schedules /\ Continue(t, tick[t].todo \ {s})
    BY TickHolds DEF TickReschedules
  <2> QED
    BY <1>1, <2>1, ContinueTypes DEF Calls
<1> QED
  BY <1>5, <1>6, TickMoves DEF TickReschedules, jobVars

LEMMA TickSkipsKeeps ==
  ASSUME IInv, NEW t \in Ticks, TickSkips(t)
  PROVE  IInv'
<1>1. Stored /\ Jobs /\ Calls /\ Ticking
  BY TypesAre DEF IInv
<1>2. Stored' /\ Jobs'
  <2>1. budget' \in [{"runNow", "patches", "faults"} -> Nat]
    BY <1>1, SpendType DEF TickSkips, Stored
  <2> QED
    BY <1>1, <2>1 DEF TickSkips, Stored, Jobs, time, jobVars
<1>3. /\ tick' \in [Ticks -> TickType] /\ Ticking'
      /\ tick'[t].at # "enqueue" /\ \A u \in Ticks \ {t} : tick'[u] = tick[u]
  <2>1. tick[t].todo \ {tick[t].cur} \in SUBSET Schedules /\ Continue(t, tick[t].todo \ {tick[t].cur})
    BY TickHolds DEF TickSkips
  <2> QED
    BY <1>1, <2>1, ContinueTypes DEF Calls
<1> QED
  BY <1>2, <1>3, TickMoves DEF TickSkips, jobVars

LEMMA TickListsKeeps ==
  ASSUME IInv, NEW t \in Ticks, TickLists(t)
  PROVE  IInv'
<1> DEFINE stored == {s \in Tasks : task[s].state = "present"}
           k == IF stored = {} THEN NoTick
                ELSE [tick[t] EXCEPT !.at = "read", !.todo = stored, !.rows = task]
<1>1. Stored /\ Jobs /\ Calls /\ Ticking
  BY TypesAre DEF IInv
<1>2. tick' = [tick EXCEPT ![t] = k]
  BY DEF TickLists
<1>3. stored \in SUBSET Tasks
  OBVIOUS
<1> HIDE DEF stored
<1>4. k \in TickType /\ k.at \in {"idle", "read"} /\ k.todo \subseteq Tasks
  <2>1. CASE stored = {}
    BY <2>1, NoTickType DEF NoTick
  <2>2. CASE stored # {}
    <3>1. task \in [Tasks -> Row] /\ stored \in SUBSET Schedules
      BY <1>1, <1>3 DEF Stored, Schedules
    <3> QED
      BY <1>3, <2>2, <3>1, TickHolds DEF TickType, Doing
  <2> QED
    BY <2>1, <2>2
<1>5. Holds(k)
  BY <1>4 DEF Holds
<1> HIDE DEF k
<1>6. /\ tick' \in [Ticks -> TickType] /\ Ticking'
      /\ tick'[t].at # "enqueue" /\ \A u \in Ticks \ {t} : tick'[u] = tick[u]
  BY <1>1, <1>2, <1>4, <1>5, TickSet DEF Calls
<1>7. Stored' /\ Jobs'
  BY <1>1 DEF TickLists, Stored, Jobs, time, jobVars
<1> QED
  BY <1>6, <1>7, TickMoves DEF TickLists, jobVars

LEMMA TickReadsKeeps ==
  ASSUME IInv, NEW t \in Ticks, TickReads(t)
  PROVE  IInv'
<1>1. Stored /\ Jobs /\ Calls /\ Ticking
  BY TypesAre DEF IInv
<1>2. Stored' /\ Jobs'
  BY <1>1 DEF TickReads, Stored, Jobs, time, jobVars
<1>3. tick[t].todo \in SUBSET Tasks
  BY TickHolds DEF TickReads, Holds
<1>4. PICK s \in tick[t].todo :
        \/ tick' = [tick EXCEPT ![t].at = "find", ![t].cur = s, ![t].now = ended[s]]
        \/ RecordNext(t, tick[t].todo \ {s})
  BY DEF TickReads
<1>5. CASE RecordNext(t, tick[t].todo \ {s})
  <2>1. tick[t].todo \ {s} \in SUBSET Tasks
    BY <1>3
  <2>2. /\ tick' \in [Ticks -> TickType] /\ Ticking'
        /\ tick'[t].at # "enqueue" /\ \A u \in Ticks \ {t} : tick'[u] = tick[u]
    BY <1>1, <1>5, <2>1, RecordNextTypes DEF Calls
  <2> QED
    BY <1>2, <2>2, TickMoves DEF TickReads, jobVars
<1>6. CASE tick' = [tick EXCEPT ![t].at = "find", ![t].cur = s, ![t].now = ended[s]]
  <2> DEFINE k == [tick[t] EXCEPT !.at = "find", !.cur = s, !.now = ended[s]]
  <2>1. s \in Schedules /\ ended[s] \in Nat
    BY <1>1, <1>4, TickHolds DEF Jobs
  <2>2. k \in TickType /\ k.at = "find" /\ k.cur = s /\ k.todo = tick[t].todo
    BY <2>1, TickHolds DEF TickType, Doing
  <2>3. Holds(k)
    BY <1>3, <1>4, <2>2 DEF Holds
  <2>4. tick' = [tick EXCEPT ![t] = k]
    BY <1>6
  <2> HIDE DEF k
  <2>5. /\ tick' \in [Ticks -> TickType] /\ Ticking'
        /\ tick'[t].at # "enqueue" /\ \A u \in Ticks \ {t} : tick'[u] = tick[u]
    BY <1>1, <2>2, <2>3, <2>4, TickSet DEF Calls
  <2> QED
    BY <1>2, <2>5, TickMoves DEF TickReads, jobVars
<1> QED
  BY <1>4, <1>5, <1>6

LEMMA TickFindsKeeps ==
  ASSUME IInv, NEW t \in Ticks, TickFinds(t)
  PROVE  IInv'
<1> DEFINE s == tick[t].cur
<1>1. Stored /\ Jobs /\ Calls /\ Ticking
  BY TypesAre DEF IInv
<1>2. Stored' /\ Jobs'
  BY <1>1 DEF TickFinds, Stored, Jobs, time, jobVars
<1>3. tick[t].todo \in SUBSET Tasks /\ s \in tick[t].todo
  BY TickHolds DEF TickFinds, Holds
<1>4. CASE RecordNext(t, tick[t].todo \ {s})
  <2>1. tick[t].todo \ {s} \in SUBSET Tasks
    BY <1>3
  <2>2. /\ tick' \in [Ticks -> TickType] /\ Ticking'
        /\ tick'[t].at # "enqueue" /\ \A u \in Ticks \ {t} : tick'[u] = tick[u]
    BY <1>1, <1>4, <2>1, RecordNextTypes DEF Calls
  <2> QED
    BY <1>2, <2>2, TickMoves DEF TickFinds, jobVars
<1>5. CASE tick' = [tick EXCEPT ![t].at = "write", ![t].rows[s] = task[s]]
  <2> DEFINE rows == [tick[t].rows EXCEPT ![s] = task[s]]
             k == [tick[t] EXCEPT !.at = "write", !.rows = rows]
  <2>1. rows \in [Tasks -> Row]
    BY <1>1, <1>3, TickHolds DEF TickType, Stored
  <2>2. tick' = [tick EXCEPT ![t] = k]
    BY <1>5
  <2> HIDE DEF rows
  <2>3. k \in TickType /\ k.at = "write" /\ k.cur = s /\ k.todo = tick[t].todo
    BY <2>1, TickHolds DEF TickType, Doing
  <2>4. Holds(k)
    BY <1>3, <2>3 DEF Holds
  <2> HIDE DEF k
  <2>5. /\ tick' \in [Ticks -> TickType] /\ Ticking'
        /\ tick'[t].at # "enqueue" /\ \A u \in Ticks \ {t} : tick'[u] = tick[u]
    BY <1>1, <2>2, <2>3, <2>4, TickSet DEF Calls
  <2> QED
    BY <1>2, <2>5, TickMoves DEF TickFinds, jobVars
<1> QED
  BY <1>4, <1>5 DEF TickFinds

LEMMA TickRecordsKeeps ==
  ASSUME IInv, NEW t \in Ticks, TickRecords(t)
  PROVE  IInv'
<1> DEFINE s == tick[t].cur
<1>1. Stored /\ Jobs /\ Calls /\ Ticking
  BY TypesAre DEF IInv
<1>2. tick[t].todo \in SUBSET Tasks /\ s \in Tasks
  BY TickHolds DEF TickRecords, Holds
<1>3. nextFireTime(tick[t].rows[s].cron, tick[t].now) \in Nat
  <2>1. tick[t].rows[s].cron \in Periods
    BY <1>2, TickHolds DEF TickType, Row
  <2> QED
    BY <2>1, TickHolds, FireTimeIsNat
<1>4. task' \in [Tasks -> Row]
  <2>1. task' = [task EXCEPT ![s].lastRunAt = tick[t].now,
                             ![s].nextRunAt = nextFireTime(tick[t].rows[s].cron, tick[t].now)]
    BY DEF TickRecords
  <2>2. task[s] \in Row /\ tick[t].now \in Nat
    BY <1>1, <1>2, TickHolds DEF Stored
  <2> HIDE DEF s
  <2> QED
    BY <1>1, <1>2, <1>3, <2>1, <2>2 DEF Stored, Row
<1>5. Stored' /\ Jobs'
  BY <1>1, <1>4 DEF TickRecords, Stored, Jobs, time, jobVars
<1>6. /\ tick' \in [Ticks -> TickType] /\ Ticking'
      /\ tick'[t].at # "enqueue" /\ \A u \in Ticks \ {t} : tick'[u] = tick[u]
  <2>1. tick[t].todo \ {s} \in SUBSET Tasks /\ RecordNext(t, tick[t].todo \ {s})
    BY <1>2 DEF TickRecords
  <2> QED
    BY <1>1, <2>1, RecordNextTypes DEF Calls
<1> QED
  BY <1>5, <1>6, TickMoves DEF TickRecords, jobVars

LEMMA TickAbortsKeeps ==
  ASSUME IInv, NEW t \in Ticks, TickAborts(t)
  PROVE  IInv'
<1>1. Stored /\ Jobs /\ Calls /\ Ticking
  BY TypesAre DEF IInv
<1>2. Stored' /\ Jobs'
  BY <1>1, SpendType DEF TickAborts, Stored, Jobs, time, jobVars
<1>3. /\ tick' \in [Ticks -> TickType] /\ Ticking'
      /\ tick'[t].at # "enqueue" /\ \A u \in Ticks \ {t} : tick'[u] = tick[u]
  BY <1>1, NoTickType, TickSet DEF TickAborts, Calls, NoTick
<1> QED
  BY <1>2, <1>3, TickMoves DEF TickAborts, jobVars

-----------------------------------------------------------------------------
(* The queue and the process. *)

(* A job that ends or strands: what is in flight does not grow. *)
LEMMA JobKeeps ==
  ASSUME IInv, NEW s \in Schedules, JobEnds(s) \/ JobStrands(s)
  PROVE  IInv'
<1>1. Stored /\ Jobs /\ Calls /\ now \in Nat
  BY TypesAre DEF IInv, Stored
<1>2. UNCHANGED <<time, task, starts, tick, request>>
  BY DEF JobEnds, JobStrands
<1>3. budget' \in [{"runNow", "patches", "faults"} -> Nat]
  BY <1>1, SpendType DEF JobEnds, JobStrands, Stored
<1>4. ended' \in [Schedules -> Nat]
  BY <1>1 DEF JobEnds, JobStrands, Jobs
<1>5. PICK by \in {"tick", "user"} :
        /\ running[s][by] > 0
        /\ running' = [running EXCEPT ![s][by] = @ - 1]
        /\ stranded' = stranded \/ stranded' = [stranded EXCEPT ![s][by] = @ + 1]
  BY DEF JobEnds, JobStrands
<1> DEFINE c == [running[s] EXCEPT ![by] = @ - 1]
           d == [stranded[s] EXCEPT ![by] = @ + 1]
<1>6. running[s] \in JobCounts /\ stranded[s] \in JobCounts
  BY <1>1 DEF Jobs
<1>7. /\ c \in JobCounts /\ d \in JobCounts
      /\ c.tick + d.tick = running[s].tick + stranded[s].tick
      /\ c.tick <= running[s].tick
  <2>1. CASE by = "tick"
    <3>1. /\ c = [tick |-> running[s].tick - 1, user |-> running[s].user]
          /\ d = [tick |-> stranded[s].tick + 1, user |-> stranded[s].user]
      BY <1>6, <2>1 DEF JobCounts
    <3>2. running[s].tick \in Nat /\ running[s].tick > 0 /\ running[s].user \in Nat
      BY <1>5, <1>6, <2>1 DEF JobCounts
    <3>3. stranded[s].tick \in Nat /\ stranded[s].user \in Nat
      BY <1>6 DEF JobCounts
    <3> HIDE DEF c, d
    <3> QED
      BY <3>1, <3>2, <3>3 DEF JobCounts
  <2>2. CASE by = "user"
    <3>1. /\ c = [tick |-> running[s].tick, user |-> running[s].user - 1]
          /\ d = [tick |-> stranded[s].tick, user |-> stranded[s].user + 1]
      BY <1>6, <2>2 DEF JobCounts
    <3>2. running[s].user \in Nat /\ running[s].user > 0 /\ running[s].tick \in Nat
      BY <1>5, <1>6, <2>2 DEF JobCounts
    <3>3. stranded[s].tick \in Nat /\ stranded[s].user \in Nat
      BY <1>6 DEF JobCounts
    <3> HIDE DEF c, d
    <3> QED
      BY <3>1, <3>2, <3>3 DEF JobCounts
  <2> QED
    BY <2>1, <2>2
<1>8. /\ running' = [running EXCEPT ![s] = c]
      /\ stranded' = stranded \/ stranded' = [stranded EXCEPT ![s] = d]
  BY <1>5
<1> HIDE DEF c, d
<1>9. running' \in [Schedules -> JobCounts] /\ stranded' \in [Schedules -> JobCounts]
  BY <1>1, <1>7, <1>8 DEF Jobs
<1>10. Stored' /\ Jobs' /\ Calls'
  BY <1>1, <1>2, <1>3, <1>4, <1>9 DEF Stored, Jobs, Calls, time
<1>11. ASSUME NEW x \in Schedules
       PROVE  InFlight(x)' <= InFlight(x)
  <2>1. running[x].tick \in Nat /\ stranded[x].tick \in Nat
    BY <1>1 DEF Jobs, JobCounts
  <2>2. CASE x # s
    BY <1>1, <1>8, <2>1, <2>2 DEF Jobs, InFlight
  <2>3. CASE x = s
    <3>1. running'[s] = c /\ (stranded'[s] = stranded[s] \/ stranded'[s] = d)
      BY <1>1, <1>8 DEF Jobs
    <3>2. c.tick \in Nat /\ d.tick \in Nat
      BY <1>7 DEF JobCounts
    <3> QED
      BY <1>7, <2>1, <2>3, <3>1, <3>2 DEF InFlight
  <2> QED
    BY <2>2, <2>3
<1>12. Ticking' /\ Asking'
  BY <1>2 DEF IInv, Ticking, Asking
<1>13. Room'
  BY <1>1, <1>2, <1>10, <1>11, FlightKeeps DEF IInv
<1> QED
  BY <1>10, <1>12, <1>13, TypesAreNext DEF IInv

LEMMA RestartKeeps ==
  ASSUME IInv, Restart
  PROVE  IInv'
<1>1. Stored /\ Jobs /\ Calls /\ now \in Nat
  BY TypesAre DEF IInv, Stored
<1>2. Stored'
  BY <1>1, SpendType, NextTimerIsNat DEF Restart, Stored
<1>3. NoJobs \in JobCounts
  BY DEF NoJobs, JobCounts
<1>4. ASSUME NEW s \in Schedules
      PROVE  /\ stranded'[s] \in JobCounts /\ running'[s] = NoJobs
             /\ InFlight(s)' <= InFlight(s)
  <2>1. /\ running[s].tick \in Nat /\ running[s].user \in Nat
        /\ stranded[s].tick \in Nat /\ stranded[s].user \in Nat
    BY <1>1 DEF Jobs, JobCounts
  <2>2. stranded'[s] = [by \in {"tick", "user"} |-> stranded[s][by] + running[s][by]]
    BY DEF Restart
  <2>3. stranded'[s] = [tick |-> stranded[s].tick + running[s].tick, user |-> stranded[s].user + running[s].user]
    BY <2>2
  <2>4. running'[s] = NoJobs
    BY DEF Restart
  <2> QED
    BY <2>1, <2>3, <2>4 DEF JobCounts, InFlight, NoJobs
<1>5. stranded' = [s \in Schedules |-> stranded'[s]]
  BY DEF Restart
<1>6. Jobs'
  BY <1>1, <1>3, <1>4, <1>5 DEF Restart, Jobs
<1>7. Calls' /\ Ticking' /\ Asking'
  BY NoTickType, NoRequestType DEF Restart, Calls, Ticking, Asking, NoRequest
<1>8. \A u \in Ticks : tick'[u].at # "enqueue"
  BY DEF Restart, NoTick
<1>9. Room'
  BY <1>1, <1>4, <1>6, <1>8, FlightKeeps DEF IInv
<1> QED
  BY <1>2, <1>6, <1>7, <1>9, TypesAreNext DEF IInv

LEMMA AdvanceKeeps ==
  ASSUME IInv, Advance
  PROVE  IInv'
<1>1. Stored
  BY TypesAre DEF IInv
<1>2. now' \in 1..MaxTime
  BY <1>1, SchedulerAssumption DEF Advance, Stored
<1>3. Stored'
  BY <1>1, <1>2 DEF Advance, Stored
<1> QED
  BY <1>3, StoreKeeps DEF Advance

-----------------------------------------------------------------------------
(* Instants. *)

(* A stored instant that some cron, asked at another one, would have given, *)
(* or that is sooner.                                                      *)
Fits(next, at) == \E p \in Periods : next <= nextFireTime(p, at)

(* No call holds an instant of the future, and nothing is put off.         *)
Timely == /\ \A t \in Ticks : tick[t].now <= now
          /\ \A r \in Requests : request[r].now <= now
          /\ \A s \in Schedules : ended[s] <= now
          /\ \A s \in Tasks : task[s].state = "present" => Fits(task[s].nextRunAt, now)

LEMMA FireTimeIsLater == ASSUME NEW p \in Periods, NEW from \in Nat
                         PROVE  from < nextFireTime(p, from)
<1>1. p \in Nat \ {0}
  BY SchedulerAssumption
<1>2. /\ from \div p \in Nat /\ from % p \in 0 .. p - 1
      /\ from = p * (from \div p) + (from % p)
  BY <1>1, SMT
<1> DEFINE d == from \div p
           m == from % p
<1> HIDE DEF d, m
<1>3. (d + 1) * p = p * d + p
  BY <1>1, <1>2, SMT DEF d
<1> QED
  BY <1>1, <1>2, <1>3, SMT DEF d, m, nextFireTime

(* The later it is asked, the later a cron fires. *)
LEMMA FireTimeGrows == ASSUME NEW p \in Periods, NEW from \in Nat, NEW to \in Nat, from <= to
                       PROVE  nextFireTime(p, from) <= nextFireTime(p, to)
<1>1. p \in Nat \ {0}
  BY SchedulerAssumption
<1>2. from \div p <= to \div p /\ from \div p \in Nat /\ to \div p \in Nat
  BY <1>1, SMT
<1> DEFINE d == from \div p
           e == to \div p
<1>3. d \in Nat /\ e \in Nat /\ d <= e
  BY <1>2
<1> HIDE DEF d, e
<1>4. (d + 1) * p <= (e + 1) * p
  BY <1>1, <1>3, SMT
<1> QED
  BY <1>4 DEF d, e, nextFireTime

(* What is no later than a fire time still is when time has passed. *)
LEMMA FitsLater ==
  ASSUME NEW n \in Nat, NEW from \in Nat, NEW to \in Nat, from <= to, Fits(n, from)
  PROVE  Fits(n, to)
<1>1. PICK p \in Periods : n <= nextFireTime(p, from)
  BY DEF Fits
<1>2. /\ nextFireTime(p, from) \in Nat /\ nextFireTime(p, to) \in Nat
      /\ nextFireTime(p, from) <= nextFireTime(p, to)
  BY FireTimeIsNat, FireTimeGrows
<1>3. n <= nextFireTime(p, to)
  BY <1>1, <1>2
<1> QED
  BY <1>3 DEF Fits

(* What a request or a tick stores: an instant it holds, or the fire time  *)
(* that follows it.                                                        *)
LEMMA FitsNow ==
  ASSUME NEW from \in Nat, NEW to \in Nat, from <= to
  PROVE  Fits(from, to) /\ \A p \in Periods : Fits(nextFireTime(p, from), to)
<1>1. \A p \in Periods : Fits(nextFireTime(p, from), to)
  BY FireTimeGrows DEF Fits
<1>2. Fits(from, from)
  <2>1. PICK p : p \in Periods
    BY SchedulerAssumption
  <2>2. from <= nextFireTime(p, from)
    BY <2>1, FireTimeIsLater, FireTimeIsNat
  <2> QED
    BY <2>1, <2>2 DEF Fits
<1> QED
  BY <1>1, <1>2, FitsLater

(* The clock only goes forward. *)
LEMMA ClockGoesOn == ASSUME IInv, [Next]_vars PROVE now \in Nat /\ now' \in Nat /\ now <= now'
<1>1. now \in Nat
  BY TypesAre DEF IInv, Stored
<1>2. CASE UserStep
  BY <1>1, <1>2 DEF UserStep, CreateSchedule, PatchCron, PatchEnabled, DeleteSchedule, RunNow, time
<1>3. ASSUME NEW t \in Ticks, TickStep(t) \/ TickAborts(t)
      PROVE  now' = now
  <2>1. CASE LoopFires(t) \/ TickChecks(t) \/ TickEnqueues(t) \/ TickReschedules(t) \/ TickSkips(t)
    BY <2>1 DEF LoopFires, TickChecks, TickEnqueues, TickReschedules, TickSkips, time
  <2>2. CASE TickLists(t)
    BY <2>2 DEF TickLists, time
  <2>4. CASE TickReads(t)
    BY <2>4 DEF TickReads, time
  <2>3. CASE TickFinds(t) \/ TickRecords(t) \/ TickAborts(t)
    BY <2>3 DEF TickFinds, TickRecords, TickAborts, time
  <2> QED
    BY <1>3, <2>1, <2>2, <2>3, <2>4 DEF TickStep
<1>4. ASSUME NEW r \in Requests, RequestStep(r) \/ RunNowThrows(r)
      PROVE  now' = now
  BY <1>4 DEF RequestStep, RunNowEnqueues, RunNowSetsDue, RunNowThrows, time
<1>5. ASSUME NEW s \in Schedules, JobEnds(s) \/ JobStrands(s)
      PROVE  now' = now
  BY <1>5 DEF JobEnds, JobStrands, time
<1>6. CASE Restart \/ Advance \/ UNCHANGED vars
  BY <1>1, <1>6 DEF Restart, Advance, vars
<1> QED
  BY <1>1, <1>2, <1>3, <1>4, <1>5, <1>6 DEF Next

(* What a step may leave in each place. *)
LEMMA TimelyFrom ==
  ASSUME IInv, IInv', Timely, now \in Nat, now' \in Nat, now <= now',
         \A t \in Ticks : tick'[t].now = tick[t].now \/ tick'[t].now <= now,
         \A r \in Requests : request'[r].now = request[r].now \/ request'[r].now <= now,
         \A s \in Schedules : ended'[s] = ended[s] \/ ended'[s] <= now,
         \A s \in Tasks : \/ /\ task'[s].nextRunAt = task[s].nextRunAt
                             /\ task'[s].state = "present" => task[s].state = "present"
                          \/ Fits(task'[s].nextRunAt, now)
  PROVE  Timely'
<1>1. Stored' /\ Jobs' /\ Calls' /\ Stored
  BY TypesAre, TypesAreNext DEF IInv
<1>2. ASSUME NEW t \in Ticks
      PROVE  tick'[t].now <= now'
  <2>1. tick'[t].now \in Nat /\ tick'[t].now <= now
    BY <1>1 DEF Calls, TickType, Timely
  <2> QED
    BY <2>1
<1>3. ASSUME NEW r \in Requests
      PROVE  request'[r].now <= now'
  <2>1. request'[r].now \in Nat /\ request'[r].now <= now
    BY <1>1 DEF Calls, RequestType, Timely
  <2> QED
    BY <2>1
<1>4. ASSUME NEW s \in Schedules
      PROVE  ended'[s] <= now'
  <2>1. ended'[s] \in Nat /\ ended'[s] <= now
    BY <1>1 DEF Jobs, Timely
  <2> QED
    BY <2>1
<1>5. ASSUME NEW s \in Tasks, task'[s].state = "present"
      PROVE  Fits(task'[s].nextRunAt, now')
  <2>1. Fits(task'[s].nextRunAt, now)
    BY <1>5 DEF Timely
  <2>2. task'[s].nextRunAt \in Nat
    BY <1>1 DEF Stored, Row
  <2> QED
    BY <2>1, <2>2, FitsLater
<1>6. (\A s \in Tasks : task[s].state = "present" => Fits(task[s].nextRunAt, now))'
  BY <1>5 DEF Fits
<1> QED
  BY <1>2, <1>3, <1>4, <1>6 DEF Timely

(* Users and requests. *)
LEMMA TimelyUsers ==
  ASSUME IInv, IInv', Timely, UserStep
  PROVE  Timely'
<1>1. Stored /\ Calls /\ now \in Nat /\ now' \in Nat /\ now <= now'
  BY TypesAre, ClockGoesOn DEF IInv, Next
<1>2. UNCHANGED <<tick, ended>>
  BY DEF UserStep, CreateSchedule, PatchCron, PatchEnabled, DeleteSchedule, RunNow, jobVars
<1>3. \A r \in Requests : request'[r].now = request[r].now \/ request'[r].now <= now
  BY <1>1 DEF UserStep, CreateSchedule, PatchCron, PatchEnabled, DeleteSchedule, RunNow, Calls
<1>4. \A p \in Periods : Fits(nextFireTime(p, now), now)
  BY <1>1, FitsNow
<1>5. ASSUME NEW s \in Tasks
      PROVE  \/ /\ task'[s].nextRunAt = task[s].nextRunAt
                /\ task'[s].state = "present" => task[s].state = "present"
             \/ Fits(task'[s].nextRunAt, now)
  <2> HIDE DEF Fits
  <2>1. ASSUME NEW x \in Tasks, CreateSchedule(x)
        PROVE  task'[s] = task[s] \/ \E p \in Periods : task'[s].nextRunAt = nextFireTime(p, now)
    BY <1>1, <2>1 DEF CreateSchedule, Stored
  <2>2. ASSUME NEW x \in Tasks, PatchCron(x)
        PROVE  task'[s] = task[s] \/ \E p \in Periods : task'[s].nextRunAt = nextFireTime(p, now)
    BY <1>1, <2>2 DEF PatchCron, Stored, Row
  <2>3. ASSUME NEW x \in Tasks, PatchEnabled(x) \/ DeleteSchedule(x)
        PROVE  /\ task'[s].nextRunAt = task[s].nextRunAt
               /\ task'[s].state = "present" => task[s].state = "present"
    BY <1>1, <2>3 DEF PatchEnabled, DeleteSchedule, Stored, Row
  <2>4. ASSUME NEW r \in Requests, NEW x \in Tasks, RunNow(r, x)
        PROVE  task' = task
    BY <2>4 DEF RunNow
  <2> QED
    BY <1>4, <2>1, <2>2, <2>3, <2>4 DEF UserStep
<1> QED
  BY <1>1, <1>2, <1>3, <1>5, TimelyFrom

LEMMA TimelyRequests ==
  ASSUME IInv, IInv', Timely, NEW r \in Requests, RequestStep(r) \/ RunNowThrows(r)
  PROVE  Timely'
<1>1. Stored /\ Calls /\ now \in Nat /\ now' \in Nat /\ now <= now'
  BY TypesAre, ClockGoesOn DEF IInv, Next
<1>2. UNCHANGED <<tick, ended>>
  BY DEF RequestStep, RunNowEnqueues, RunNowSetsDue, RunNowThrows, jobVars
<1>3. \A q \in Requests : request'[q].now = request[q].now \/ request'[q].now <= now
  BY <1>1 DEF RequestStep, RunNowEnqueues, RunNowSetsDue, RunNowThrows, Calls, RequestType, NoRequest, Never
<1>4. request[r].now \in Nat /\ request[r].now <= now
  BY <1>1 DEF Calls, RequestType, Timely
<1>5. Fits(request[r].now, now)
  BY <1>1, <1>4, FitsNow
<1>6. ASSUME NEW s \in Tasks
      PROVE  \/ /\ task'[s].nextRunAt = task[s].nextRunAt
                /\ task'[s].state = "present" => task[s].state = "present"
             \/ Fits(task'[s].nextRunAt, now)
  <2>1. task'[s] = task[s] \/ task'[s].nextRunAt = request[r].now
    BY <1>1 DEF RequestStep, RunNowEnqueues, RunNowSetsDue, RunNowThrows, Stored, Row
  <2> QED
    BY <1>5, <2>1
<1> QED
  BY <1>1, <1>2, <1>3, <1>6, TimelyFrom

(* A tick that goes on holds the instant it held, or none. *)
LEMMA GoingOn ==
  ASSUME tick \in [Ticks -> TickType], now \in Nat, NEW t \in Ticks, NEW todo,
         Continue(t, todo) \/ RecordNext(t, todo)
  PROVE  \A u \in Ticks : tick'[u].now = tick[u].now \/ tick'[u].now <= now
<1>1. NoTick.now <= now /\ [NoTick EXCEPT !.at = "list"].now <= now
  BY DEF NoTick, Never
<1>2. tick'[t].now = tick[t].now \/ tick'[t].now <= now
  <2>1. tick[t] \in TickType
    OBVIOUS
  <2>2. CASE Continue(t, todo)
    BY <1>1, <2>1, <2>2 DEF Continue, TickType
  <2>3. CASE RecordNext(t, todo)
    BY <1>1, <2>1, <2>3 DEF RecordNext, TickType, Never
  <2> QED
    BY <2>2, <2>3
<1>3. \A u \in Ticks : u # t => tick'[u] = tick[u]
  BY DEF Continue, RecordNext
<1> QED
  BY <1>2, <1>3

LEMMA TimelyTicks ==
  ASSUME IInv, IInv', Timely, NEW t \in Ticks, TickStep(t) \/ TickAborts(t)
  PROVE  Timely'
<1>1. /\ Stored /\ Jobs /\ Calls /\ now \in Nat /\ now' \in Nat /\ now <= now'
      /\ tick[t] \in TickType /\ Holds(tick[t])
  BY TypesAre, TickHolds, ClockGoesOn DEF IInv, Next
<1>2. UNCHANGED <<request, ended>>
  <2>1. CASE LoopFires(t) \/ TickChecks(t) \/ TickEnqueues(t) \/ TickReschedules(t) \/ TickSkips(t)
    BY <2>1 DEF LoopFires, TickChecks, TickEnqueues, TickReschedules, TickSkips, jobVars
  <2>2. CASE TickLists(t)
    BY <2>2 DEF TickLists, jobVars
  <2>3. CASE TickReads(t)
    BY <2>3 DEF TickReads, jobVars
  <2>4. CASE TickFinds(t) \/ TickRecords(t) \/ TickAborts(t)
    BY <2>4 DEF TickFinds, TickRecords, TickAborts, jobVars
  <2> QED
    BY <2>1, <2>2, <2>3, <2>4 DEF TickStep
<1>3. \A u \in Ticks : tick'[u].now = tick[u].now \/ tick'[u].now <= now
  <2>1. CASE LoopFires(t)
    BY <1>1, <2>1 DEF LoopFires, Snapshot, NoTick, Never, Calls
  <2>2. CASE TickChecks(t)
    <3>1. PICK s \in tick[t].todo : \/ Continue(t, tick[t].todo \ {s})
                                   \/ tick' = [tick EXCEPT ![t].at = "enqueue", ![t].cur = s]
      BY <2>2 DEF TickChecks
    <3>2. CASE tick' = [tick EXCEPT ![t].at = "enqueue", ![t].cur = s]
      BY <1>1, <3>2 DEF Calls, TickType
    <3> QED
      BY <1>1, <3>1, <3>2, GoingOn DEF Calls
  <2>3. CASE TickEnqueues(t)
    BY <1>1, <2>3 DEF TickEnqueues, Goto, Calls, TickType
  <2>4. CASE TickReschedules(t) \/ TickSkips(t) \/ TickRecords(t)
    BY <1>1, <2>4, GoingOn DEF TickReschedules, TickSkips, TickRecords, Calls
  <2>5. CASE TickLists(t)
    <3>1. tick'[t] = NoTick \/ tick'[t].now = tick[t].now
      BY <1>1, <2>5 DEF TickLists, Calls, TickType
    <3>2. \A u \in Ticks : u # t => tick'[u] = tick[u]
      BY <2>5 DEF TickLists, Calls
    <3> QED
      BY <1>1, <3>1, <3>2 DEF NoTick, Never
  <2>6. CASE TickReads(t)
    <3>1. PICK s \in tick[t].todo :
            \/ tick' = [tick EXCEPT ![t].at = "find", ![t].cur = s, ![t].now = ended[s]]
            \/ RecordNext(t, tick[t].todo \ {s})
      BY <2>6, Zenon DEF TickReads
    <3>2. CASE tick' = [tick EXCEPT ![t].at = "find", ![t].cur = s, ![t].now = ended[s]]
      <4>1. s \in Schedules /\ ended[s] <= now
        BY <1>1, <3>1 DEF TickType, Timely
      <4>2. tick'[t].now = ended[s] /\ \A u \in Ticks : u # t => tick'[u] = tick[u]
        BY <1>1, <3>2 DEF Calls, TickType
      <4> QED
        BY <4>1, <4>2
    <3> QED
      BY <1>1, <3>1, <3>2, GoingOn DEF Calls
  <2>7. CASE TickFinds(t)
    <3>1. CASE tick' = [tick EXCEPT ![t].at = "write", ![t].rows[tick[t].cur] = task[tick[t].cur]]
      BY <1>1, <3>1 DEF Calls, TickType
    <3> QED
      BY <1>1, <2>7, <3>1, GoingOn DEF TickFinds, Calls
  <2>8. CASE TickAborts(t)
    BY <1>1, <2>8 DEF TickAborts, Calls, NoTick, Never
  <2> QED
    BY <2>1, <2>2, <2>3, <2>4, <2>5, <2>6, <2>7, <2>8 DEF TickStep
<1>4. tick[t].now \in Nat /\ tick[t].now <= now
  BY <1>1 DEF TickType, Timely
<1>5. \A p \in Periods : Fits(nextFireTime(p, tick[t].now), now)
  BY <1>1, <1>4, FitsNow
<1>6. ASSUME NEW s \in Tasks
      PROVE  \/ /\ task'[s].nextRunAt = task[s].nextRunAt
                /\ task'[s].state = "present" => task[s].state = "present"
             \/ Fits(task'[s].nextRunAt, now)
  <2>1. CASE task' = task
    BY <2>1
  <2>2. CASE TickReschedules(t) \/ TickRecords(t)
    <3>1. tick[t].cur \in Tasks /\ tick[t].rows[tick[t].cur].cron \in Periods
      BY <1>1, <2>2 DEF Holds, TickReschedules, TickRecords, TickType, Row
    <3>2. \/ task'[s] = task[s]
          \/ task'[s].nextRunAt = nextFireTime(tick[t].rows[tick[t].cur].cron, tick[t].now)
      BY <1>1, <2>2, <3>1 DEF TickReschedules, TickRecords, Stored, Row
    <3> QED
      BY <1>5, <3>1, <3>2
  <2>3. CASE LoopFires(t) \/ TickChecks(t) \/ TickEnqueues(t) \/ TickSkips(t) \/ TickAborts(t)
    BY <2>1, <2>3 DEF LoopFires, TickChecks, TickEnqueues, TickSkips, TickAborts
  <2>4. CASE TickLists(t)
    BY <2>1, <2>4 DEF TickLists
  <2>5. CASE TickReads(t)
    BY <2>1, <2>5 DEF TickReads
  <2>6. CASE TickFinds(t)
    BY <2>1, <2>6 DEF TickFinds
  <2> QED
    BY <2>2, <2>3, <2>4, <2>5, <2>6 DEF TickStep
<1> QED
  BY <1>1, <1>2, <1>3, <1>6, TimelyFrom

(* The queue, the process and the clock. *)
LEMMA TimelyRest ==
  ASSUME IInv, IInv', Timely,
         Restart \/ Advance \/ UNCHANGED vars \/ \E s \in Schedules : JobEnds(s) \/ JobStrands(s)
  PROVE  Timely'
<1>1. Jobs /\ now \in Nat /\ now' \in Nat /\ now <= now'
  BY TypesAre, ClockGoesOn DEF IInv, Next
<1>2. task' = task
  BY DEF Restart, Advance, vars, JobEnds, JobStrands
<1>3. \A t \in Ticks : tick'[t].now = tick[t].now \/ tick'[t].now <= now
  BY <1>1 DEF Restart, Advance, vars, JobEnds, JobStrands, NoTick, Never
<1>4. \A r \in Requests : request'[r].now = request[r].now \/ request'[r].now <= now
  BY <1>1 DEF Restart, Advance, vars, JobEnds, JobStrands, NoRequest, Never
<1>5. \A s \in Schedules : ended'[s] = ended[s] \/ ended'[s] <= now
  BY <1>1 DEF Restart, Advance, vars, JobEnds, JobStrands, jobVars, Jobs
<1> QED
  BY <1>1, <1>2, <1>3, <1>4, <1>5, TimelyFrom

LEMMA TimelyInitially == ASSUME Init PROVE Timely
  BY DEF Init, Timely, NoTick, NoRequest, Blank, Never

LEMMA TimelySteps == ASSUME IInv, IInv', Timely, [Next]_vars PROVE Timely'
  BY TimelyUsers, TimelyRequests, TimelyTicks, TimelyRest DEF Next

-----------------------------------------------------------------------------
(* Outcomes. *)

Recording == {"read", "find", "write"}

(* A tick that records outcomes has read what lastRunAt still is, of rows   *)
(* that are not yet to be created, and holds a later completion.           *)
Follows(t) ==
  /\ tick[t].at \in Recording => \A s \in tick[t].todo :
       task[s].state # "absent" /\ tick[t].rows[s].lastRunAt = task[s].lastRunAt
  /\ tick[t].at \in {"find", "write"} =>
       tick[t].rows[tick[t].cur].lastRunAt < tick[t].now /\ tick[t].now <= ended[tick[t].cur]

Abreast == /\ \A s \in Tasks : task[s].state = "absent" => task[s].lastRunAt = Never
           /\ \A t \in Ticks : Follows(t)

(* Nothing but a record moves lastRunAt. *)
StaysRecorded == \A s \in Tasks : /\ task'[s].lastRunAt = task[s].lastRunAt
                                  /\ task'[s].state = "absent" => task[s].state = "absent"

LEMMA AbreastFrom ==
  ASSUME IInv, IInv', Abreast, StaysRecorded,
         \A s \in Schedules : ended'[s] >= ended[s],
         \A t \in Ticks : tick'[t] = tick[t] \/ tick'[t].at \notin Recording \/ Follows(t)'
  PROVE  Abreast'
<1>1. Jobs /\ Jobs' /\ Calls'
  BY TypesAre, TypesAreNext DEF IInv
<1>2. \A s \in Tasks : task'[s].state = "absent" => task'[s].lastRunAt = Never
  BY DEF Abreast, StaysRecorded
<1>3. ASSUME NEW t \in Ticks, tick'[t] = tick[t]
      PROVE  Follows(t)'
  <2>1. tick'[t] \in TickType /\ Holds(tick'[t]) /\ Follows(t)
    BY <1>1, <1>3 DEF Calls, IInv, Ticking, Abreast
  <2>2. ASSUME tick'[t].at \in Recording, NEW s \in tick'[t].todo
        PROVE  task'[s].state # "absent" /\ tick'[t].rows[s].lastRunAt = task'[s].lastRunAt
    <3>1. s \in Tasks
      BY <2>1, <2>2 DEF Holds, Recording
    <3>2. task[s].state # "absent" /\ tick[t].rows[s].lastRunAt = task[s].lastRunAt
      BY <1>3, <2>1, <2>2 DEF Follows
    <3> QED
      BY <1>3, <3>1, <3>2 DEF StaysRecorded
  <2>3. ASSUME tick'[t].at \in {"find", "write"}
        PROVE  /\ tick'[t].rows[tick'[t].cur].lastRunAt < tick'[t].now
               /\ tick'[t].now <= ended'[tick'[t].cur]
    <3>1. PICK c : c = tick[t].cur
      OBVIOUS
    <3>2. c \in Schedules
      BY <1>3, <2>1, <2>3, <3>1 DEF Holds, Schedules
    <3>3. /\ tick[t].now \in Nat /\ ended[c] \in Nat /\ ended'[c] \in Nat
          /\ ended'[c] >= ended[c]
      BY <1>1, <1>3, <2>1, <3>2 DEF Jobs, TickType
    <3>4. tick[t].rows[c].lastRunAt < tick[t].now /\ tick[t].now <= ended[c]
      BY <1>3, <2>1, <2>3, <3>1 DEF Follows
    <3>5. tick[t].now <= ended'[c]
      BY <3>3, <3>4
    <3> QED
      BY <1>3, <3>1, <3>4, <3>5
  <2> QED
    BY <2>2, <2>3 DEF Follows
<1>4. ASSUME NEW t \in Ticks, tick'[t].at \notin Recording
      PROVE  Follows(t)'
  BY <1>4 DEF Follows, Recording
<1> QED
  BY <1>2, <1>3, <1>4 DEF Abreast

(* Whatever is not a step of recordOutcomes(). *)
LEMMA AbreastElsewhere ==
  ASSUME IInv, IInv', Timely, Abreast,
         \/ UserStep \/ Restart \/ Advance \/ UNCHANGED vars
         \/ \E r \in Requests : RequestStep(r) \/ RunNowThrows(r)
         \/ \E s \in Schedules : JobEnds(s) \/ JobStrands(s)
  PROVE  Abreast' /\ StaysRecorded
<1>1. Stored /\ Jobs /\ Calls /\ now \in Nat
  BY TypesAre DEF IInv, Stored
<1>2. StaysRecorded
  <2>1. CASE UserStep
    <3>1. ASSUME NEW s \in Tasks, CreateSchedule(s)
          PROVE  StaysRecorded
      BY <1>1, <3>1 DEF CreateSchedule, StaysRecorded, Stored, Abreast
    <3>2. ASSUME NEW s \in Tasks, PatchCron(s)
          PROVE  StaysRecorded
      BY <1>1, <3>2 DEF PatchCron, StaysRecorded, Stored, Row
    <3>3. ASSUME NEW s \in Tasks, PatchEnabled(s) \/ DeleteSchedule(s)
          PROVE  StaysRecorded
      BY <1>1, <3>3 DEF PatchEnabled, DeleteSchedule, StaysRecorded, Stored, Row
    <3>4. ASSUME NEW r \in Requests, NEW s \in Tasks, RunNow(r, s)
          PROVE  StaysRecorded
      BY <3>4 DEF RunNow, StaysRecorded
    <3> QED
      BY <2>1, <3>1, <3>2, <3>3, <3>4 DEF UserStep
  <2>2. ASSUME NEW r \in Requests, RequestStep(r) \/ RunNowThrows(r)
        PROVE  StaysRecorded
    BY <1>1, <2>2 DEF RequestStep, RunNowEnqueues, RunNowSetsDue, RunNowThrows, StaysRecorded, Stored, Row
  <2>3. CASE task' = task
    BY <2>3 DEF StaysRecorded
  <2> QED
    BY <2>1, <2>2, <2>3 DEF Restart, Advance, vars, JobEnds, JobStrands
<1>3. \A s \in Schedules : ended'[s] >= ended[s]
  <2>1. \A s \in Schedules : ended'[s] = ended[s] \/ ended'[s] = now
    BY <1>1 DEF UserStep, CreateSchedule, PatchCron, PatchEnabled, DeleteSchedule, RunNow, RequestStep, RunNowEnqueues,
                RunNowSetsDue, RunNowThrows, JobEnds, JobStrands, Restart, Advance, vars, jobVars, Jobs
  <2> QED
    <3>1. \A s \in Schedules : ended[s] <= now /\ ended[s] \in Nat
      BY <1>1 DEF Timely, Jobs
    <3> QED
      BY <1>1, <2>1, <3>1
<1>4. \A t \in Ticks : tick'[t] = tick[t] \/ tick'[t].at \notin Recording
  <2>1. CASE UserStep
    BY <2>1 DEF UserStep, CreateSchedule, PatchCron, PatchEnabled, DeleteSchedule, RunNow
  <2>2. CASE \E r \in Requests : RequestStep(r) \/ RunNowThrows(r)
    BY <2>2 DEF RequestStep, RunNowEnqueues, RunNowSetsDue, RunNowThrows
  <2>3. CASE Restart
    BY <2>3 DEF Restart, NoTick, Recording
  <2> QED
    BY <2>1, <2>2, <2>3 DEF JobEnds, JobStrands, Advance, vars
<1> QED
  BY <1>2, <1>3, <1>4, AbreastFrom

(* A tick before it lists the schedules again. *)
LEMMA AbreastStarting ==
  ASSUME IInv, IInv', Abreast, NEW t \in Ticks,
         LoopFires(t) \/ TickChecks(t) \/ TickEnqueues(t) \/ TickReschedules(t) \/ TickSkips(t) \/ TickAborts(t)
  PROVE  Abreast' /\ StaysRecorded
<1>1. Stored /\ Jobs /\ Calls /\ tick[t] \in TickType
  BY TypesAre, TickHolds DEF IInv
<1>2. ended' = ended
  BY DEF LoopFires, TickChecks, TickEnqueues, TickReschedules, TickSkips, TickAborts, jobVars
<1>3. StaysRecorded
  <2>1. CASE TickReschedules(t)
    BY <1>1, <2>1 DEF TickReschedules, StaysRecorded, Stored, Row
  <2>2. CASE task' = task
    BY <2>2 DEF StaysRecorded
  <2> QED
    BY <2>1, <2>2 DEF LoopFires, TickChecks, TickEnqueues, TickSkips, TickAborts
<1>4. ASSUME NEW todo, Continue(t, todo)
      PROVE  tick'[t].at \notin Recording /\ \A u \in Ticks : u # t => tick'[u] = tick[u]
  BY <1>1, <1>4 DEF Continue, Calls, NoTick, Recording, TickType
<1>5. tick'[t].at \notin Recording /\ \A u \in Ticks : u # t => tick'[u] = tick[u]
  <2>1. CASE LoopFires(t)
    BY <1>1, <2>1 DEF LoopFires, Snapshot, NoTick, Recording, Calls
  <2>2. CASE TickChecks(t)
    <3>1. PICK s \in tick[t].todo : \/ Continue(t, tick[t].todo \ {s})
                                   \/ tick' = [tick EXCEPT ![t].at = "enqueue", ![t].cur = s]
      BY <2>2 DEF TickChecks
    <3>2. CASE tick' = [tick EXCEPT ![t].at = "enqueue", ![t].cur = s]
      BY <1>1, <3>2 DEF Calls, TickType, Recording
    <3> QED
      BY <1>4, <3>1, <3>2
  <2>3. CASE TickEnqueues(t)
    BY <1>1, <2>3 DEF TickEnqueues, Goto, Calls, TickType, Recording
  <2>4. CASE TickReschedules(t) \/ TickSkips(t)
    BY <1>4, <2>4 DEF TickReschedules, TickSkips
  <2>5. CASE TickAborts(t)
    BY <1>1, <2>5 DEF TickAborts, Calls, NoTick, Recording
  <2> QED
    BY <2>1, <2>2, <2>3, <2>4, <2>5
<1>6. \A s \in Schedules : ended'[s] >= ended[s]
  BY <1>1, <1>2 DEF Jobs
<1> QED
  BY <1>3, <1>5, <1>6, AbreastFrom

LEMMA ListsFollows ==
  ASSUME IInv, IInv', Abreast, NEW t \in Ticks, TickLists(t)
  PROVE  Abreast' /\ StaysRecorded
<1> DEFINE stored == {s \in Tasks : task[s].state = "present"}
           k == IF stored = {} THEN NoTick
                ELSE [tick[t] EXCEPT !.at = "read", !.todo = stored, !.rows = task]
<1>1. Jobs /\ Calls /\ tick[t] \in TickType
  BY TypesAre, TickHolds DEF IInv
<1>2. tick' = [tick EXCEPT ![t] = k] /\ task' = task /\ ended' = ended
  BY DEF TickLists, jobVars
<1>3. k.at = "idle" \/ (k.at = "read" /\ k.todo = stored /\ k.rows = task)
  BY <1>1 DEF TickType, NoTick
<1> HIDE DEF k
<1>4. tick'[t] = k /\ \A u \in Ticks : u # t => tick'[u] = tick[u]
  BY <1>1, <1>2 DEF Calls
<1>5. k.at \notin Recording \/ Follows(t)'
  BY <1>2, <1>3, <1>4 DEF Follows, Recording
<1>6. StaysRecorded /\ \A s \in Schedules : ended'[s] >= ended[s]
  BY <1>1, <1>2 DEF StaysRecorded, Jobs
<1> QED
  BY <1>4, <1>5, <1>6, AbreastFrom

(* The schedules that are left when one is done. *)
LEMMA NextFollows ==
  ASSUME IInv, Abreast, NEW t \in Ticks, tick[t].at \in Recording,
         NEW s, RecordNext(t, tick[t].todo \ {s}),
         \A x \in Tasks : x # s => task'[x] = task[x]
  PROVE  /\ tick'[t].at \notin Recording \/ Follows(t)'
         /\ \A u \in Ticks : u # t => tick'[u] = tick[u]
<1> DEFINE left == tick[t].todo \ {s}
           k == IF left = {} THEN NoTick
                ELSE [tick[t] EXCEPT !.at = "read", !.todo = left, !.cur = "none", !.now = Never]
<1>1. Calls /\ tick[t] \in TickType /\ Holds(tick[t]) /\ Follows(t)
  BY TypesAre, TickHolds DEF IInv, Abreast
<1>2. tick' = [tick EXCEPT ![t] = k]
  BY DEF RecordNext
<1>3. k.at = "idle" \/ (k.at = "read" /\ k.todo = left /\ k.rows = tick[t].rows)
  BY <1>1 DEF TickType, NoTick
<1> HIDE DEF k
<1>4. tick'[t] = k /\ \A u \in Ticks : u # t => tick'[u] = tick[u]
  BY <1>1, <1>2 DEF Calls
<1>5. ASSUME NEW x \in left
      PROVE  task'[x].state # "absent" /\ tick[t].rows[x].lastRunAt = task'[x].lastRunAt
  <2>1. x \in tick[t].todo /\ x \in Tasks /\ x # s
    BY <1>1 DEF Holds, Recording
  <2>2. task'[x] = task[x]
    BY <2>1
  <2> QED
    BY <1>1, <2>1, <2>2 DEF Follows
<1> HIDE DEF left
<1>6. tick'[t].at \notin Recording \/ Follows(t)'
  BY <1>3, <1>4, <1>5 DEF Follows, Recording
<1> QED
  BY <1>4, <1>6

LEMMA ReadsFollows ==
  ASSUME IInv, IInv', Abreast, NEW t \in Ticks, TickReads(t)
  PROVE  Abreast' /\ StaysRecorded
<1>1. /\ Jobs /\ Calls /\ tick[t] \in TickType /\ Holds(tick[t]) /\ Follows(t)
      /\ tick[t].at = "read"
  BY TypesAre, TickHolds DEF IInv, Abreast, TickReads
<1>2. task' = task /\ ended' = ended
  BY DEF TickReads, jobVars
<1>3. StaysRecorded /\ \A s \in Schedules : ended'[s] >= ended[s]
  BY <1>1, <1>2 DEF StaysRecorded, Jobs
<1>4. PICK s \in tick[t].todo :
        \/ /\ NewOutcome(t, s)
           /\ tick' = [tick EXCEPT ![t].at = "find", ![t].cur = s, ![t].now = ended[s]]
        \/ RecordNext(t, tick[t].todo \ {s})
  BY Zenon DEF TickReads
<1>5. CASE RecordNext(t, tick[t].todo \ {s})
  BY <1>1, <1>2, <1>3, <1>5, NextFollows, AbreastFrom DEF Recording
<1>6. CASE /\ NewOutcome(t, s)
           /\ tick' = [tick EXCEPT ![t].at = "find", ![t].cur = s, ![t].now = ended[s]]
  <2> DEFINE k == [tick[t] EXCEPT !.at = "find", !.cur = s, !.now = ended[s]]
  <2>1. tick' = [tick EXCEPT ![t] = k]
    BY <1>6
  <2>2. /\ k.at = "find" /\ k.cur = s /\ k.now = ended[s] /\ k.todo = tick[t].todo
        /\ k.rows = tick[t].rows
    BY <1>1 DEF TickType
  <2> HIDE DEF k
  <2>3. tick'[t] = k /\ \A u \in Ticks : u # t => tick'[u] = tick[u]
    BY <1>1, <2>1 DEF Calls
  <2>4. s \in Schedules /\ ended[s] \in Nat /\ ended[s] <= ended[s]
    BY <1>1, <1>4 DEF TickType, Jobs
  <2>5. tick[t].rows[s].lastRunAt < ended[s]
    <3>1. s \in Tasks
      BY <1>1, <1>4 DEF Holds
    <3>2. tick[t].rows[s].lastRunAt \in Nat
      BY <1>1, <3>1 DEF TickType, Row
    <3> QED
      BY <1>6, <2>4, <3>2 DEF NewOutcome
  <2>6. Follows(t)'
    BY <1>1, <1>2, <2>2, <2>3, <2>4, <2>5 DEF Follows, Recording
  <2> QED
    BY <1>3, <2>3, <2>6, AbreastFrom
<1> QED
  BY <1>4, <1>5, <1>6

LEMMA FindsFollows ==
  ASSUME IInv, IInv', Abreast, NEW t \in Ticks, TickFinds(t)
  PROVE  Abreast' /\ StaysRecorded
<1> DEFINE s == tick[t].cur
<1>1. /\ Jobs /\ Calls /\ tick[t] \in TickType /\ Holds(tick[t]) /\ Follows(t)
      /\ tick[t].at = "find"
  BY TypesAre, TickHolds DEF IInv, Abreast, TickFinds
<1>2. task' = task /\ ended' = ended
  BY DEF TickFinds, jobVars
<1>3. StaysRecorded /\ \A x \in Schedules : ended'[x] >= ended[x]
  BY <1>1, <1>2 DEF StaysRecorded, Jobs
<1>4. CASE RecordNext(t, tick[t].todo \ {s})
  BY <1>1, <1>2, <1>3, <1>4, NextFollows, AbreastFrom DEF Recording
<1>5. CASE tick' = [tick EXCEPT ![t].at = "write", ![t].rows[s] = task[s]]
  <2> DEFINE rows == [tick[t].rows EXCEPT ![s] = task[s]]
             k == [tick[t] EXCEPT !.at = "write", !.rows = rows]
  <2>1. s \in Tasks /\ s \in tick[t].todo /\ tick[t].todo \subseteq Tasks
    BY <1>1 DEF Holds
  <2>2. rows[s] = task[s] /\ \A x \in Tasks : x # s => rows[x] = tick[t].rows[x]
    BY <1>1, <2>1 DEF TickType
  <2>3. tick' = [tick EXCEPT ![t] = k]
    BY <1>5
  <2> HIDE DEF rows
  <2>4. /\ k.at = "write" /\ k.cur = s /\ k.now = tick[t].now /\ k.todo = tick[t].todo
        /\ k.rows = rows
    BY <1>1 DEF TickType
  <2> HIDE DEF k
  <2>5. tick'[t] = k /\ \A u \in Ticks : u # t => tick'[u] = tick[u]
    BY <1>1, <2>3 DEF Calls
  <2>6. /\ \A x \in tick[t].todo : task[x].state # "absent" /\ tick[t].rows[x].lastRunAt = task[x].lastRunAt
        /\ tick[t].rows[s].lastRunAt < tick[t].now /\ tick[t].now <= ended[s]
    BY <1>1 DEF Follows, Recording
  <2>7. /\ \A x \in tick[t].todo : task[x].state # "absent" /\ rows[x].lastRunAt = task[x].lastRunAt
        /\ rows[s].lastRunAt < tick[t].now
    BY <2>1, <2>2, <2>6
  <2> HIDE DEF s
  <2>8. Follows(t)'
    BY <1>2, <2>4, <2>5, <2>6, <2>7 DEF Follows
  <2> QED
    BY <1>3, <2>5, <2>8, AbreastFrom
<1> QED
  BY <1>4, <1>5 DEF TickFinds

(* The record is the only step that moves lastRunAt, and no other tick is  *)
(* there to be overtaken.                                                  *)
Recorded == \A s \in Tasks : task'[s].lastRunAt # task[s].lastRunAt =>
              task'[s].lastRunAt > task[s].lastRunAt /\ task'[s].lastRunAt <= ended[s]

LEMMA RecordsFollows ==
  ASSUME IInv, IInv', Abreast, \A t, u \in Ticks : t = u, NEW t \in Ticks, TickRecords(t)
  PROVE  Abreast' /\ Recorded
<1> DEFINE s == tick[t].cur
<1>1. /\ Stored /\ Jobs /\ Calls /\ tick[t] \in TickType /\ Holds(tick[t]) /\ Follows(t)
      /\ tick[t].at = "write" /\ RecordNext(t, tick[t].todo \ {s})
  BY TypesAre, TickHolds DEF IInv, Abreast, TickRecords
<1>2. s \in Tasks /\ s \in tick[t].todo
  BY <1>1 DEF Holds
<1>3. /\ task'[s].lastRunAt = tick[t].now /\ task'[s].state = task[s].state
      /\ \A x \in Tasks : x # s => task'[x] = task[x]
  BY <1>1, <1>2 DEF TickRecords, Stored, Row
<1>4. /\ task[s].state # "absent" /\ task[s].lastRunAt < tick[t].now /\ tick[t].now <= ended[s]
  BY <1>1, <1>2 DEF Follows, Recording
<1>5. task[s].lastRunAt \in Nat /\ tick[t].now \in Nat
  BY <1>1, <1>2 DEF Stored, Row, TickType
<1> HIDE DEF s
<1>6. Recorded
  BY <1>3, <1>4, <1>5 DEF Recorded
<1>7. tick'[t].at \notin Recording \/ Follows(t)'
  BY <1>1, <1>3, NextFollows DEF Recording
<1>8. ASSUME NEW u \in Ticks
      PROVE  Follows(u)'
  <2>1. u = t
    OBVIOUS
  <2>2. CASE tick'[t].at \notin Recording
    BY <2>1, <2>2 DEF Follows, Recording
  <2> QED
    BY <1>7, <2>1, <2>2
<1>9. \A x \in Tasks : task'[x].state = "absent" => task'[x].lastRunAt = Never
  BY <1>3, <1>4 DEF Abreast
<1> QED
  BY <1>6, <1>8, <1>9 DEF Abreast

LEMMA AbreastInitially == ASSUME Init PROVE Abreast
  BY DEF Init, Abreast, Follows, Recording, NoTick, Blank, Never

LEMMA AbreastSteps ==
  ASSUME IInv, IInv', Timely, Abreast, \A t, u \in Ticks : t = u, [Next]_vars
  PROVE  Abreast' /\ Recorded
<1>1. CASE Abreast' /\ StaysRecorded
  BY <1>1 DEF StaysRecorded, Recorded
<1>2. ASSUME NEW t \in Ticks, TickStep(t) \/ TickAborts(t)
      PROVE  Abreast' /\ Recorded
  BY <1>1, <1>2, AbreastStarting, ListsFollows, ReadsFollows, FindsFollows, RecordsFollows DEF TickStep
<1> QED
  BY <1>1, <1>2, AbreastElsewhere DEF Next

-----------------------------------------------------------------------------
(* The theorems. *)

LEMMA Initially == ASSUME Init PROVE IInv
<1>1. Stored /\ Jobs
  <2>1. Stored
    BY BlankIsRow, SchedulerAssumption DEF Init, Stored
  <2>2. Jobs
    BY DEF Init, Jobs, JobCounts, NoJobs, Never
  <2> QED
    BY <2>1, <2>2
<1>2. Calls /\ Ticking /\ Asking
  BY NoTickType, NoRequestType DEF Init, Calls, Ticking, Asking, NoRequest
<1>3. Room
  <2>1. \A s \in Schedules : InFlight(s) = 0 /\ About(s) = {}
    BY DEF Init, NoJobs, NoTick, InFlight, About
  <2>2. Cardinality(Ticks) \in Nat
    BY SchedulerAssumption, FS_CardinalityType
  <2> QED
    BY <2>1, <2>2, FS_EmptySet DEF Room
<1> QED
  BY <1>1, <1>2, <1>3, TypesAre DEF IInv

LEMMA Steps == ASSUME IInv, [Next]_vars PROVE IInv'
<1>1. CASE UserStep
  <2>1. CASE \E s \in Tasks : CreateSchedule(s) \/ PatchCron(s) \/ PatchEnabled(s) \/ DeleteSchedule(s)
    BY <2>1, EditKeeps
  <2>2. CASE \E r \in Requests, s \in Tasks : RunNow(r, s)
    BY <2>2, RunNowKeeps
  <2> QED
    BY <1>1, <2>1, <2>2 DEF UserStep
<1>2. ASSUME NEW t \in Ticks, TickStep(t) \/ TickAborts(t)
      PROVE  IInv'
  BY <1>2, LoopFiresKeeps, TickChecksKeeps, TickEnqueuesKeeps, TickReschedulesKeeps, TickSkipsKeeps,
     TickListsKeeps, TickReadsKeeps, TickFindsKeeps, TickRecordsKeeps, TickAbortsKeeps DEF TickStep
<1>3. ASSUME NEW r \in Requests, RequestStep(r) \/ RunNowThrows(r)
      PROVE  IInv'
  BY <1>3, RequestKeeps DEF RequestStep
<1>4. CASE UNCHANGED vars
  <2>1. Stored'
    BY <1>4, TypesAre DEF IInv, Stored, vars, time
  <2> QED
    BY <1>4, <2>1, StoreKeeps DEF vars, jobVars, time
<1> QED
  BY <1>1, <1>2, <1>3, <1>4, JobKeeps, RestartKeeps, AdvanceKeeps DEF Next

(* The inductive invariant. *)
THEOREM Inductive == Spec => []IInv
<1>1. Init => IInv
  BY Initially
<1>2. IInv /\ [Next]_vars => IInv'
  BY Steps
<1> QED
  BY <1>1, <1>2, PTL DEF Spec

(* Rows, counts, ticks and requests keep their types (scheduler.ts, tick.ts). *)
THEOREM TypeCorrect == Spec => []TypeOK
<1>1. IInv => TypeOK
  BY DEF IInv
<1> QED
  BY <1>1, Inductive, PTL

(* For any number of schedules, requests, edits, faults and restarts, the  *)
(* scheduler has no more jobs of a schedule in flight than ticks overlap:  *)
(* one, while a tick is quicker than the loop (tickSchedules).             *)
THEOREM OwnJobsBounded == Spec => []OwnJobsWithinTicks
<1>1. ASSUME IInv, NEW s \in Schedules
      PROVE  running[s].tick + stranded[s].tick <= Cardinality(Ticks)
  <2>1. InFlight(s) + Cardinality(About(s)) <= Cardinality(Ticks)
    BY <1>1 DEF IInv, Room
  <2>2. Cardinality(About(s)) \in Nat /\ Cardinality(Ticks) \in Nat
    BY AboutIsFinite, SchedulerAssumption, FS_CardinalityType
  <2>3. running[s].tick \in Nat /\ stranded[s].tick \in Nat
    BY <1>1, TypesAre DEF IInv, Jobs, JobCounts
  <2> QED
    BY <2>1, <2>2, <2>3 DEF InFlight
<1>2. IInv => OwnJobsWithinTicks
  BY <1>1 DEF OwnJobsWithinTicks
<1> QED
  BY <1>2, Inductive, PTL

LEMMA AlwaysTimely == Spec => []Timely
<1>1. Init => Timely
  BY TimelyInitially
<1>2. IInv /\ IInv' /\ Timely /\ [Next]_vars => Timely'
  BY TimelySteps
<1> QED
  BY <1>1, <1>2, Inductive, PTL DEF Spec

(* For any schedules, cron periods, edits, overlapping ticks, requests and *)
(* faults, no stored next run is later than a fire time to come: an instant *)
(* that a tick or a request holds is past, and a later instant's next fire *)
(* is no sooner (updateSchedule, nextFireTime).                            *)
THEOREM NothingPutOff == Spec => []NeverPutOff
<1>1. Timely => NeverPutOff
  BY DEF Timely, Fits, NeverPutOff
<1> QED
  BY <1>1, AlwaysTimely, PTL

(* While a tick ends before the next one starts, the outcomes of a schedule *)
(* are recorded in the order its jobs ended, for any number of schedules,  *)
(* edits, faults and restarts (recordOutcomes, recordScheduleOutcome).     *)
THEOREM OutcomesForward ==
  ASSUME \A t, u \in Ticks : t = u
  PROVE  Spec => OutcomesInOrder
<1>1. Init => Abreast
  BY AbreastInitially
<1>2. IInv /\ IInv' /\ Timely /\ Abreast /\ [Next]_vars => Abreast' /\ Recorded
  BY AbreastSteps
<1>3. IInv /\ IInv' /\ Timely /\ Abreast /\ [Next]_vars
        => [\A s \in Tasks : task'[s].lastRunAt # task[s].lastRunAt =>
              task'[s].lastRunAt > task[s].lastRunAt /\ task'[s].lastRunAt <= ended[s]]_vars
  BY <1>2 DEF Recorded
<1> QED
  BY <1>1, <1>2, <1>3, Inductive, AlwaysTimely, PTL DEF Spec, OutcomesInOrder
=============================================================================
