------------------------------ MODULE JobQueue ------------------------------
(***************************************************************************)
(* The in-process job queue of the portal backend (jobs/queue.ts) with the *)
(* part of the worker supervisor (jobs/supervisor.ts) that decides how a   *)
(* job settles.  JavaScript runs one callback at a time, so an action is   *)
(* the code between two awaits; every await on the persistence seam is a   *)
(* point where other callbacks run.  A persistState() or updateJobState()  *)
(* call is two actions: the write takes effect, then its caller resumes.   *)
(***************************************************************************)
EXTENDS Naturals, Sequences, FiniteSets, SequencesExt

CONSTANTS Jobs,       \* job envelopes that may be enqueued, each at most once
          Callers,    \* concurrent calls of cancel()
          PoolSize,   \* the normalized pool size
          MaxFaults,  \* how many calls of the persistence seam may reject
          NoJob       \* no job is being started

ASSUME JobQueueAssumption ==
  /\ IsFiniteSet(Jobs)
  /\ PoolSize \in Nat \ {0}
  /\ MaxFaults \in Nat
  /\ NoJob \notin Jobs

VARIABLES
  row,         \* row[j]: progress.queueState of the persisted job, or "absent"
  enqueue,     \* enqueue[j]: where the enqueue() call for j is
  waiting,     \* FIFO of accepted jobs
  pumpAt,      \* where the pump loop is; "idle" when no loop is scheduled
  starting,    \* the job startJob() is working on before it is active, or NoJob
  active,      \* the keys of the active map
  work,        \* work[j]: how far the worker call for j got
  verdict,     \* verdict[j]: the terminal state the worker call settled with
  unfinished,  \* jobs dequeued but not yet finished
  preempted,   \* jobs cancelled after dequeue but before the worker started
  call,        \* call[c]: a call of cancel()
  emitted,     \* emitted[j]: lifecycle events published for j, oldest first
  faults       \* persistence calls that have rejected so far

vars == <<row, enqueue, waiting, pumpAt, starting, active, work, verdict,
          unfinished, preempted, call, emitted, faults>>
pumpVars == <<waiting, pumpAt, starting, unfinished>>
workVars == <<active, work, verdict>>

-----------------------------------------------------------------------------
(* States. *)

Terminal    == {"succeeded", "failed", "cancelled"}
QueuedState == {"queued", "running"} \cup Terminal

EnqueueAt == {"new", "created", "accepted", "rejected"}
PumpAt    == {"idle", "persist", "persisted", "cancelling", "cancelled", "returned", "exit"}
WorkAt    == {"none", "running", "exited", "settled", "written", "reported", "lost", "done"}
ActiveAt  == {"running", "exited", "settled", "written", "reported", "lost"}
CallAt    == {"idle", "splice", "spliced", "read", "write", "mark", "done"}
CallVia   == {"none", "waiting", "active", "starting", "store"}
Answer    == {"none", "true", "false", "threw"}

emitLifecycle(j, state) == emitted' = [emitted EXCEPT ![j] = Append(@, state)]
write(j, state)         == row' = [row EXCEPT ![j] = state]

(* A call of the persistence seam rejects. *)
StoreRejects == faults < MaxFaults /\ faults' = faults + 1

Init ==
  /\ row = [j \in Jobs |-> "absent"]
  /\ enqueue = [j \in Jobs |-> "new"]
  /\ waiting = <<>>
  /\ pumpAt = "idle"
  /\ starting = NoJob
  /\ active = {}
  /\ work = [j \in Jobs |-> "none"]
  /\ verdict = [j \in Jobs |-> "none"]
  /\ unfinished = 0
  /\ preempted = {}
  /\ call = [c \in Callers |-> [at |-> "idle", job |-> NoJob, via |-> "none", answer |-> "none"]]
  /\ emitted = [j \in Jobs |-> <<>>]
  /\ faults = 0

-----------------------------------------------------------------------------
(* The pump. *)

(* Mutant: the while condition admits one worker too many. *)
HasSlotOffByOne(busy) == Cardinality(busy) <= PoolSize

HasSlot(busy) == Cardinality(busy) < PoolSize

(* Mutant: the loop looks at the oldest job without taking it out of line. *)
ShiftPeeks(line, open) ==
  waiting' = line /\ starting' = Head(line) /\ pumpAt' = "persist" /\ unfinished' = open + 1

(* The loop takes the oldest job in hand and calls startJob(). *)
Shift(line, open) ==
  waiting' = Tail(line) /\ starting' = Head(line) /\ pumpAt' = "persist" /\ unfinished' = open + 1

(* pumpLoop() from its while condition up to the next await, with `line`   *)
(* waiting, `busy` active and `open` jobs unfinished.                      *)
pumpLoop(line, busy, open) ==
  \/ HasSlot(busy) /\ line # <<>> /\ Shift(line, open)
  \/ /\ ~(HasSlot(busy) /\ line # <<>>)
     /\ waiting' = line
     /\ starting' = NoJob
     /\ pumpAt' = "exit"
     /\ unfinished' = open

(* schedulePump(): one loop at a time. *)
schedulePump(line, busy, open) ==
  \/ pumpAt = "idle" /\ pumpLoop(line, busy, open)
  \/ /\ pumpAt # "idle"
     /\ waiting' = line
     /\ unfinished' = open
     /\ UNCHANGED <<pumpAt, starting>>

(* The pump loop is resumed after startJob(). *)
PumpResumes ==
  /\ pumpAt = "returned"
  /\ pumpLoop(waiting, active, unfinished)
  /\ UNCHANGED <<row, enqueue, workVars, preempted, call, emitted, faults>>

(* Mutant: the finally callback does not look again. *)
PumpFinallyOnlyStops ==
  /\ pumpAt = "exit"
  /\ pumpAt' = "idle"
  /\ UNCHANGED <<waiting, starting, unfinished>>
  /\ UNCHANGED <<row, enqueue, workVars, preempted, call, emitted, faults>>

(* The finally callback of schedulePump(): look once more before stopping. *)
PumpFinally ==
  /\ pumpAt = "exit"
  /\ \/ /\ waiting # <<>> /\ HasSlot(active)
        /\ pumpLoop(waiting, active, unfinished)
     \/ /\ ~(waiting # <<>> /\ HasSlot(active))
        /\ pumpAt' = "idle"
        /\ UNCHANGED <<waiting, starting, unfinished>>
  /\ UNCHANGED <<row, enqueue, workVars, preempted, call, emitted, faults>>

-----------------------------------------------------------------------------
(* enqueue(). *)

(* createJob() stores the row. *)
CreateJob(j) ==
  /\ enqueue[j] = "new"
  /\ enqueue' = [enqueue EXCEPT ![j] = "created"]
  /\ write(j, "queued")
  /\ UNCHANGED <<pumpVars, workVars, preempted, call, emitted, faults>>

CreateJobRejects(j) ==
  /\ enqueue[j] = "new"
  /\ StoreRejects
  /\ enqueue' = [enqueue EXCEPT ![j] = "rejected"]
  /\ UNCHANGED <<row, pumpVars, workVars, preempted, call, emitted>>

(* enqueue() resumes: the job joins the line, is announced, and the pump runs. *)
Accept(j) ==
  /\ enqueue[j] = "created"
  /\ enqueue' = [enqueue EXCEPT ![j] = "accepted"]
  /\ emitLifecycle(j, "queued")
  /\ schedulePump(Append(waiting, j), active, unfinished)
  /\ UNCHANGED <<row, workVars, preempted, call, faults>>

-----------------------------------------------------------------------------
(* startJob(), called by the pump loop. *)

PersistRunning ==
  /\ pumpAt = "persist"
  /\ write(starting, "running")
  /\ pumpAt' = "persisted"
  /\ UNCHANGED <<enqueue, waiting, starting, unfinished, workVars, preempted, call, emitted, faults>>

(* Mutant: nobody looks whether the job was preempted before its worker is called. *)
StartWorkerAnyway ==
  /\ pumpAt = "persisted"
  /\ emitLifecycle(starting, "running")
  /\ active' = active \cup {starting}
  /\ work' = [work EXCEPT ![starting] = "running"]
  /\ starting' = NoJob
  /\ pumpAt' = "returned"
  /\ UNCHANGED <<row, enqueue, waiting, unfinished, verdict, preempted, call, faults>>

(* Nobody preempted the job: it becomes active and its worker is called.   *)
StartWorker ==
  /\ pumpAt = "persisted" /\ starting \notin preempted
  /\ emitLifecycle(starting, "running")
  /\ active' = active \cup {starting}
  /\ work' = [work EXCEPT ![starting] = "running"]
  /\ starting' = NoJob
  /\ pumpAt' = "returned"
  /\ UNCHANGED <<row, enqueue, waiting, unfinished, verdict, preempted, call, faults>>

(* Mutant: startJob() returns early without persisting the cancellation. *)
HonourPreemptionUnsaved ==
  /\ pumpAt = "persisted" /\ starting \in preempted
  /\ preempted' = preempted \ {starting}
  /\ pumpAt' = "cancelled"
  /\ UNCHANGED <<row, enqueue, waiting, starting, unfinished, workVars, call, emitted, faults>>

(* A cancel() got in first: the job is persisted as cancelled instead. *)
HonourPreemption ==
  /\ pumpAt = "persisted" /\ starting \in preempted
  /\ preempted' = preempted \ {starting}
  /\ pumpAt' = "cancelling"
  /\ UNCHANGED <<row, enqueue, waiting, starting, unfinished, workVars, call, emitted, faults>>

PersistPreempted ==
  /\ pumpAt = "cancelling"
  /\ write(starting, "cancelled")
  /\ pumpAt' = "cancelled"
  /\ UNCHANGED <<enqueue, waiting, starting, unfinished, workVars, preempted, call, emitted, faults>>

FinishPreempted ==
  /\ pumpAt = "cancelled"
  /\ emitLifecycle(starting, "cancelled")
  /\ unfinished' = unfinished - 1
  /\ starting' = NoJob
  /\ pumpAt' = "returned"
  /\ UNCHANGED <<row, enqueue, waiting, workVars, preempted, call, faults>>

(* Mutant: startJob() and the catch of pumpLoop() both count the job out. *)
StartJobRejectsTwice ==
  /\ pumpAt \in {"persist", "cancelling"}
  /\ StoreRejects
  /\ pumpLoop(waiting, active, unfinished - 2)
  /\ UNCHANGED <<row, enqueue, workVars, preempted, call, emitted>>

(* Mutant: the catch of pumpLoop() swallows the error and nothing else. *)
StartJobRejectsUncounted ==
  /\ pumpAt \in {"persist", "cancelling"}
  /\ StoreRejects
  /\ pumpLoop(waiting, active, unfinished)
  /\ UNCHANGED <<row, enqueue, workVars, preempted, call, emitted>>

(* A persist of startJob() rejects: pumpLoop() swallows it and goes on. *)
StartJobRejects ==
  /\ pumpAt \in {"persist", "cancelling"}
  /\ StoreRejects
  /\ pumpLoop(waiting, active, unfinished - 1)
  /\ UNCHANGED <<row, enqueue, workVars, preempted, call, emitted>>

-----------------------------------------------------------------------------
(* The worker call of an active job, and what follows once it settles. *)

(* The worker process exits by itself; its result is still to be read. *)
WorkerExits(j) ==
  /\ work[j] = "running"
  /\ work' = [work EXCEPT ![j] = "exited"]
  /\ UNCHANGED <<row, enqueue, pumpVars, active, verdict, preempted, call, emitted, faults>>

(* The worker cannot be spawned or runs into its timeout and is killed. *)
WorkerBreaks(j) ==
  /\ work[j] = "running"
  /\ work' = [work EXCEPT ![j] = "settled"]
  /\ verdict' = [verdict EXCEPT ![j] = "failed"]
  /\ UNCHANGED <<row, enqueue, pumpVars, active, preempted, call, emitted, faults>>

(* The result envelope decides; a missing or foreign one is a failure. *)
WorkerSettles(j) ==
  /\ work[j] = "exited"
  /\ work' = [work EXCEPT ![j] = "settled"]
  /\ \E t \in Terminal : verdict' = [verdict EXCEPT ![j] = t]
  /\ UNCHANGED <<row, enqueue, pumpVars, active, preempted, call, emitted, faults>>

PersistTerminal(j) ==
  /\ work[j] = "settled"
  /\ write(j, verdict[j])
  /\ work' = [work EXCEPT ![j] = "written"]
  /\ UNCHANGED <<enqueue, pumpVars, active, verdict, preempted, call, emitted, faults>>

(* Mutant: the rejection is swallowed before the event instead of after it. *)
PersistTerminalRejectsUnseen(j) ==
  /\ work[j] = "settled"
  /\ StoreRejects
  /\ work' = [work EXCEPT ![j] = "written"]
  /\ UNCHANGED <<row, enqueue, pumpVars, active, verdict, preempted, call, emitted>>

PersistTerminalRejects(j) ==
  /\ work[j] = "settled"
  /\ StoreRejects
  /\ work' = [work EXCEPT ![j] = "lost"]
  /\ UNCHANGED <<row, enqueue, pumpVars, active, verdict, preempted, call, emitted>>

EmitTerminal(j) ==
  /\ work[j] = "written"
  /\ emitLifecycle(j, verdict[j])
  /\ work' = [work EXCEPT ![j] = "reported"]
  /\ UNCHANGED <<row, enqueue, pumpVars, active, verdict, preempted, call, faults>>

(* Mutant: the slot is freed and the pump is not started. *)
ReleaseWithoutPump(j) ==
  /\ work[j] \in {"reported", "lost"}
  /\ work' = [work EXCEPT ![j] = "done"]
  /\ active' = active \ {j}
  /\ unfinished' = unfinished - 1
  /\ UNCHANGED <<row, enqueue, waiting, pumpAt, starting, verdict, preempted, call, emitted, faults>>

(* The finally callback of the worker call frees the slot and pumps. *)
Release(j) ==
  /\ work[j] \in {"reported", "lost"}
  /\ work' = [work EXCEPT ![j] = "done"]
  /\ active' = active \ {j}
  /\ schedulePump(waiting, active \ {j}, unfinished - 1)
  /\ UNCHANGED <<row, enqueue, verdict, preempted, call, emitted, faults>>

-----------------------------------------------------------------------------
(* cancel().  The caller knows the id before enqueue() has returned: the   *)
(* run row carries it.                                                     *)

Reply(c, answer) ==
  call' = [call EXCEPT ![c] = [at |-> "done", job |-> @.job, via |-> @.via, answer |-> answer]]
Goto(c, at) == call' = [call EXCEPT ![c].at = at]

(* Mutant: the job is found in line and left there. *)
CancelWaitingKeepsPlace(c, j) ==
  /\ call[c].at = "idle"
  /\ Contains(waiting, j)
  /\ call' = [call EXCEPT ![c] = [at |-> "splice", job |-> j, via |-> "waiting", answer |-> "none"]]
  /\ UNCHANGED <<row, enqueue, pumpVars, workVars, preempted, emitted, faults>>

(* A waiting job is taken out of the line at once. *)
CancelWaiting(c, j) ==
  /\ call[c].at = "idle"
  /\ \E i \in 1..Len(waiting) : waiting[i] = j /\ waiting' = RemoveAt(waiting, i)
  /\ call' = [call EXCEPT ![c] = [at |-> "splice", job |-> j, via |-> "waiting", answer |-> "none"]]
  /\ UNCHANGED <<row, enqueue, pumpAt, starting, unfinished, workVars, preempted, emitted, faults>>

PersistWithdrawn(c) ==
  /\ call[c].at = "splice"
  /\ write(call[c].job, "cancelled")
  /\ Goto(c, "spliced")
  /\ UNCHANGED <<enqueue, pumpVars, workVars, preempted, emitted, faults>>

ReplyWithdrawn(c) ==
  /\ call[c].at = "spliced"
  /\ emitLifecycle(call[c].job, "cancelled")
  /\ Reply(c, "true")
  /\ UNCHANGED <<row, enqueue, pumpVars, workVars, preempted, faults>>

(* An active job's signal is aborted: the supervisor kills the worker and  *)
(* rejects with JobCancelledError unless the worker already exited.        *)
CancelActive(c, j) ==
  /\ call[c].at = "idle"
  /\ j \in active
  /\ \/ /\ work[j] = "running"
        /\ work' = [work EXCEPT ![j] = "settled"]
        /\ verdict' = [verdict EXCEPT ![j] = "cancelled"]
     \/ /\ work[j] # "running"
        /\ UNCHANGED <<work, verdict>>
  /\ call' = [call EXCEPT ![c] = [at |-> "done", job |-> j, via |-> "active", answer |-> "true"]]
  /\ UNCHANGED <<row, enqueue, pumpVars, active, preempted, emitted, faults>>

(* Anything else is looked up in the store. *)
CancelStored(c, j) ==
  /\ call[c].at = "idle"
  /\ ~Contains(waiting, j) /\ j \notin active
  /\ call' = [call EXCEPT ![c] =
       [at |-> "read", job |-> j, via |-> IF starting = j THEN "starting" ELSE "store", answer |-> "none"]]
  /\ UNCHANGED <<row, enqueue, pumpVars, workVars, preempted, emitted, faults>>

ReadStored(c) ==
  /\ call[c].at = "read"
  /\ \/ row[call[c].job] = "queued" /\ Goto(c, "write")
     \/ row[call[c].job] # "queued" /\ Reply(c, "false")
  /\ UNCHANGED <<row, enqueue, pumpVars, workVars, preempted, emitted, faults>>

WriteStored(c) ==
  /\ call[c].at = "write"
  /\ write(call[c].job, "cancelled")
  /\ Goto(c, "mark")
  /\ UNCHANGED <<enqueue, pumpVars, workVars, preempted, emitted, faults>>

MarkPreempted(c) ==
  /\ call[c].at = "mark"
  /\ preempted' = preempted \cup {call[c].job}
  /\ Reply(c, "true")
  /\ UNCHANGED <<row, enqueue, pumpVars, workVars, emitted, faults>>

CancelThrows(c) ==
  /\ call[c].at \in {"splice", "read", "write"}
  /\ StoreRejects
  /\ Reply(c, "threw")
  /\ UNCHANGED <<row, enqueue, pumpVars, workVars, preempted, emitted>>

-----------------------------------------------------------------------------
PumpStep == \/ PumpResumes \/ PumpFinally \/ PersistRunning \/ StartWorker
            \/ HonourPreemption \/ PersistPreempted \/ FinishPreempted

(* The worker's way from its call to the release of its slot. *)
WorkStep(j) == \/ WorkerExits(j) \/ WorkerBreaks(j) \/ WorkerSettles(j)
               \/ PersistTerminal(j) \/ EmitTerminal(j) \/ Release(j)

(* A cancel() call, once made, runs to its answer. *)
CallStep(c) == \/ PersistWithdrawn(c) \/ ReplyWithdrawn(c)
               \/ ReadStored(c) \/ WriteStored(c) \/ MarkPreempted(c)

StoreFault == \/ StartJobRejects
              \/ \E j \in Jobs : CreateJobRejects(j) \/ PersistTerminalRejects(j)
              \/ \E c \in Callers : CancelThrows(c)

UserStep == \/ \E j \in Jobs : CreateJob(j)
            \/ \E c \in Callers, j \in Jobs :
                 CancelWaiting(c, j) \/ CancelActive(c, j) \/ CancelStored(c, j)

Next == \/ UserStep
        \/ PumpStep
        \/ \E j \in Jobs : Accept(j) \/ WorkStep(j)
        \/ \E c \in Callers : CallStep(c)
        \/ StoreFault

(* Pending callbacks run and the persistence calls settle; a worker settles *)
(* because its timeout kills it.  Users need not enqueue or cancel.         *)
Fairness == /\ WF_vars(PumpStep)
            /\ \A j \in Jobs : WF_vars(Accept(j)) /\ WF_vars(WorkStep(j))
            /\ \A c \in Callers : WF_vars(CallStep(c))

Spec     == Init /\ [][Next]_vars
FairSpec == Spec /\ Fairness
-----------------------------------------------------------------------------
(* Properties. *)

TypeOK ==
  /\ row \in [Jobs -> {"absent"} \cup QueuedState]
  /\ enqueue \in [Jobs -> EnqueueAt]
  /\ waiting \in Seq(Jobs)
  /\ pumpAt \in PumpAt
  /\ starting \in Jobs \cup {NoJob}
  /\ active \subseteq Jobs
  /\ work \in [Jobs -> WorkAt]
  /\ verdict \in [Jobs -> {"none"} \cup Terminal]
  /\ unfinished \in Nat
  /\ preempted \subseteq Jobs
  /\ call \in [Callers -> [at : CallAt, job : Jobs \cup {NoJob}, via : CallVia, answer : Answer]]
  /\ emitted \in [Jobs -> Seq(QueuedState)]
  /\ faults \in Nat

(* The pool never runs more workers than it has slots, although startJob() *)
(* registers a job as active only two awaits after the pump saw a free     *)
(* slot and several code paths start the pump.                             *)
PoolBound == Cardinality(active) <= PoolSize

(* `unfinished`, which drain() trusts, counts the active jobs and the one  *)
(* being started, whichever of the six ways a job leaves the queue.        *)
UnfinishedCounts ==
  unfinished = Cardinality(active) + (IF starting = NoJob THEN 0 ELSE 1)

(* No lost wakeup: while a job waits and a slot is free, a pump loop is    *)
(* scheduled, also when the slot was freed while the last loop was ending. *)
NoLostWakeup ==
  waiting # <<>> /\ Cardinality(active) < PoolSize => pumpAt # "idle"

(* A job is in one place: once in line, or being started, or active, and   *)
(* so its worker is never called twice.                                    *)
OneHome ==
  /\ \A i, k \in 1..Len(waiting) : waiting[i] = waiting[k] => i = k
  /\ \A i \in 1..Len(waiting) : work[waiting[i]] = "none" /\ waiting[i] # starting
  /\ starting # NoJob => work[starting] = "none"
  /\ \A j \in Jobs : j \in active <=> work[j] \in ActiveAt

(* A job that cancel() took out of the line is never handed to a worker.   *)
WithdrawnNeverRuns ==
  \A c \in Callers : call[c].via = "waiting" =>
    work[call[c].job] = "none" /\ starting # call[c].job

(* A job that cancel() marks before its worker starts never runs: not when *)
(* it is marked before it has joined the line, nor when the write of its   *)
(* start rejects, nor once startJob() has taken the mark off again and the *)
(* write of the cancellation rejects.                                      *)
PreemptedNeverRuns ==
  \A j \in Jobs : [](j \in preempted /\ work[j] = "none" => [](work[j] = "none"))

(* While no persistence call has rejected, a row that says queued or       *)
(* running has an owner in this process that will move it on: no job is    *)
(* stranded, whatever cancel() and startJob() do to each other.            *)
NoOrphan ==
  faults = 0 => \A j \in Jobs : row[j] \in {"queued", "running"} =>
    \/ enqueue[j] = "created" \/ Contains(waiting, j) \/ starting = j \/ j \in active
    \/ \E c \in Callers : call[c].at = "splice" /\ call[c].job = j

(* What a job's watchers were told last is what its row says for good, although *)
(* cancel() writes to a row that it read before two awaits: the one thing  *)
(* that can differ is a row turned to cancelled by such a call, which then *)
(* answers true.                                                           *)
Ended(j) == emitted[j] # <<>> /\ Last(emitted[j]) \in Terminal
LateCancel(j) == \E c \in Callers :
  /\ call[c].job = j /\ call[c].via \in {"starting", "store"}
  /\ call[c].at = "mark" \/ call[c].answer = "true"
RowTellsTheEnd ==
  \A j \in Jobs : Ended(j) /\ row[j] # Last(emitted[j]) => row[j] = "cancelled" /\ LateCancel(j)

(* The published events implement the lifecycle that subscribers rely on:  *)
(* one start and one end per job, never more running than PoolSize, and a  *)
(* queue that moves on, losing a job only to a rejected persistence call.  *)
InQueue(j) == Contains(waiting, j) \/ starting = j \/ j \in active
Withdrawing(j) == \E c \in Callers : call[c].at \in {"splice", "spliced"} /\ call[c].job = j
announced(j) ==
  IF emitted[j] = <<>> THEN "unknown"
  ELSE IF Last(emitted[j]) \in Terminal \/ InQueue(j) \/ Withdrawing(j) THEN Last(emitted[j])
  ELSE "lost"
Lifecycle == INSTANCE JobLifecycle WITH
  life <- [j \in Jobs |-> announced(j)], MayLose <- MaxFaults > 0
ImplementsLifecycle == Lifecycle!Spec

(* The test "honors cancel while a job is starting": when cancel() is told *)
(* to cancel a dequeued job before its worker started, and answers true,   *)
(* the worker never starts.                                                *)
CancelWhileStartingIsHonoured ==
  \A c \in Callers :
    call[c].via = "starting" /\ call[c].answer = "true" => work[call[c].job] = "none"

(* The 409 of the cancel route: cancel() answers false only for a job that *)
(* is over, or that was never stored.                                      *)
RefusedOnlyWhenOver ==
  [][\A c \in Callers : call[c].answer = "none" /\ call'[c].answer = "false" =>
       row[call[c].job] \in {"absent"} \cup Terminal]_vars

(* The comment on drain(): once it resolves, every accepted job has a      *)
(* persisted terminal state.                                               *)
Drained == waiting = <<>> /\ unfinished = 0
DrainedMeansTerminal ==
  Drained => \A j \in Jobs : enqueue[j] = "accepted" => row[j] \in Terminal
=============================================================================
