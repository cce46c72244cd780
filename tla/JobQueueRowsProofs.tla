------------------------ MODULE JobQueueRowsProofs ------------------------
(***************************************************************************)
(* Theorems about JobQueue that relate the persisted rows and the          *)
(* published events to the queue, for every set of jobs, any callers, any  *)
(* pool size and any number of rejected persistence calls: what rows say,  *)
(* and that the events implement JobLifecycle.  The invariants RInv and    *)
(* FInv are inductive relative to IInv of JobQueueProofs.                  *)
(***************************************************************************)
EXTENDS JobQueueProofs

-----------------------------------------------------------------------------
(* The inductive invariant. *)

Owner(j) == \/ enqueue[j] = "created" \/ Contains(waiting, j) \/ starting = j \/ j \in active
            \/ \E c \in Callers : call[c].at = "splice" /\ call[c].job = j
Owned(j) == faults = 0 /\ row[j] \in {"queued", "running"} => Owner(j)

(* The row says what is to be told, or a late cancel() has turned it.      *)
RowSays(j, state) == row[j] = state \/ (row[j] = "cancelled" /\ LateCancel(j))

(* Who is about to publish a job's end, or has just done it, has written it. *)
Saved(j) ==
  /\ work[j] = "written" => RowSays(j, verdict[j])
  /\ work[j] \in {"written", "reported"} => row[j] \in Terminal
  /\ work[j] = "lost" => faults > 0

(* A job that cannot have been told to be over yet, by where it is; and    *)
(* one that was taken out of the line can only end as cancelled.           *)
UnderWay(j) == \/ enqueue[j] # "accepted" \/ Contains(waiting, j) \/ starting = j
               \/ work[j] \in {"running", "exited", "settled", "written"}
Told(j) == /\ Ended(j) => RowSays(j, Last(emitted[j]))
           /\ UnderWay(j) => ~Ended(j)
           /\ \A c \in Callers : call[c].via = "waiting" /\ call[c].job = j /\ Ended(j) =>
                Last(emitted[j]) = "cancelled"

(* A cancel() call goes one way or the other, and is over when it answers. *)
OneWay(c) ==
  /\ call[c].at \in {"splice", "spliced"} => call[c].via = "waiting"
  /\ call[c].at \in {"read", "write", "mark"} => call[c].via \in {"starting", "store"}
  /\ call[c].answer # "none" => call[c].at = "done"
  /\ call[c].at = "spliced" => row[call[c].job] = "cancelled"

Preempted == pumpAt = "cancelled" => row[starting] = "cancelled"

RInv == /\ \A j \in Jobs : Owned(j) /\ Saved(j) /\ Told(j)
        /\ \A c \in Callers : OneWay(c)
        /\ Preempted

-----------------------------------------------------------------------------
(* Lemmas about the line and the events. *)

(* pumpLoop() drops nobody: who was in line stays there or is in hand.     *)
LEMMA PumpLoopHolds ==
  ASSUME NEW line \in Seq(Jobs), NEW busy, NEW open, pumpLoop(line, busy, open), NEW j
  PROVE  /\ Contains(line, j) => starting' = j \/ Contains(waiting', j)
         /\ Contains(waiting', j) \/ (starting' = j /\ j # NoJob) => Contains(line, j)
         /\ pumpAt' \in {"persist", "exit"}
<1>1. CASE HasSlot(busy) /\ line # <<>> /\ Shift(line, open)
  <2>1. waiting' = Tail(line) /\ starting' = Head(line) /\ pumpAt' = "persist"
    BY <1>1 DEF Shift
  <2>2. /\ Len(Tail(line)) = Len(line) - 1
        /\ \A i \in 1 .. Len(line) - 1 : Tail(line)[i] = line[i + 1]
        /\ Head(line) = line[1] /\ Len(line) \in Nat /\ Len(line) > 0
    BY <1>1
  <2>3. ASSUME NEW i \in 1 .. Len(line), line[i] # Head(line)
        PROVE  i - 1 \in 1 .. Len(Tail(line)) /\ Tail(line)[i - 1] = line[i]
    BY <2>2, <2>3
  <2>4. \A i \in 1 .. Len(Tail(line)) : i + 1 \in 1 .. Len(line) /\ Tail(line)[i] = line[i + 1]
    BY <2>2
  <2>5. 1 \in 1 .. Len(line)
    BY <2>2
  <2> QED
    BY <2>1, <2>2, <2>3, <2>4, <2>5 DEF Contains
<1>2. CASE waiting' = line /\ starting' = NoJob /\ pumpAt' = "exit"
  BY <1>2 DEF Contains
<1> QED
  BY <1>1, <1>2 DEF pumpLoop

(* Nor does schedulePump(), and the job in hand stays there. *)
LEMMA SchedulePumpHolds ==
  ASSUME IInv, NEW line \in Seq(Jobs), NEW busy, NEW open, schedulePump(line, busy, open), NEW j \in Jobs
  PROVE  /\ Contains(line, j) => starting' = j \/ Contains(waiting', j)
         /\ Contains(waiting', j) => Contains(line, j)
         /\ starting' = j => starting = j \/ Contains(line, j)
         /\ starting = j => starting' = j
         /\ pumpAt' = pumpAt \/ pumpAt' \in {"persist", "exit"}
         /\ pumpAt' = pumpAt => starting' = starting
<1>1. j # NoJob
  BY JobQueueAssumption
<1>2. CASE pumpAt = "idle" /\ pumpLoop(line, busy, open)
  <2>1. starting = NoJob
    BY <1>2 DEF IInv, Books, Handling
  <2> QED
    BY <1>1, <1>2, <2>1, PumpLoopHolds
<1>3. CASE pumpAt # "idle" /\ waiting' = line /\ UNCHANGED <<pumpAt, starting>>
  BY <1>3
<1> QED
  BY <1>2, <1>3 DEF schedulePump

(* splice(index, 1) takes one job out of the line and no other.            *)
LEMMA SplicedLine ==
  ASSUME NEW line \in Seq(Jobs), NEW i \in 1 .. Len(line), NEW j
  PROVE  /\ Contains(RemoveAt(line, i), j) => Contains(line, j)
         /\ Contains(line, j) /\ j # line[i] => Contains(RemoveAt(line, i), j)
<1>1. /\ Len(line) \in Nat /\ Len(RemoveAt(line, i)) = Len(line) - 1
      /\ \A k \in 1 .. (Len(line) - 1) : RemoveAt(line, i)[k] = IF k < i THEN line[k] ELSE line[k + 1]
  BY RemoveAtElements
<1>2. ASSUME NEW k \in 1 .. Len(RemoveAt(line, i))
      PROVE  \E m \in 1 .. Len(line) : line[m] = RemoveAt(line, i)[k]
  BY <1>1
<1>3. ASSUME NEW m \in 1 .. Len(line), m # i
      PROVE  \E k \in 1 .. Len(RemoveAt(line, i)) : RemoveAt(line, i)[k] = line[m]
  <2>1. CASE m < i
    BY <1>1, <2>1
  <2>2. CASE m > i
    <3>1. m - 1 \in 1 .. (Len(line) - 1) /\ ~(m - 1 < i) /\ (m - 1) + 1 = m
      BY <1>1, <2>2
    <3> QED
      BY <1>1, <3>1
  <2> QED
    BY <1>1, <1>3, <2>1, <2>2
<1> QED
  BY <1>2, <1>3 DEF Contains

(* What was published last. *)
LEMMA LastEmitted ==
  ASSUME IInv, NEW j \in Jobs, NEW state \in QueuedState, emitLifecycle(j, state)
  PROVE  /\ emitted'[j] # <<>> /\ Last(emitted'[j]) = state
         /\ \A k \in Jobs : k # j => emitted'[k] = emitted[k]
<1>1. emitted[j] \in Seq(QueuedState) /\ emitted' = [emitted EXCEPT ![j] = Append(@, state)]
  BY DEF IInv, TypeOK, emitLifecycle
<1>2. emitted'[j] = Append(emitted[j], state)
  BY <1>1 DEF IInv, TypeOK
<1>3. Len(Append(emitted[j], state)) = Len(emitted[j]) + 1 /\ Len(emitted[j]) \in Nat
      /\ Append(emitted[j], state)[Len(emitted[j]) + 1] = state
  BY <1>1
<1>4. Append(emitted[j], state) # <<>>
  BY <1>3
<1> QED
  BY <1>1, <1>2, <1>3, <1>4 DEF IInv, TypeOK, Last

(* A call that answered or marked keeps doing so. *)
LEMMA LateCancelStays ==
  ASSUME RInv, NEW j,
         \A c \in Callers :
           \/ call'[c] = call[c]
           \/ call[c].at \notin {"mark", "done"}
           \/ call[c].at = "mark" /\ call'[c].answer = "true"
              /\ call'[c].job = call[c].job /\ call'[c].via = call[c].via
  PROVE  LateCancel(j) => LateCancel(j)'
BY DEF RInv, OneWay, LateCancel

-----------------------------------------------------------------------------
(* Each action keeps RInv. *)

(* The pump looks at the line.  It drops nobody, unless startJob() rejected. *)
LEMMA PumpMoves ==
  ASSUME IInv, RInv, faults' \in Nat, faults' >= faults,
         UNCHANGED <<row, enqueue, workVars, preempted, call, emitted>>,
         \A j \in Jobs :
           /\ Contains(waiting, j) => starting' = j \/ Contains(waiting', j)
           /\ starting = j => starting' = j \/ faults' > 0
           /\ starting' = j \/ Contains(waiting', j) => starting = j \/ Contains(waiting, j),
         pumpAt' # "cancelled"
  PROVE  RInv'
<1> USE DEF workVars
<1>1. \A j \in Jobs : Owned(j)'
  BY DEF RInv, Owned, Owner, IInv, TypeOK
<1>2. \A j \in Jobs : Saved(j)' /\ Told(j)'
  BY DEF RInv, Saved, Told, RowSays, LateCancel, UnderWay, Ended, IInv, TypeOK
<1>3. \A c \in Callers : OneWay(c)'
  BY DEF RInv, OneWay
<1> QED
  BY <1>1, <1>2, <1>3 DEF RInv, Preempted

(* The loop goes on with nothing in hand, or gives up what it had. *)
LEMMA LoopMoves ==
  ASSUME IInv, RInv, PumpResumes \/ PumpFinally \/ StartJobRejects
  PROVE  RInv'
<1>1. waiting \in Seq(Jobs) /\ faults \in Nat /\ NoJob \notin Jobs
  BY JobQueueAssumption DEF IInv, TypeOK
<1>2. ASSUME NEW open, pumpLoop(waiting, active, open),
             UNCHANGED <<row, enqueue, workVars, preempted, call, emitted>>,
             \/ starting = NoJob /\ faults' = faults
             \/ faults' = faults + 1
      PROVE  RInv'
  <2>1. \A j \in Jobs :
          /\ Contains(waiting, j) => starting' = j \/ Contains(waiting', j)
          /\ starting = j => starting' = j \/ faults' > 0
          /\ starting' = j \/ Contains(waiting', j) => starting = j \/ Contains(waiting, j)
    BY <1>1, <1>2, PumpLoopHolds
  <2>2. pumpAt' # "cancelled"
    <3>1. pumpAt' \in {"persist", "exit"}
      BY <1>1, <1>2, PumpLoopHolds
    <3> QED
      BY <3>1
  <2>3. faults' \in Nat /\ faults' >= faults
    BY <1>1, <1>2
  <2> QED
    BY <1>2, <2>1, <2>2, <2>3, PumpMoves
<1>3. CASE PumpResumes
  <2>1. starting = NoJob
    BY <1>3 DEF PumpResumes, IInv, Books, Handling
  <2> QED
    BY <1>2, <1>3, <2>1 DEF PumpResumes
<1>4. CASE PumpFinally
  <2>1. starting = NoJob
    BY <1>4 DEF PumpFinally, IInv, Books, Handling
  <2>2. CASE pumpLoop(waiting, active, unfinished)
    BY <1>2, <1>4, <2>1, <2>2 DEF PumpFinally
  <2>3. CASE pumpAt' = "idle" /\ UNCHANGED <<waiting, starting, unfinished>>
    BY <1>1, <1>4, <2>3, PumpMoves DEF PumpFinally
  <2> QED
    BY <1>4, <2>2, <2>3 DEF PumpFinally
<1>5. CASE StartJobRejects
  BY <1>2, <1>5 DEF StartJobRejects, StoreRejects
<1> QED
  BY <1>3, <1>4, <1>5

(* enqueue() puts its job in line. *)
LEMMA AcceptRows ==
  ASSUME IInv, RInv, NEW j \in Jobs, Accept(j)
  PROVE  RInv'
<1> USE DEF Accept, workVars
<1>1. waiting \in Seq(Jobs) /\ Append(waiting, j) \in Seq(Jobs) /\ j # NoJob
  BY JobQueueAssumption DEF IInv, TypeOK
<1>2. \A k : Contains(Append(waiting, j), k) <=> Contains(waiting, k) \/ k = j
  <2>1. Len(waiting) \in Nat /\ Len(Append(waiting, j)) = Len(waiting) + 1
        /\ Append(waiting, j)[Len(waiting) + 1] = j
        /\ \A i \in 1 .. Len(waiting) : Append(waiting, j)[i] = waiting[i]
    BY <1>1
  <2> QED
    BY <2>1 DEF Contains
<1>3. \A k \in Jobs :
        /\ Contains(waiting, k) \/ k = j => starting' = k \/ Contains(waiting', k)
        /\ starting = k => starting' = k
        /\ starting' = k \/ Contains(waiting', k) => starting = k \/ Contains(waiting, k) \/ k = j
  BY <1>1, <1>2, SchedulePumpHolds
<1>4. pumpAt' = "cancelled" => pumpAt = "cancelled" /\ starting' = starting
  BY <1>1, SchedulePumpHolds
<1>5. /\ emitted'[j] # <<>> /\ Last(emitted'[j]) = "queued"
      /\ \A k \in Jobs : k # j => emitted'[k] = emitted[k]
  BY LastEmitted DEF QueuedState
<1>6. \A k \in Jobs : Owned(k)'
  BY <1>3 DEF RInv, Owned, Owner, IInv, TypeOK
<1>7. \A k \in Jobs : Saved(k)'
  BY DEF RInv, Saved, RowSays, LateCancel
<1>8. \A k \in Jobs : Told(k)'
  <2>1. ~Ended(j)'
    BY <1>5 DEF Ended, Terminal
  <2> QED
    BY <1>3, <1>5, <2>1 DEF RInv, Told, RowSays, LateCancel, UnderWay, Ended, IInv, TypeOK
<1>9. (\A c \in Callers : OneWay(c)') /\ Preempted'
  BY <1>4 DEF RInv, OneWay, Preempted
<1> QED
  BY <1>6, <1>7, <1>8, <1>9 DEF RInv

(* The slot of a job whose end is written, or was lost, is freed. *)
LEMMA ReleaseRows ==
  ASSUME IInv, RInv, NEW j \in Jobs, Release(j)
  PROVE  RInv'
<1> USE DEF Release
<1>1. waiting \in Seq(Jobs) /\ faults \in Nat
  BY DEF IInv, TypeOK
<1>2. \A k \in Jobs :
        /\ Contains(waiting, k) => starting' = k \/ Contains(waiting', k)
        /\ starting = k => starting' = k
        /\ starting' = k \/ Contains(waiting', k) => starting = k \/ Contains(waiting, k)
  BY <1>1, SchedulePumpHolds
<1>3. pumpAt' = "cancelled" => pumpAt = "cancelled" /\ starting' = starting
  <2>1. pumpAt' = pumpAt \/ pumpAt' \in {"persist", "exit"}
    BY <1>1, SchedulePumpHolds
  <2>2. pumpAt' = pumpAt => starting' = starting
    BY <1>1, SchedulePumpHolds
  <2> QED
    BY <2>1, <2>2
<1>4. row[j] \in Terminal \/ faults > 0
  BY DEF RInv, Saved
<1>5. \A k \in Jobs : Owned(k)'
  BY <1>1, <1>2, <1>4 DEF RInv, Owned, Owner, Terminal
<1>6. \A k \in Jobs : Saved(k)' /\ Told(k)'
  BY <1>2 DEF RInv, Saved, Told, RowSays, LateCancel, UnderWay, Ended, IInv, TypeOK
<1>7. (\A c \in Callers : OneWay(c)') /\ Preempted'
  BY <1>3 DEF RInv, OneWay, Preempted
<1> QED
  BY <1>5, <1>6, <1>7 DEF RInv

(* Writes of a job's row by those who own it: createJob() and startJob(). *)
LEMMA WriteRows ==
  ASSUME IInv, RInv, PersistRunning \/ PersistPreempted \/ (\E j \in Jobs : CreateJob(j))
  PROVE  RInv'
<1> USE DEF write, pumpVars, workVars
<1>1. PICK j \in Jobs :
        /\ UnderWay(j) /\ work[j] = "none" /\ enqueue[j] # "rejected"
        /\ \/ row' = [row EXCEPT ![j] = "queued"] /\ enqueue[j] = "new" /\ pumpAt' = pumpAt
              /\ enqueue' = [enqueue EXCEPT ![j] = "created"]
           \/ row' = [row EXCEPT ![j] = "running"] /\ j = starting /\ pumpAt' = "persisted" /\ UNCHANGED enqueue
           \/ row' = [row EXCEPT ![j] = "cancelled"] /\ j = starting /\ pumpAt' = "cancelled" /\ UNCHANGED enqueue
        /\ UNCHANGED <<waiting, starting, active, work, verdict, preempted, call, emitted, faults>>
  <2>1. CASE PersistRunning \/ PersistPreempted
    <3>1. starting \in Jobs /\ work[starting] = "none" /\ enqueue[starting] = "accepted"
      BY <2>1 DEF PersistRunning, PersistPreempted, IInv, Books, Placed, Handling
    <3> QED
      BY <2>1, <3>1 DEF PersistRunning, PersistPreempted, UnderWay
  <2>2. ASSUME NEW j \in Jobs, CreateJob(j)
        PROVE  /\ UnderWay(j) /\ work[j] = "none" /\ enqueue[j] = "new" /\ pumpAt' = pumpAt
               /\ row' = [row EXCEPT ![j] = "queued"] /\ enqueue' = [enqueue EXCEPT ![j] = "created"]
               /\ UNCHANGED <<waiting, starting, active, work, verdict, preempted, call, emitted, faults>>
    BY <2>2 DEF CreateJob, IInv, Placed, TypeOK, WorkAt, UnderWay
  <2> QED
    BY <2>1, <2>2
<1>2. \A k \in Jobs : k # j => row'[k] = row[k]
  BY <1>1 DEF IInv, TypeOK
<1>3. \A k \in Jobs : Owned(k)'
  BY <1>1, <1>2 DEF RInv, Owned, Owner, IInv, TypeOK
<1>4. \A k \in Jobs : Saved(k)'
  BY <1>1, <1>2 DEF RInv, Saved, RowSays, LateCancel
<1>5. \A k \in Jobs : Told(k)'
  BY <1>1, <1>2 DEF RInv, Told, RowSays, LateCancel, UnderWay, Ended, IInv, TypeOK
<1>6. \A c \in Callers : OneWay(c)'
  <2>1. ASSUME NEW c \in Callers, call[c].at = "spliced"
        PROVE  call[c].job # j
    BY <1>1, <2>1 DEF IInv, Called, RInv, OneWay
  <2> QED
    BY <1>1, <1>2, <2>1 DEF RInv, OneWay, IInv, Called
<1>7. Preempted'
  BY <1>1, <1>2 DEF RInv, Preempted, IInv, Books, Handling, Placed, TypeOK
<1> QED
  BY <1>3, <1>4, <1>5, <1>6, <1>7 DEF RInv

(* The pump's steps that publish, or only look. *)
LEMMA StartWorkerRows ==
  ASSUME IInv, RInv, StartWorker
  PROVE  RInv'
<1> USE DEF StartWorker
<1>1. PICK j \in Jobs : j = starting /\ NoJob \notin Jobs
  BY JobQueueAssumption DEF IInv, Books, Handling
<1>2. /\ emitted'[j] # <<>> /\ Last(emitted'[j]) = "running"
      /\ \A k \in Jobs : k # j => emitted'[k] = emitted[k]
  BY <1>1, LastEmitted DEF QueuedState
<1>3. ~Ended(j)'
  <2>1. ~(Last(emitted'[j]) \in Terminal)
    BY <1>2 DEF Terminal
  <2>2. \A s : Ended(s)' => Last(emitted'[s]) \in Terminal
    BY DEF Ended
  <2> QED
    BY <1>1, <2>1, <2>2
<1>4. \A k \in Jobs : Owned(k)'
  BY <1>1 DEF RInv, Owned, Owner
<1>5. \A k \in Jobs : Saved(k)'
  BY <1>1 DEF RInv, Saved, RowSays, LateCancel, IInv, TypeOK
<1>6. ASSUME NEW k \in Jobs
      PROVE  Told(k)'
  <2>1. CASE k = j
    BY <1>3, <2>1 DEF Told
  <2>2. CASE k # j
    <3>1. emitted'[k] = emitted[k] /\ work'[k] = work[k]
      BY <1>1, <1>2, <2>2 DEF IInv, TypeOK
    <3> QED
      BY <1>1, <3>1 DEF RInv, Told, RowSays, LateCancel, UnderWay, Ended
  <2> QED
    BY <2>1, <2>2
<1>7. (\A c \in Callers : OneWay(c)') /\ Preempted'
  BY DEF RInv, OneWay, Preempted
<1> QED
  BY <1>4, <1>5, <1>6, <1>7 DEF RInv

LEMMA FinishPreemptedRows ==
  ASSUME IInv, RInv, FinishPreempted
  PROVE  RInv'
<1> USE DEF FinishPreempted, workVars
<1>1. PICK j \in Jobs :
        /\ j = starting /\ NoJob \notin Jobs
        /\ enqueue[j] = "accepted" /\ work[j] = "none" /\ ~Contains(waiting, j)
        /\ row[j] = "cancelled"
  BY JobQueueAssumption DEF IInv, Books, Handling, Placed, RInv, Preempted, Contains
<1>2. /\ emitted'[j] # <<>> /\ Last(emitted'[j]) = "cancelled"
      /\ \A k \in Jobs : k # j => emitted'[k] = emitted[k]
  BY <1>1, LastEmitted DEF QueuedState, Terminal
<1>3. \A k \in Jobs : Owned(k)'
  BY <1>1 DEF RInv, Owned, Owner
<1>4. \A k \in Jobs : Saved(k)'
  BY DEF RInv, Saved, RowSays, LateCancel
<1>5. Told(j)'
  BY <1>1, <1>2 DEF Told, RowSays, UnderWay
<1>6. ASSUME NEW k \in Jobs, k # j
      PROVE  Told(k)'
  BY <1>1, <1>2, <1>6 DEF RInv, Told, RowSays, LateCancel, UnderWay, Ended
<1>7. (\A c \in Callers : OneWay(c)') /\ Preempted'
  BY DEF RInv, OneWay, Preempted
<1> QED
  BY <1>3, <1>4, <1>5, <1>6, <1>7 DEF RInv

LEMMA HonourPreemptionRows ==
  ASSUME IInv, RInv, HonourPreemption
  PROVE  RInv'
<1> USE DEF HonourPreemption, workVars
<1>1. \A k \in Jobs : Owned(k)' /\ Saved(k)' /\ Told(k)'
  BY DEF RInv, Owned, Owner, Saved, Told, RowSays, LateCancel, UnderWay, Ended
<1>2. (\A c \in Callers : OneWay(c)') /\ Preempted'
  BY DEF RInv, OneWay, Preempted
<1> QED
  BY <1>1, <1>2 DEF RInv

(* The worker call settles, one way or another. *)
LEMMA SettleRows ==
  ASSUME IInv, RInv, NEW j \in Jobs, WorkerExits(j) \/ WorkerBreaks(j) \/ WorkerSettles(j)
  PROVE  RInv'
<1> USE DEF WorkerExits, WorkerBreaks, WorkerSettles, pumpVars
<1>1. /\ work[j] \in {"running", "exited"} /\ work'[j] \in {"exited", "settled"}
      /\ \A k \in Jobs : k # j => work'[k] = work[k] /\ verdict'[k] = verdict[k]
      /\ UNCHANGED <<row, enqueue, waiting, pumpAt, starting, active, call, emitted, faults>>
  BY DEF IInv, TypeOK
<1>2. \A k \in Jobs : Owned(k)'
  BY <1>1 DEF RInv, Owned, Owner
<1>3. \A k \in Jobs : Saved(k)'
  BY <1>1 DEF RInv, Saved, RowSays, LateCancel
<1>4. \A k \in Jobs : Told(k)'
  BY <1>1 DEF RInv, Told, RowSays, LateCancel, UnderWay, Ended
<1>5. (\A c \in Callers : OneWay(c)') /\ Preempted'
  BY <1>1 DEF RInv, OneWay, Preempted
<1> QED
  BY <1>2, <1>3, <1>4, <1>5 DEF RInv

LEMMA PersistTerminalRows ==
  ASSUME IInv, RInv, NEW j \in Jobs, PersistTerminal(j)
  PROVE  RInv'
<1> USE DEF PersistTerminal, write, pumpVars
<1>1. /\ row'[j] = verdict[j] /\ verdict[j] \in Terminal /\ work'[j] = "written"
      /\ \A k \in Jobs : k # j => row'[k] = row[k] /\ work'[k] = work[k]
      /\ work[j] = "settled" /\ starting # j
      /\ UNCHANGED <<enqueue, waiting, pumpAt, starting, active, verdict, call, emitted, faults>>
  BY JobQueueAssumption DEF IInv, TypeOK, Decided, Placed
<1>2. \A k \in Jobs : Owned(k)'
  BY <1>1 DEF RInv, Owned, Owner, Terminal
<1>3. \A k \in Jobs : Saved(k)'
  BY <1>1 DEF RInv, Saved, RowSays, LateCancel
<1>4. \A k \in Jobs : Told(k)'
  BY <1>1 DEF RInv, Told, RowSays, LateCancel, UnderWay, Ended
<1>5. \A c \in Callers : OneWay(c)'
  <2>1. ASSUME NEW c \in Callers, call[c].at = "spliced"
        PROVE  call[c].job # j /\ call[c].job \in Jobs
    BY <1>1, <2>1 DEF IInv, Called, RInv, OneWay
  <2> QED
    BY <1>1, <2>1 DEF RInv, OneWay
<1>6. Preempted'
  BY <1>1 DEF RInv, Preempted, IInv, Books, Handling
<1> QED
  BY <1>2, <1>3, <1>4, <1>5, <1>6 DEF RInv

LEMMA PersistTerminalRejectsRows ==
  ASSUME IInv, RInv, NEW j \in Jobs, PersistTerminalRejects(j)
  PROVE  RInv'
<1> USE DEF PersistTerminalRejects, StoreRejects, pumpVars
<1>1. /\ faults' > 0 /\ work'[j] = "lost" /\ work[j] = "settled"
      /\ \A k \in Jobs : k # j => work'[k] = work[k]
  BY DEF IInv, TypeOK
<1>2. \A k \in Jobs : Owned(k)'
  BY <1>1 DEF Owned
<1>3. \A k \in Jobs : Saved(k)'
  BY <1>1 DEF RInv, Saved, RowSays, LateCancel
<1>4. \A k \in Jobs : Told(k)'
  BY <1>1 DEF RInv, Told, RowSays, LateCancel, UnderWay, Ended
<1>5. (\A c \in Callers : OneWay(c)') /\ Preempted'
  BY DEF RInv, OneWay, Preempted
<1> QED
  BY <1>2, <1>3, <1>4, <1>5 DEF RInv

(* The end of a job is published after it was written. *)
LEMMA EmitTerminalRows ==
  ASSUME IInv, RInv, NEW j \in Jobs, EmitTerminal(j)
  PROVE  RInv'
<1> USE DEF EmitTerminal, pumpVars
<1>1. /\ work[j] = "written" /\ work'[j] = "reported" /\ verdict[j] \in Terminal
      /\ \A k \in Jobs : k # j => work'[k] = work[k]
      /\ enqueue[j] = "accepted" /\ starting # j
      /\ ~Contains(waiting, j)
  BY JobQueueAssumption DEF IInv, TypeOK, Decided, Placed, Contains
<1>2. /\ emitted'[j] # <<>> /\ Last(emitted'[j]) = verdict[j]
      /\ \A k \in Jobs : k # j => emitted'[k] = emitted[k]
  BY <1>1, LastEmitted DEF QueuedState
<1>3. \A k \in Jobs : Owned(k)'
  BY DEF RInv, Owned, Owner
<1>4. \A k \in Jobs : Saved(k)'
  BY <1>1 DEF RInv, Saved, RowSays, LateCancel
<1>5. Told(j)'
  <2>1. RowSays(j, verdict[j])
    BY <1>1 DEF RInv, Saved
  <2>2. \A c \in Callers : ~(call[c].via = "waiting" /\ call[c].job = j)
    BY <1>1 DEF IInv, Called
  <2> QED
    BY <1>1, <1>2, <2>1, <2>2 DEF Told, RowSays, LateCancel, UnderWay
<1>6. ASSUME NEW k \in Jobs, k # j
      PROVE  Told(k)'
  BY <1>1, <1>2, <1>6 DEF RInv, Told, RowSays, LateCancel, UnderWay, Ended
<1>7. (\A c \in Callers : OneWay(c)') /\ Preempted'
  BY DEF RInv, OneWay, Preempted
<1> QED
  BY <1>3, <1>4, <1>5, <1>6, <1>7 DEF RInv

LEMMA CreateJobRejectsRows ==
  ASSUME IInv, RInv, NEW j \in Jobs, CreateJobRejects(j)
  PROVE  RInv'
<1> USE DEF CreateJobRejects, StoreRejects, pumpVars, workVars
<1>1. /\ faults' > 0 /\ enqueue[j] # "accepted"
      /\ \A k \in Jobs : k # j => enqueue'[k] = enqueue[k]
  BY DEF IInv, TypeOK
<1>2. \A k \in Jobs : Owned(k)'
  BY <1>1 DEF Owned
<1>3. \A k \in Jobs : Saved(k)'
  BY <1>1 DEF RInv, Saved, RowSays, LateCancel
<1>4. \A k \in Jobs : Told(k)'
  BY <1>1 DEF RInv, Told, RowSays, LateCancel, UnderWay, Ended
<1>5. (\A c \in Callers : OneWay(c)') /\ Preempted'
  BY DEF RInv, OneWay, Preempted
<1> QED
  BY <1>2, <1>3, <1>4, <1>5 DEF RInv

(* A cancel() call moves on without a word on the row. *)
LEMMA CallRows ==
  ASSUME IInv, RInv, NEW c \in Callers, ReadStored(c) \/ MarkPreempted(c) \/ CancelThrows(c)
  PROVE  RInv'
<1> USE DEF ReadStored, MarkPreempted, CancelThrows, StoreRejects, Goto, Reply, pumpVars, workVars
<1>1. /\ \A d \in Callers : d # c => call'[d] = call[d]
      /\ call'[c].job = call[c].job /\ call'[c].via = call[c].via
      /\ call'[c].at # "splice" /\ call'[c].at # "spliced"
      /\ call'[c].answer # "none" => call'[c].at = "done"
      /\ call'[c].at \in {"read", "write", "mark"} => call[c].at = "read" /\ call'[c].at = "write"
      /\ call[c].at \notin {"mark", "done"} \/ (call[c].at = "mark" /\ call'[c].answer = "true")
      /\ call[c].at = "splice" => faults' > 0
      /\ UNCHANGED <<row, enqueue, waiting, pumpAt, starting, active, work, verdict, emitted>>
      /\ faults \in Nat /\ (faults' = faults \/ faults' = faults + 1)
  BY DEF IInv, TypeOK, RInv, OneWay
<1>2. \A k \in Jobs : Owned(k)'
  BY <1>1 DEF RInv, Owned, Owner
<1>3. \A k \in Jobs : LateCancel(k) => LateCancel(k)'
  BY <1>1, LateCancelStays
<1>4. \A k \in Jobs : Saved(k)'
  BY <1>1, <1>3 DEF RInv, Saved, RowSays
<1>5. \A k \in Jobs : Told(k)'
  BY <1>1, <1>3 DEF RInv, Told, RowSays, UnderWay, Ended
<1>6. (\A d \in Callers : OneWay(d)') /\ Preempted'
  BY <1>1 DEF RInv, OneWay, Preempted
<1> QED
  BY <1>2, <1>4, <1>5, <1>6 DEF RInv

(* cancel() writes the row of the job it withdrew from the line. *)
LEMMA PersistWithdrawnRows ==
  ASSUME IInv, RInv, NEW c \in Callers, PersistWithdrawn(c)
  PROVE  RInv'
<1> USE DEF PersistWithdrawn, write, Goto, pumpVars, workVars
<1>1. PICK j \in Jobs :
        /\ j = call[c].job /\ call[c].via = "waiting" /\ work[j] = "none" /\ starting # j
        /\ row'[j] = "cancelled" /\ \A k \in Jobs : k # j => row'[k] = row[k]
  BY DEF IInv, TypeOK, Called, RInv, OneWay
<1>2. /\ \A d \in Callers : d # c => call'[d] = call[d]
      /\ call[c].at = "splice" /\ call'[c].at = "spliced"
      /\ call'[c].job = call[c].job /\ call'[c].via = call[c].via /\ call'[c].answer = call[c].answer
      /\ call[c].answer = "none"
  BY DEF IInv, TypeOK, RInv, OneWay
<1>3. \A k \in Jobs : Owned(k)'
  BY <1>1, <1>2 DEF RInv, Owned, Owner
<1>4. \A k \in Jobs : LateCancel(k) => LateCancel(k)'
  BY <1>1, <1>2, LateCancelStays
<1>5. \A k \in Jobs : Saved(k)'
  BY <1>1, <1>4 DEF RInv, Saved, RowSays
<1>6. \A k \in Jobs : Told(k)'
  BY <1>1, <1>2, <1>4 DEF RInv, Told, RowSays, UnderWay, Ended
<1>7. \A d \in Callers : OneWay(d)'
  BY <1>1, <1>2 DEF RInv, OneWay, IInv, Called
<1>8. Preempted'
  BY <1>1 DEF RInv, Preempted, IInv, Books, Handling
<1> QED
  BY <1>3, <1>5, <1>6, <1>7, <1>8 DEF RInv

(* ... and publishes it. *)
LEMMA ReplyWithdrawnRows ==
  ASSUME IInv, RInv, NEW c \in Callers, ReplyWithdrawn(c)
  PROVE  RInv'
<1> USE DEF ReplyWithdrawn, Reply, pumpVars, workVars
<1>1. PICK j \in Jobs :
        /\ j = call[c].job /\ call[c].via = "waiting" /\ work[j] = "none" /\ starting # j
        /\ enqueue[j] = "accepted" /\ ~Contains(waiting, j)
        /\ row[j] = "cancelled"
  BY DEF IInv, Called, RInv, OneWay, Contains
<1>2. /\ \A d \in Callers : d # c => call'[d] = call[d]
      /\ call[c].at = "spliced" /\ call'[c].at = "done" /\ call'[c].answer = "true"
      /\ call'[c].job = call[c].job /\ call'[c].via = call[c].via
  BY DEF IInv, TypeOK
<1>3. /\ emitted'[j] # <<>> /\ Last(emitted'[j]) = "cancelled"
      /\ \A k \in Jobs : k # j => emitted'[k] = emitted[k]
  BY <1>1, LastEmitted DEF QueuedState, Terminal
<1>4. \A k \in Jobs : Owned(k)'
  BY <1>1, <1>2 DEF RInv, Owned, Owner
<1>5. \A k \in Jobs : LateCancel(k) => LateCancel(k)'
  BY <1>1, <1>2, LateCancelStays
<1>6. \A k \in Jobs : Saved(k)'
  BY <1>1, <1>5 DEF RInv, Saved, RowSays
<1>7. Told(j)'
  BY <1>1, <1>3 DEF Told, RowSays, UnderWay
<1>8. ASSUME NEW k \in Jobs, k # j
      PROVE  Told(k)'
  BY <1>1, <1>2, <1>3, <1>5, <1>8 DEF RInv, Told, RowSays, UnderWay, Ended
<1>9. (\A d \in Callers : OneWay(d)') /\ Preempted'
  BY <1>1, <1>2 DEF RInv, OneWay, Preempted
<1> QED
  BY <1>4, <1>6, <1>7, <1>8, <1>9 DEF RInv

(* cancel() writes a row that it read one await earlier.                   *)
LEMMA WriteStoredRows ==
  ASSUME IInv, RInv, NEW c \in Callers, WriteStored(c)
  PROVE  RInv'
<1> USE DEF WriteStored, write, Goto, pumpVars, workVars
<1>1. PICK j \in Jobs :
        /\ j = call[c].job /\ call[c].via \in {"starting", "store"}
        /\ row'[j] = "cancelled" /\ \A k \in Jobs : k # j => row'[k] = row[k]
  BY DEF IInv, TypeOK, Called, RInv, OneWay
<1>2. /\ \A d \in Callers : d # c => call'[d] = call[d]
      /\ call[c].at = "write" /\ call'[c].at = "mark"
      /\ call'[c].job = call[c].job /\ call'[c].via = call[c].via /\ call'[c].answer = call[c].answer
      /\ call[c].answer = "none"
  BY DEF IInv, TypeOK, RInv, OneWay
<1>3. \A k \in Jobs : Owned(k)'
  BY <1>1, <1>2 DEF RInv, Owned, Owner
<1>4. LateCancel(j)' /\ \A k \in Jobs : LateCancel(k) => LateCancel(k)'
  <2>1. LateCancel(j)'
    BY <1>1, <1>2 DEF LateCancel
  <2> QED
    BY <1>1, <1>2, <2>1, LateCancelStays
<1>5. \A k \in Jobs : Saved(k)'
  BY <1>1, <1>4 DEF RInv, Saved, RowSays, Terminal
<1>6. \A k \in Jobs : Told(k)'
  BY <1>1, <1>2, <1>4 DEF RInv, Told, RowSays, UnderWay, Ended
<1>7. \A d \in Callers : OneWay(d)'
  BY <1>1, <1>2 DEF RInv, OneWay, IInv, Called
<1>8. Preempted'
  BY <1>1 DEF RInv, Preempted, IInv, Books, Handling
<1> QED
  BY <1>3, <1>5, <1>6, <1>7, <1>8 DEF RInv

(* A cancel() call begins. *)
LEMMA CancelBeginsRows ==
  ASSUME IInv, RInv, NEW c \in Callers, NEW j \in Jobs,
         CancelWaiting(c, j) \/ CancelActive(c, j) \/ CancelStored(c, j)
  PROVE  RInv'
<1> USE DEF CancelWaiting, CancelActive, CancelStored, pumpVars, workVars
<1>1. /\ \A d \in Callers : d # c => call'[d] = call[d]
      /\ call[c].at = "idle" /\ call'[c].job = j
      /\ \/ call'[c].at = "splice" /\ call'[c].via = "waiting" /\ call'[c].answer = "none"
         \/ call'[c].at = "done" /\ call'[c].via = "active"
         \/ call'[c].at = "read" /\ call'[c].via \in {"starting", "store"} /\ call'[c].answer = "none"
      /\ UNCHANGED <<row, enqueue, pumpAt, starting, active, emitted, faults>>
  BY DEF IInv, TypeOK
<1>2. \A k \in Jobs : LateCancel(k) => LateCancel(k)'
  BY <1>1, LateCancelStays
<1>3. /\ call'[c].via = "waiting" => Contains(waiting, j)
      /\ \A k \in Jobs : Contains(waiting', k) => Contains(waiting, k)
      /\ \A k \in Jobs : Contains(waiting, k) =>
           Contains(waiting', k) \/ (k = j /\ call'[c].at = "splice")
  <2>1. CASE CancelWaiting(c, j)
    <3>1. PICK i \in 1 .. Len(waiting) : waiting[i] = j /\ waiting' = RemoveAt(waiting, i)
      BY <2>1
    <3>2. call'[c].at = "splice" /\ waiting \in Seq(Jobs)
      BY <2>1 DEF IInv, TypeOK
    <3>3. Contains(waiting, j)
      BY <3>1 DEF Contains
    <3>4. \A k \in Jobs : /\ Contains(waiting', k) => Contains(waiting, k)
                          /\ Contains(waiting, k) /\ k # j => Contains(waiting', k)
      BY <3>1, <3>2, SplicedLine
    <3> QED
      BY <3>2, <3>3, <3>4
  <2>2. CASE CancelActive(c, j) \/ CancelStored(c, j)
    BY <2>2 DEF IInv, TypeOK
  <2> QED
    BY <2>1, <2>2
<1>4. \A k \in Jobs :
        \/ work'[k] = work[k] /\ verdict'[k] = verdict[k]
        \/ work[k] = "running" /\ work'[k] = "settled"
  BY DEF IInv, TypeOK
<1>5. \A k \in Jobs : Owned(k)'
  BY <1>1, <1>3 DEF RInv, Owned, Owner
<1>6. \A k \in Jobs : Saved(k)'
  BY <1>1, <1>2, <1>4 DEF RInv, Saved, RowSays
<1>7. \A k \in Jobs : Told(k)'
  BY <1>1, <1>2, <1>3, <1>4 DEF RInv, Told, RowSays, UnderWay, Ended
<1>8. (\A d \in Callers : OneWay(d)') /\ Preempted'
  BY <1>1 DEF RInv, OneWay, Preempted
<1> QED
  BY <1>5, <1>6, <1>7, <1>8 DEF RInv

-----------------------------------------------------------------------------
(* The theorems. *)

LEMMA RowsInit == Init => RInv
BY DEF Init, RInv, Owned, Saved, Told, UnderWay, Ended, OneWay, Preempted

LEMMA RowsKept ==
  ASSUME IInv, RInv, [Next]_vars
  PROVE  RInv'
<1>1. CASE UNCHANGED vars
  BY <1>1 DEF vars, RInv, Owned, Owner, Saved, RowSays, LateCancel, Told, UnderWay, Ended, OneWay, Preempted
<1>2. CASE UserStep
  BY <1>2, WriteRows, CancelBeginsRows DEF UserStep
<1>3. CASE PumpStep
  BY <1>3, LoopMoves, WriteRows, StartWorkerRows, HonourPreemptionRows, FinishPreemptedRows DEF PumpStep
<1>4. CASE \E j \in Jobs : Accept(j) \/ WorkStep(j)
  BY <1>4, AcceptRows, SettleRows, PersistTerminalRows, EmitTerminalRows, ReleaseRows DEF WorkStep
<1>5. CASE \E c \in Callers : CallStep(c)
  BY <1>5, PersistWithdrawnRows, ReplyWithdrawnRows, WriteStoredRows, CallRows DEF CallStep
<1>6. CASE StoreFault
  BY <1>6, LoopMoves, CreateJobRejectsRows, PersistTerminalRejectsRows, CallRows DEF StoreFault
<1> QED
  BY <1>1, <1>2, <1>3, <1>4, <1>5, <1>6 DEF Next

(* The invariant of the rows holds for good, on top of IInv.               *)
THEOREM RowsInductive == Spec => []RInv
BY Inductive, RowsInit, RowsKept, PTL DEF Spec

(* No job is stranded: a row that says queued or running belongs to someone *)
(* in the process who will move it on, as long as the store never rejected. *)
THEOREM NoJobIsStranded == Spec => []NoOrphan
<1>1. RInv => NoOrphan
  BY DEF RInv, Owned, Owner, NoOrphan
<1> QED
  BY <1>1, RowsInductive, PTL

(* What a job's watchers were told last is what its row says, but for a row *)
(* that a late cancel() turned to cancelled.                               *)
THEOREM RowsTellTheEnd == Spec => []RowTellsTheEnd
<1>1. RInv => RowTellsTheEnd
  BY DEF RInv, Told, RowSays, RowTellsTheEnd
<1> QED
  BY <1>1, RowsInductive, PTL
-----------------------------------------------------------------------------
(* The refinement.  FInv says what a job was told last by where it is; it  *)
(* is inductive relative to IInv and RInv.                                 *)

Working == {"running", "exited", "settled", "written", "lost"}
Withdraws(c) == call[c].at \in {"splice", "spliced"}
InHand(j)    == Contains(waiting, j) \/ starting = j \/ Withdrawing(j)

Follows(j) ==
  /\ enqueue[j] = "accepted" <=> emitted[j] # <<>>
  /\ InHand(j) => Last(emitted[j]) = "queued"
  /\ work[j] \in Working => Last(emitted[j]) = "running"
  /\ work[j] = "reported" => Ended(j)

(* A job is withdrawn by one call of cancel() only. *)
Alone == \A c, d \in Callers :
  Withdraws(c) /\ Withdraws(d) /\ call[c].job = call[d].job => c = d

FInv == /\ \A j \in Jobs : Follows(j)
        /\ Alone
        /\ faults \in 0 .. MaxFaults

(* The life of every job, as JobLifecycle sees it. *)
Life == [j \in Jobs |-> announced(j)]

(* A step that tells nothing about j and leaves it in hand if it was.      *)
Unmoved(j) ==
  /\ emitted'[j] = emitted[j]
  /\ enqueue'[j] = "accepted" <=> enqueue[j] = "accepted"
  /\ InHand(j)' <=> InHand(j)
  /\ j \in active' <=> j \in active
  /\ work'[j] \in Working => work[j] \in Working
  /\ work'[j] = "reported" => work[j] = "reported"

LEMMA UnmovedFollows ==
  ASSUME FInv, NEW j \in Jobs, Unmoved(j)
  PROVE  Follows(j)' /\ announced(j)' = announced(j)
<1>1. Follows(j)'
  BY DEF FInv, Unmoved, Follows, Ended
<1>2. InQueue(j) \/ Withdrawing(j) <=> InHand(j) \/ j \in active
  BY DEF InQueue, InHand
<1>3. InQueue(j)' \/ Withdrawing(j)' <=> InHand(j)' \/ j \in active'
  BY DEF InQueue, InHand
<1>4. announced(j)' = announced(j)
  BY <1>2, <1>3 DEF Unmoved, announced
<1> QED
  BY <1>1, <1>4

LEMMA QuietStep ==
  ASSUME FInv, \A j \in Jobs : Unmoved(j), Alone', faults' \in 0 .. MaxFaults
  PROVE  FInv' /\ UNCHANGED Life
<1>1. \A j \in Jobs : Follows(j)' /\ announced(j)' = announced(j)
  BY UnmovedFollows
<1>2. FInv'
  BY <1>1 DEF FInv
<1>3. UNCHANGED Life
  BY <1>1 DEF Life
<1> QED
  BY <1>2, <1>3

(* The life of one job moves, and that of the others does not. *)
LEMMA OneMoves ==
  ASSUME NEW j \in Jobs, \A k \in Jobs \ {j} : announced(k)' = announced(k),
         \/ announced(j) = "unknown" /\ announced(j)' = "queued"
         \/ /\ announced(j) = "queued" /\ announced(j)' = "running"
            /\ Cardinality({k \in Jobs : announced(k) = "running"}) < PoolSize
         \/ announced(j) = "queued" /\ announced(j)' = "cancelled"
         \/ announced(j) = "running" /\ announced(j)' \in Terminal
         \/ announced(j) \in {"queued", "running"} /\ announced(j)' = "lost" /\ MaxFaults > 0
  PROVE  Lifecycle!Next
<1>1. ASSUME NEW s, announced(j)' = s
      PROVE  Lifecycle!Become(j, s)
  BY <1>1 DEF Lifecycle!Become
<1>2. [k \in Jobs |-> announced(k)][j] = announced(j)
  OBVIOUS
<1>3. CASE announced(j) = "unknown" /\ announced(j)' = "queued"
  BY <1>1, <1>3 DEF Lifecycle!Next, Lifecycle!Announce
<1>4. CASE /\ announced(j) = "queued" /\ announced(j)' = "running"
           /\ Cardinality({k \in Jobs : announced(k) = "running"}) < PoolSize
  <2>1. Lifecycle!RunningJobs = {k \in Jobs : announced(k) = "running"}
    BY DEF Lifecycle!RunningJobs
  <2>2. Cardinality(Lifecycle!RunningJobs) < PoolSize
    BY <1>4, <2>1, Zenon
  <2>3. Lifecycle!Cardinality(Lifecycle!RunningJobs) = Cardinality(Lifecycle!RunningJobs)
    BY Zenon DEF Lifecycle!Cardinality, Cardinality
  <2>4. Lifecycle!Start(j)
    BY <1>1, <1>2, <1>4, <2>2, <2>3 DEF Lifecycle!Start
  <2> QED
    BY <2>4 DEF Lifecycle!Next
<1>5. CASE announced(j) = "queued" /\ announced(j)' = "cancelled"
  BY <1>1, <1>5 DEF Lifecycle!Next, Lifecycle!Withdraw
<1>6. CASE announced(j) = "running" /\ announced(j)' \in Terminal
  BY <1>1, <1>6 DEF Lifecycle!Next, Lifecycle!End, Terminal, Lifecycle!Terminal
<1>7. CASE announced(j) \in {"queued", "running"} /\ announced(j)' = "lost" /\ MaxFaults > 0
  BY <1>1, <1>7 DEF Lifecycle!Next, Lifecycle!Lose
<1> QED
  BY <1>3, <1>4, <1>5, <1>6, <1>7

(* The step of one job j, told by what it is before and after. *)
LEMMA LoudStep ==
  ASSUME FInv, NEW j \in Jobs, \A k \in Jobs \ {j} : Unmoved(k), Follows(j)',
         Alone', faults' \in 0 .. MaxFaults,
         \/ announced(j) = "unknown" /\ announced(j)' = "queued"
         \/ /\ announced(j) = "queued" /\ announced(j)' = "running"
            /\ Cardinality({k \in Jobs : announced(k) = "running"}) < PoolSize
         \/ announced(j) = "queued" /\ announced(j)' = "cancelled"
         \/ announced(j) = "running" /\ announced(j)' \in Terminal
         \/ announced(j) \in {"queued", "running"} /\ announced(j)' = "lost" /\ MaxFaults > 0
  PROVE  FInv' /\ Lifecycle!Next
<1>1. \A k \in Jobs \ {j} : Follows(k)' /\ announced(k)' = announced(k)
  BY UnmovedFollows
<1>2. FInv'
  BY <1>1 DEF FInv
<1>3. Lifecycle!Next
  BY <1>1, OneMoves
<1> QED
  BY <1>2, <1>3

(* Where a job is decides what was told of it last. *)
LEMMA WhereTells ==
  ASSUME IInv, RInv, FInv, NEW j \in Jobs
  PROVE  /\ enqueue[j] # "accepted" => announced(j) = "unknown" /\ ~InHand(j) /\ work[j] = "none"
         /\ InHand(j) => announced(j) = "queued" /\ work[j] = "none" /\ j \notin active
         /\ work[j] \in Working => announced(j) = "running" /\ j \in active /\ ~InHand(j)
         /\ announced(j) = "running" => j \in active
<1>1. j # NoJob
  BY JobQueueAssumption
<1>2. InHand(j) => enqueue[j] = "accepted" /\ work[j] = "none"
  <2>1. Withdrawing(j) => enqueue[j] = "accepted" /\ work[j] = "none"
    BY DEF Withdrawing, RInv, OneWay, IInv, Called
  <2> QED
    BY <1>1, <2>1 DEF InHand, IInv, Placed, Contains
<1>3. /\ work[j] # "none" => enqueue[j] = "accepted"
      /\ j \in active <=> work[j] \in ActiveAt
  BY DEF IInv, Placed
<1>4. enqueue[j] # "accepted" => emitted[j] = <<>>
  BY DEF FInv, Follows
<1>5. enqueue[j] = "accepted" => emitted[j] # <<>>
  BY DEF FInv, Follows
<1>6. InHand(j) => Last(emitted[j]) = "queued"
  BY DEF FInv, Follows
<1>7. work[j] \in Working => Last(emitted[j]) = "running"
  BY DEF FInv, Follows
<1>8. InQueue(j) \/ Withdrawing(j) <=> InHand(j) \/ j \in active
  BY DEF InQueue, InHand
<1>9. work[j] \in Working => work[j] \in ActiveAt /\ work[j] # "none"
  BY DEF Working, ActiveAt
<1>10. announced(j) = "running" => j \in active
  BY <1>6, <1>8 DEF announced, Terminal
<1> QED
  BY <1>2, <1>3, <1>4, <1>5, <1>6, <1>7, <1>8, <1>9, <1>10 DEF announced, ActiveAt

(* The steps that only read, write the store or let a worker settle. *)
LEMMA StoreTells ==
  ASSUME IInv, RInv, FInv,
         \/ PersistRunning \/ HonourPreemption \/ PersistPreempted
         \/ \E j \in Jobs : \/ CreateJob(j) \/ CreateJobRejects(j)
                            \/ WorkerExits(j) \/ WorkerBreaks(j) \/ WorkerSettles(j)
                            \/ PersistTerminal(j) \/ PersistTerminalRejects(j)
  PROVE  FInv' /\ UNCHANGED Life
<1> USE DEF PersistRunning, HonourPreemption, PersistPreempted, CreateJob, CreateJobRejects,
            WorkerExits, WorkerBreaks, WorkerSettles, PersistTerminal, PersistTerminalRejects,
            StoreRejects, pumpVars, workVars
<1>1. UNCHANGED <<waiting, starting, active, call, emitted>>
  OBVIOUS
<1>2. \A j \in Jobs : InHand(j)' <=> InHand(j)
  BY <1>1 DEF InHand, Withdrawing
<1>3. \A j \in Jobs : /\ enqueue'[j] = "accepted" <=> enqueue[j] = "accepted"
                      /\ work'[j] \in Working => work[j] \in Working
                      /\ work'[j] = "reported" => work[j] = "reported"
  BY DEF IInv, TypeOK, Working
<1>4. \A j \in Jobs : Unmoved(j)
  BY <1>1, <1>2, <1>3 DEF Unmoved
<1>5. Alone'
  BY <1>1 DEF FInv, Alone, Withdraws
<1>6. faults' \in 0 .. MaxFaults
  BY JobQueueAssumption DEF FInv
<1> QED
  BY <1>4, <1>5, <1>6, QuietStep

(* The loop looks at the line; a job whose start rejected is given up.     *)
LEMMA LoopTells ==
  ASSUME IInv, RInv, FInv, PumpResumes \/ PumpFinally \/ StartJobRejects
  PROVE  FInv' /\ [Lifecycle!Next]_Life
<1> USE DEF PumpResumes, PumpFinally, StartJobRejects, workVars
<1>1. waiting \in Seq(Jobs) /\ NoJob \notin Jobs
  BY JobQueueAssumption DEF IInv, TypeOK
<1>2. /\ UNCHANGED <<enqueue, active, work, call, emitted>>
      /\ Alone'
      /\ faults' \in 0 .. MaxFaults
  BY JobQueueAssumption DEF FInv, Alone, Withdraws, StoreRejects
<1>3. \A j \in Jobs : (Contains(waiting, j) <=> starting' = j \/ Contains(waiting', j))
  <2>1. ASSUME NEW open, pumpLoop(waiting, active, open)
        PROVE  \A j \in Jobs : (Contains(waiting, j) <=> starting' = j \/ Contains(waiting', j))
    BY <1>1, <2>1, PumpLoopHolds
  <2>2. CASE UNCHANGED <<waiting, starting, unfinished>> /\ PumpFinally
    <3>1. starting = NoJob
      BY <2>2 DEF IInv, Books, Handling
    <3> QED
      BY <1>1, <2>2, <3>1
  <2> QED
    BY <2>1, <2>2
<1>4. \A j \in Jobs : Withdrawing(j)' <=> Withdrawing(j)
  BY <1>2 DEF Withdrawing
<1>5. \A j \in Jobs : starting # j => Unmoved(j)
  BY <1>2, <1>3, <1>4 DEF Unmoved, InHand
<1>6. CASE starting = NoJob
  BY <1>1, <1>2, <1>5, <1>6, QuietStep
<1>7. CASE starting # NoJob
  <2>1. PICK j \in Jobs : j = starting /\ StartJobRejects
    BY <1>7 DEF IInv, Books, Handling
  <2>2. ~Contains(waiting, j) /\ j \notin active /\ work[j] = "none" /\ enqueue[j] = "accepted"
    BY <1>7, <2>1 DEF IInv, Books, Placed, ActiveAt, Contains
  <2>3. ~Withdrawing(j)
    BY <2>1 DEF Withdrawing, RInv, OneWay, IInv, Called
  <2>4. emitted[j] # <<>> /\ Last(emitted[j]) = "queued" /\ announced(j) = "queued"
    <3>1. InHand(j)
      BY <2>1 DEF InHand
    <3> QED
      BY <2>2, <3>1, WhereTells DEF FInv, Follows
  <2>5. ~InHand(j)' /\ ~Withdrawing(j)' /\ ~InQueue(j)'
    BY <1>2, <1>3, <1>4, <2>2, <2>3 DEF InHand, InQueue
  <2>6. Follows(j)'
    BY <1>2, <2>2, <2>4, <2>5 DEF Follows, Working
  <2>7. announced(j)' = "lost"
    BY <1>2, <2>4, <2>5 DEF announced, Terminal
  <2>8. MaxFaults > 0
    BY <2>1, JobQueueAssumption DEF StoreRejects, FInv
  <2> QED
    BY <1>2, <1>5, <2>1, <2>4, <2>6, <2>7, <2>8, LoudStep
<1> QED
  BY <1>6, <1>7

(* enqueue() announces its job as queued when it puts it in line.          *)
LEMMA AcceptTells ==
  ASSUME IInv, RInv, FInv, NEW j \in Jobs, Accept(j)
  PROVE  FInv' /\ [Lifecycle!Next]_Life
<1> USE DEF Accept, workVars
<1>1. waiting \in Seq(Jobs) /\ Append(waiting, j) \in Seq(Jobs) /\ j # NoJob
  BY JobQueueAssumption DEF IInv, TypeOK
<1>2. \A k : Contains(Append(waiting, j), k) <=> Contains(waiting, k) \/ k = j
  <2>1. Len(waiting) \in Nat /\ Len(Append(waiting, j)) = Len(waiting) + 1
        /\ Append(waiting, j)[Len(waiting) + 1] = j
        /\ \A i \in 1 .. Len(waiting) : Append(waiting, j)[i] = waiting[i]
    BY <1>1
  <2> QED
    BY <2>1 DEF Contains
<1>3. \A k \in Jobs : InHand(k)' <=> InHand(k) \/ k = j
  <2>1. \A k \in Jobs : Withdrawing(k)' <=> Withdrawing(k)
    BY DEF Withdrawing
  <2> QED
    BY <1>1, <1>2, <2>1, SchedulePumpHolds DEF InHand
<1>4. /\ emitted'[j] # <<>> /\ Last(emitted'[j]) = "queued"
      /\ \A k \in Jobs : k # j => emitted'[k] = emitted[k]
  BY LastEmitted DEF QueuedState
<1>5. announced(j) = "unknown" /\ work[j] = "none" /\ j \notin active
  BY WhereTells DEF IInv, Placed, ActiveAt
<1>6. announced(j)' = "queued"
  <2>1. InQueue(j)' \/ Withdrawing(j)'
    BY <1>3 DEF InHand, InQueue
  <2> QED
    BY <1>4, <2>1 DEF announced
<1>7. enqueue'[j] = "accepted" /\ \A k \in Jobs \ {j} : enqueue'[k] = enqueue[k]
  BY DEF IInv, TypeOK
<1>8. Follows(j)'
  BY <1>4, <1>5, <1>7 DEF Follows, Working
<1>9. \A k \in Jobs \ {j} : Unmoved(k)
  BY <1>3, <1>4, <1>7 DEF Unmoved
<1>10. Alone' /\ faults' \in 0 .. MaxFaults
  BY DEF FInv, Alone, Withdraws
<1> QED
  BY <1>5, <1>6, <1>8, <1>9, <1>10, LoudStep

(* startJob() announces that the worker is called: a slot is free for it.  *)
LEMMA StartWorkerTells ==
  ASSUME IInv, RInv, FInv, StartWorker
  PROVE  FInv' /\ [Lifecycle!Next]_Life
<1> USE DEF StartWorker
<1>1. PICK j \in Jobs : j = starting /\ j # NoJob
  BY JobQueueAssumption DEF IInv, Books, Handling
<1>2. /\ emitted'[j] # <<>> /\ Last(emitted'[j]) = "running"
      /\ \A k \in Jobs : k # j => emitted'[k] = emitted[k]
  BY <1>1, LastEmitted DEF QueuedState
<1>3. announced(j) = "queued" /\ enqueue[j] = "accepted"
  <2>1. InHand(j)
    BY <1>1 DEF InHand
  <2> QED
    BY <2>1, WhereTells
<1>4. /\ j \in active' /\ work'[j] = "running"
      /\ \A k \in Jobs \ {j} : (k \in active' <=> k \in active) /\ work'[k] = work[k]
  BY <1>1 DEF IInv, TypeOK
<1>5. \A k \in Jobs : Withdrawing(k)' <=> Withdrawing(k)
  BY DEF Withdrawing
<1>6. \A k \in Jobs \ {j} : InHand(k)' <=> InHand(k)
  BY <1>1, <1>5, JobQueueAssumption DEF InHand
<1>7. ~InHand(j)'
  <2>1. ~Contains(waiting, j)
    BY <1>1 DEF IInv, Books, Contains
  <2>2. ~Withdrawing(j)
    BY <1>1 DEF Withdrawing, RInv, OneWay, IInv, Called
  <2> QED
    BY <1>1, <1>5, <2>1, <2>2 DEF InHand
<1>8. announced(j)' = "running"
  BY <1>2, <1>4 DEF announced, InQueue
<1>9. Follows(j)'
  BY <1>2, <1>3, <1>4, <1>7 DEF Follows
<1>10. \A k \in Jobs \ {j} : Unmoved(k)
  BY <1>2, <1>4, <1>6 DEF Unmoved
<1>11. Cardinality({k \in Jobs : announced(k) = "running"}) < PoolSize
  <2> DEFINE busy == {k \in Jobs : announced(k) = "running"}
  <2>1. busy \subseteq active
    BY WhereTells
  <2>2. IsFiniteSet(active) /\ Cardinality(active) \in Nat
    BY JobsCount, FS_Subset, JobQueueAssumption DEF IInv, TypeOK
  <2>3. Cardinality(busy) \in Nat /\ Cardinality(busy) <= Cardinality(active)
    BY <2>1, <2>2, FS_Subset, FS_CardinalityType
  <2>4. Cardinality(active) < PoolSize /\ PoolSize \in Nat
    BY <1>1, JobQueueAssumption DEF IInv, Books
  <2> QED
    BY <2>2, <2>3, <2>4
<1>12. Alone' /\ faults' \in 0 .. MaxFaults
  BY DEF FInv, Alone, Withdraws
<1> QED
  BY <1>3, <1>8, <1>9, <1>10, <1>11, <1>12, LoudStep

(* startJob() tells that a preempted job is cancelled.                     *)
LEMMA FinishPreemptedTells ==
  ASSUME IInv, RInv, FInv, FinishPreempted
  PROVE  FInv' /\ [Lifecycle!Next]_Life
<1> USE DEF FinishPreempted, workVars
<1>1. PICK j \in Jobs : j = starting /\ j # NoJob
  BY JobQueueAssumption DEF IInv, Books, Handling
<1>2. /\ emitted'[j] # <<>> /\ Last(emitted'[j]) = "cancelled"
      /\ \A k \in Jobs : k # j => emitted'[k] = emitted[k]
  BY <1>1, LastEmitted DEF QueuedState, Terminal
<1>3. announced(j) = "queued" /\ enqueue[j] = "accepted" /\ work[j] = "none"
  <2>1. InHand(j)
    BY <1>1 DEF InHand
  <2> QED
    BY <2>1, WhereTells
<1>4. \A k \in Jobs : Withdrawing(k)' <=> Withdrawing(k)
  BY DEF Withdrawing
<1>5. \A k \in Jobs \ {j} : InHand(k)' <=> InHand(k)
  BY <1>1, <1>4, JobQueueAssumption DEF InHand
<1>6. ~InHand(j)'
  <2>1. ~Contains(waiting, j)
    BY <1>1 DEF IInv, Books, Contains
  <2>2. ~Withdrawing(j)
    BY <1>1 DEF Withdrawing, RInv, OneWay, IInv, Called
  <2> QED
    BY <1>1, <1>4, <2>1, <2>2 DEF InHand
<1>7. announced(j)' = "cancelled"
  BY <1>2 DEF announced, Terminal
<1>8. Follows(j)'
  BY <1>2, <1>3, <1>6 DEF Follows, Working
<1>9. \A k \in Jobs \ {j} : Unmoved(k)
  BY <1>2, <1>5 DEF Unmoved
<1>10. Alone' /\ faults' \in 0 .. MaxFaults
  BY DEF FInv, Alone, Withdraws
<1> QED
  BY <1>3, <1>7, <1>8, <1>9, <1>10, LoudStep

(* The end of a job is told as its worker decided it.                      *)
LEMMA EmitTerminalTells ==
  ASSUME IInv, RInv, FInv, NEW j \in Jobs, EmitTerminal(j)
  PROVE  FInv' /\ [Lifecycle!Next]_Life
<1> USE DEF EmitTerminal, pumpVars
<1>1. verdict[j] \in Terminal
  BY DEF IInv, Decided
<1>2. /\ emitted'[j] # <<>> /\ Last(emitted'[j]) = verdict[j]
      /\ \A k \in Jobs : k # j => emitted'[k] = emitted[k]
  BY <1>1, LastEmitted DEF QueuedState
<1>3. announced(j) = "running" /\ ~InHand(j) /\ enqueue[j] = "accepted"
  BY WhereTells DEF Working, IInv, Placed
<1>4. \A k \in Jobs : InHand(k)' <=> InHand(k)
  BY DEF InHand, Withdrawing
<1>5. work'[j] = "reported" /\ \A k \in Jobs \ {j} : work'[k] = work[k]
  BY DEF IInv, TypeOK
<1>6. announced(j)' \in Terminal
  BY <1>1, <1>2 DEF announced
<1>7. Follows(j)'
  BY <1>1, <1>2, <1>3, <1>4, <1>5 DEF Follows, Ended, Working
<1>8. \A k \in Jobs \ {j} : Unmoved(k)
  BY <1>2, <1>4, <1>5 DEF Unmoved
<1>9. Alone' /\ faults' \in 0 .. MaxFaults
  BY DEF FInv, Alone, Withdraws
<1> QED
  BY <1>3, <1>6, <1>7, <1>8, <1>9, LoudStep

(* A slot is freed.  The job has been told to be over, unless it was lost. *)
LEMMA ReleaseTells ==
  ASSUME IInv, RInv, FInv, NEW j \in Jobs, Release(j)
  PROVE  FInv' /\ [Lifecycle!Next]_Life
<1> USE DEF Release
<1>1. waiting \in Seq(Jobs)
  BY DEF IInv, TypeOK
<1>2. \A k \in Jobs : InHand(k)' <=> InHand(k)
  <2>1. \A k \in Jobs : Withdrawing(k)' <=> Withdrawing(k)
    BY DEF Withdrawing
  <2> QED
    BY <1>1, <2>1, SchedulePumpHolds DEF InHand
<1>3. /\ work'[j] = "done" /\ j \notin active' /\ emitted' = emitted /\ enqueue' = enqueue
      /\ \A k \in Jobs \ {j} : work'[k] = work[k] /\ (k \in active' <=> k \in active)
  BY DEF IInv, TypeOK
<1>4. \A k \in Jobs \ {j} : Unmoved(k)
  BY <1>2, <1>3 DEF Unmoved
<1>5. Alone' /\ faults' \in 0 .. MaxFaults
  BY DEF FInv, Alone, Withdraws
<1>6. ~InHand(j) /\ enqueue[j] = "accepted" /\ emitted[j] # <<>>
  <2>1. enqueue[j] = "accepted"
    BY DEF IInv, Placed
  <2> QED
    BY <2>1, WhereTells DEF FInv, Follows
<1>7. Follows(j)'
  BY <1>2, <1>3, <1>6 DEF Follows, Working
<1>8. CASE work[j] = "reported"
  <2>1. announced(j)' = announced(j)
    BY <1>3, <1>8 DEF announced, FInv, Follows, Ended
  <2>2. \A k \in Jobs \ {j} : Follows(k)' /\ announced(k)' = announced(k)
    BY <1>4, UnmovedFollows
  <2> QED
    BY <1>5, <1>7, <2>1, <2>2 DEF FInv, Life
<1>9. CASE work[j] = "lost"
  <2>1. announced(j) = "running" /\ Last(emitted[j]) = "running"
    BY <1>9, WhereTells DEF FInv, Follows, Working
  <2>2. MaxFaults > 0
    BY <1>9, JobQueueAssumption DEF RInv, Saved, FInv
  <2>3. ~InQueue(j)' /\ ~Withdrawing(j)'
    BY <1>2, <1>3, <1>6 DEF InHand, InQueue
  <2>4. announced(j)' = "lost"
    BY <1>3, <1>6, <2>1, <2>3 DEF announced, Terminal
  <2> QED
    BY <1>4, <1>5, <1>7, <2>1, <2>2, <2>4, LoudStep
<1> QED
  BY <1>8, <1>9

(* A cancel() call begins: a job that leaves the line is being withdrawn.  *)
LEMMA CancelBeginsTells ==
  ASSUME IInv, RInv, FInv, NEW c \in Callers, NEW j \in Jobs,
         CancelWaiting(c, j) \/ CancelActive(c, j) \/ CancelStored(c, j)
  PROVE  FInv' /\ UNCHANGED Life
<1> USE DEF CancelWaiting, CancelActive, CancelStored, pumpVars, workVars
<1>1. /\ \A d \in Callers : d # c => call'[d] = call[d]
      /\ call[c].at = "idle" /\ call'[c].job = j
      /\ UNCHANGED <<enqueue, starting, active, emitted, faults>>
  BY DEF IInv, TypeOK
<1>2. \A k \in Jobs : /\ work'[k] \in Working => work[k] \in Working
                      /\ work'[k] = "reported" => work[k] = "reported"
  BY DEF IInv, TypeOK, Working
<1>3. CASE CancelWaiting(c, j)
  <2>1. Contains(waiting, j) /\ call'[c].at = "splice"
    BY <1>3 DEF IInv, TypeOK, Contains
  <2>2. \A k \in Jobs \ {j} : Contains(waiting', k) <=> Contains(waiting, k)
    BY <1>3, SplicedLine DEF IInv, TypeOK
  <2>3. \A k \in Jobs \ {j} : Withdrawing(k)' <=> Withdrawing(k)
    BY <1>1 DEF Withdrawing
  <2>4. Withdrawing(j)'
    BY <1>1, <2>1 DEF Withdrawing
  <2>5. \A k \in Jobs : InHand(k)' <=> InHand(k)
    BY <1>1, <2>1, <2>2, <2>3, <2>4 DEF InHand
  <2>6. ASSUME NEW d \in Callers, Withdraws(d)
        PROVE  call[d].job # j
    BY <2>1, <2>6 DEF Withdraws, RInv, OneWay, IInv, Called, Contains
  <2>7. Alone'
    BY <1>1, <2>6 DEF FInv, Alone, Withdraws
  <2> QED
    BY <1>1, <1>2, <2>5, <2>7, QuietStep DEF Unmoved, FInv
<1>4. CASE CancelActive(c, j) \/ CancelStored(c, j)
  <2>1. ~Withdraws(c)' /\ waiting' = waiting
    BY <1>4 DEF Withdraws, IInv, TypeOK
  <2>2. \A k \in Jobs : InHand(k)' <=> InHand(k)
    BY <1>1, <2>1 DEF InHand, Withdrawing, Withdraws
  <2>3. Alone'
    BY <1>1, <2>1 DEF FInv, Alone, Withdraws
  <2> QED
    BY <1>1, <1>2, <2>2, <2>3, QuietStep DEF Unmoved, FInv
<1> QED
  BY <1>3, <1>4

(* A cancel() call goes on: only one that withdrew its job has to tell it, *)
(* or leaves it lost when its write rejects.                               *)
LEMMA CallTells ==
  ASSUME IInv, RInv, FInv, NEW c \in Callers, CallStep(c) \/ CancelThrows(c)
  PROVE  FInv' /\ [Lifecycle!Next]_Life
<1> USE DEF CallStep, PersistWithdrawn, ReplyWithdrawn, ReadStored, WriteStored, MarkPreempted,
            CancelThrows, StoreRejects, Goto, Reply, pumpVars, workVars
<1>1. /\ \A d \in Callers : d # c => call'[d] = call[d]
      /\ call'[c].job = call[c].job
      /\ call'[c].at # "splice"
      /\ call'[c].at = "spliced" <=> PersistWithdrawn(c)
      /\ UNCHANGED <<enqueue, waiting, starting, active, work>>
  BY DEF IInv, TypeOK
<1>2. faults' \in 0 .. MaxFaults
  BY JobQueueAssumption DEF FInv
<1>3. Alone'
  BY <1>1 DEF FInv, Alone, Withdraws
<1>4. CASE Withdraws(c)' <=> Withdraws(c)
  <2>1. emitted' = emitted
    BY <1>1, <1>4 DEF Withdraws
  <2>2. \A k \in Jobs : InHand(k)' <=> InHand(k)
    BY <1>1, <1>4 DEF InHand, Withdrawing, Withdraws
  <2> QED
    BY <1>1, <1>2, <1>3, <2>1, <2>2, QuietStep DEF Unmoved
<1>5. CASE ~(Withdraws(c)' <=> Withdraws(c))
  <2>1. Withdraws(c) /\ ~Withdraws(c)' /\ (ReplyWithdrawn(c) \/ CancelThrows(c))
    BY <1>1, <1>5 DEF Withdraws
  <2>2. PICK j \in Jobs :
          /\ j = call[c].job /\ enqueue[j] = "accepted" /\ work[j] = "none"
          /\ starting # j /\ ~Contains(waiting, j)
    BY <2>1 DEF Withdraws, RInv, OneWay, IInv, Called, Contains
  <2>3. announced(j) = "queued" /\ j \notin active
    <3>1. InHand(j)
      BY <2>1, <2>2 DEF InHand, Withdrawing, Withdraws
    <3> QED
      BY <3>1, WhereTells
  <2>4. emitted[j] # <<>> /\ Last(emitted[j]) = "queued"
    BY <2>1, <2>2 DEF FInv, Follows, InHand, Withdrawing, Withdraws
  <2>5. ~InHand(j)' /\ ~Withdrawing(j)' /\ ~InQueue(j)'
    BY <1>1, <2>1, <2>2, <2>3 DEF InHand, InQueue, Withdrawing, FInv, Alone, Withdraws
  <2>6. \A k \in Jobs \ {j} : InHand(k)' <=> InHand(k)
    BY <1>1, <2>2 DEF InHand, Withdrawing
  <2>7. CASE ReplyWithdrawn(c)
    <3>1. /\ emitted'[j] # <<>> /\ Last(emitted'[j]) = "cancelled"
          /\ \A k \in Jobs : k # j => emitted'[k] = emitted[k]
      BY <2>2, <2>7, LastEmitted DEF QueuedState, Terminal
    <3>2. announced(j)' = "cancelled"
      BY <3>1 DEF announced, Terminal
    <3>3. Follows(j)' /\ \A k \in Jobs \ {j} : Unmoved(k)
      BY <1>1, <2>2, <2>5, <2>6, <3>1 DEF Follows, Unmoved, Working
    <3> QED
      BY <1>2, <1>3, <2>3, <3>2, <3>3, LoudStep
  <2>8. CASE CancelThrows(c)
    <3>1. MaxFaults > 0 /\ emitted' = emitted
      BY <2>8, JobQueueAssumption DEF FInv
    <3>2. announced(j)' = "lost"
      BY <2>4, <2>5, <3>1 DEF announced, Terminal
    <3>3. Follows(j)' /\ \A k \in Jobs \ {j} : Unmoved(k)
      BY <1>1, <2>2, <2>4, <2>5, <2>6, <3>1 DEF Follows, Unmoved, Working
    <3> QED
      BY <1>2, <1>3, <2>3, <3>1, <3>2, <3>3, LoudStep
  <2> QED
    BY <2>1, <2>7, <2>8
<1> QED
  BY <1>4, <1>5

-----------------------------------------------------------------------------
LEMMA LifeBegins == Init => FInv /\ Lifecycle!Init
<1> SUFFICES ASSUME Init
             PROVE  FInv /\ Lifecycle!Init
  OBVIOUS
<1>1. FInv
  BY JobQueueAssumption
     DEF Init, FInv, Follows, Alone, Withdraws, InHand, Withdrawing, Working, Contains
<1>2. \A j \in Jobs : announced(j) = "unknown"
  BY DEF Init, announced
<1> QED
  BY <1>1, <1>2 DEF Lifecycle!Init

LEMMA LifeMoves ==
  ASSUME IInv, RInv, FInv, [Next]_vars
  PROVE  FInv' /\ [Lifecycle!Next]_Life
<1>1. CASE UNCHANGED vars
  <2>1. \A j \in Jobs : Unmoved(j)
    BY <1>1 DEF vars, Unmoved, InHand, Withdrawing
  <2>2. Alone' /\ faults' \in 0 .. MaxFaults
    BY <1>1 DEF vars, FInv, Alone, Withdraws
  <2> QED
    BY <2>1, <2>2, QuietStep
<1>2. CASE UserStep
  BY <1>2, StoreTells, CancelBeginsTells DEF UserStep
<1>3. CASE PumpStep
  BY <1>3, LoopTells, StoreTells, StartWorkerTells, FinishPreemptedTells DEF PumpStep
<1>4. CASE \E j \in Jobs : Accept(j) \/ WorkStep(j)
  BY <1>4, AcceptTells, StoreTells, EmitTerminalTells, ReleaseTells DEF WorkStep
<1>5. CASE \E c \in Callers : CallStep(c)
  BY <1>5, CallTells
<1>6. CASE StoreFault
  BY <1>6, LoopTells, StoreTells, CallTells DEF StoreFault
<1> QED
  BY <1>1, <1>2, <1>3, <1>4, <1>5, <1>6 DEF Next

(* What is told of the jobs is a behaviour of JobLifecycle but for its     *)
(* fairness: one start and one end per job, never more running than there  *)
(* are slots, and none lost unless a call of the store rejected.           *)
THEOREM LifecycleIsImplemented == Spec => Lifecycle!Init /\ [][Lifecycle!Next]_Life
<1>1. FInv /\ IInv /\ RInv /\ [Next]_vars => FInv' /\ [Lifecycle!Next]_Life
  BY LifeMoves
<1> QED
  BY <1>1, LifeBegins, Inductive, RowsInductive, PTL DEF Spec
=============================================================================
