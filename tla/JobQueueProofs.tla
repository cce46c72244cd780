--------------------------- MODULE JobQueueProofs ---------------------------
(***************************************************************************)
(* Theorems about JobQueue for every set of jobs, every pool size, every   *)
(* number of cancel() calls and every number of rejected persistence       *)
(* calls.  The inductive invariant IInv says where every job is; the       *)
(* properties of JobQueue follow from it.                                  *)
(***************************************************************************)
EXTENDS JobQueue, FiniteSetTheorems, SequenceTheorems, TLAPS

-----------------------------------------------------------------------------
(* The inductive invariant. *)

Handling == {"persist", "persisted", "cancelling", "cancelled"}

(* The pump's books, over the line, the job in hand, the loop's place, the *)
(* active jobs and the count of unfinished ones: a slot is kept free for   *)
(* the job in hand, and no job is in two places.                           *)
Books(line, hand, at, busy, open) ==
  /\ line \in Seq(Jobs)
  /\ hand \in Jobs \cup {NoJob}
  /\ at \in PumpAt
  /\ hand # NoJob <=> at \in Handling
  /\ busy \in SUBSET Jobs
  /\ Cardinality(busy) <= PoolSize
  /\ hand # NoJob => Cardinality(busy) < PoolSize
  /\ open = Cardinality(busy) + (IF hand = NoJob THEN 0 ELSE 1)
  /\ \A i, k \in 1..Len(line) : line[i] = line[k] => i = k
  /\ \A i \in 1..Len(line) : line[i] # hand

(* Only accepted jobs are in the queue, and only jobs that left the line   *)
(* and the pump's hand have a worker.                                      *)
Placed ==
  /\ \A i \in 1..Len(waiting) : enqueue[waiting[i]] = "accepted" /\ work[waiting[i]] = "none"
  /\ starting # NoJob => enqueue[starting] = "accepted" /\ work[starting] = "none"
  /\ \A j \in Jobs : j \in active <=> work[j] \in ActiveAt
  /\ \A j \in Jobs : work[j] # "none" => enqueue[j] = "accepted"

(* A settled worker call has a verdict. *)
Decided == \A j \in Jobs :
  work[j] \in {"settled", "written", "reported", "lost"} => verdict[j] \in Terminal

(* A cancel() call under way is about a job, and one that withdrew a job   *)
(* from the line has taken it out of the queue for good.                   *)
Called == \A c \in Callers :
  /\ call[c].at # "idle" => call[c].job \in Jobs
  /\ call[c].via = "waiting" =>
       /\ call[c].job \in Jobs
       /\ enqueue[call[c].job] = "accepted" /\ work[call[c].job] = "none"
       /\ starting # call[c].job
       /\ \A i \in 1..Len(waiting) : waiting[i] # call[c].job

IInv == /\ TypeOK
        /\ Books(waiting, starting, pumpAt, active, unfinished)
        /\ Placed
        /\ Decided
        /\ Called
        /\ NoLostWakeup

-----------------------------------------------------------------------------
(* Lemmas about the operators JobQueue is built from. *)

(* Sets of jobs are finite, and change their size by one at a time. *)
LEMMA JobsCount ==
  ASSUME NEW S \in SUBSET Jobs, NEW j
  PROVE  /\ Cardinality(S) \in Nat
         /\ j \notin S => Cardinality(S \cup {j}) = Cardinality(S) + 1
         /\ j \in S => Cardinality(S \ {j}) = Cardinality(S) - 1
<1>1. IsFiniteSet(S)
  BY FS_Subset, JobQueueAssumption
<1> QED
  BY <1>1, FS_CardinalityType, FS_AddElement, FS_RemoveElement

LEMMA CountIsNat ==
  ASSUME NEW S \in SUBSET Jobs
  PROVE  Cardinality(S) \in Nat
BY JobsCount

LEMMA NoneActive == Cardinality({}) = 0
BY FS_EmptySet

(* splice(index, 1): the other elements keep their order. *)
LEMMA RemoveAtElements ==
  ASSUME NEW S, NEW s \in Seq(S), NEW i \in 1..Len(s)
  PROVE  /\ RemoveAt(s, i) \in Seq(S)
         /\ Len(RemoveAt(s, i)) = Len(s) - 1
         /\ \A k \in 1..(Len(s) - 1) : RemoveAt(s, i)[k] = IF k < i THEN s[k] ELSE s[k + 1]
<1> DEFINE u == SubSeq(s, 1, i - 1)
           v == SubSeq(s, i + 1, Len(s))
<1>0. Len(s) \in Nat /\ i \in 1..Len(s)
  OBVIOUS
<1>1. u \in Seq(S) /\ Len(u) = i - 1 /\ \A k \in 1..(i - 1) : u[k] = s[k]
  OBVIOUS
<1>2. v \in Seq(S) /\ Len(v) = Len(s) - i /\ \A k \in 1..(Len(s) - i) : v[k] = s[i + k]
  OBVIOUS
<1>3. RemoveAt(s, i) = u \o v
  BY DEF RemoveAt
<1> HIDE DEF u, v
<1>4. /\ u \o v \in Seq(S)
      /\ Len(u \o v) = Len(s) - 1
      /\ \A k \in 1..(Len(s) - 1) : (u \o v)[k] = IF k <= i - 1 THEN u[k] ELSE v[k - (i - 1)]
  <2>1. /\ u \o v \in Seq(S)
        /\ Len(u \o v) = Len(u) + Len(v)
        /\ \A k \in 1..(Len(u) + Len(v)) : (u \o v)[k] = IF k <= Len(u) THEN u[k] ELSE v[k - Len(u)]
    BY <1>1, <1>2, ConcatProperties
  <2>2. Len(u) + Len(v) = Len(s) - 1 /\ Len(u) = i - 1
    BY <1>0, <1>1, <1>2
  <2> QED
    BY <2>1, <2>2
<1>5. ASSUME NEW k \in 1..(Len(s) - 1)
      PROVE  (u \o v)[k] = IF k < i THEN s[k] ELSE s[k + 1]
  <2>1. CASE k < i
    BY <2>1, <1>0, <1>1, <1>4
  <2>2. CASE ~(k < i)
    <3>1. k - (i - 1) \in 1..(Len(s) - i) /\ i + (k - (i - 1)) = k + 1 /\ ~(k <= i - 1)
      BY <2>2, <1>0
    <3> QED
      BY <2>2, <3>1, <1>2, <1>4
  <2> QED
    BY <2>1, <2>2
<1> QED
  BY <1>3, <1>4, <1>5

LEMMA BooksCount ==
  ASSUME NEW line, NEW hand, NEW at, NEW busy, NEW open, Books(line, hand, at, busy, open)
  PROVE  open \in Nat
BY CountIsNat DEF Books

(* pumpLoop() keeps the books when it is entered with nothing in hand. *)
LEMMA PumpLoopBooks ==
  ASSUME NEW line, NEW busy, NEW open, NEW at,
         Books(line, NoJob, at, busy, open),
         pumpLoop(line, busy, open)
  PROVE  /\ Books(waiting', starting', pumpAt', busy, unfinished')
         /\ pumpAt' # "idle"
         /\ starting' # NoJob => \E i \in 1..Len(line) : starting' = line[i]
         /\ \A i \in 1..Len(waiting') : \E k \in 1..Len(line) : waiting'[i] = line[k]
<1>1. Cardinality(busy) \in Nat
  BY JobsCount DEF Books
<1>2. CASE Cardinality(busy) < PoolSize /\ line # <<>>
  <2>1. waiting' = Tail(line) /\ starting' = Head(line) /\ pumpAt' = "persist" /\ unfinished' = open + 1
    BY <1>2 DEF pumpLoop, Shift, HasSlot
  <2>2. /\ Tail(line) \in Seq(Jobs) /\ Len(Tail(line)) = Len(line) - 1
        /\ \A i \in 1..Len(Tail(line)) : Tail(line)[i] = line[i + 1]
        /\ Head(line) = line[1] /\ Head(line) \in Jobs
        /\ Len(line) \in Nat /\ Len(line) > 0
    BY <1>2 DEF Books
  <2>3. \A i, k \in 1..Len(Tail(line)) : Tail(line)[i] = Tail(line)[k] => i = k
    BY <2>2 DEF Books
  <2>4. \A i \in 1..Len(Tail(line)) : Tail(line)[i] # Head(line)
    BY <2>2 DEF Books
  <2>5. Head(line) # NoJob
    BY <2>2, JobQueueAssumption
  <2> QED
    BY <1>1, <1>2, <2>1, <2>2, <2>3, <2>4, <2>5 DEF Books, Handling, PumpAt
<1>3. CASE ~(Cardinality(busy) < PoolSize /\ line # <<>>)
  BY <1>1, <1>3 DEF pumpLoop, HasSlot, Books, Handling, PumpAt
<1> QED
  BY <1>2, <1>3

(* schedulePump() keeps the books, wherever the loop is. *)
LEMMA SchedulePumpBooks ==
  ASSUME NEW line, NEW busy, NEW open,
         Books(line, starting, pumpAt, busy, open),
         schedulePump(line, busy, open)
  PROVE  /\ Books(waiting', starting', pumpAt', busy, unfinished')
         /\ pumpAt' # "idle"
         /\ \/ starting' = starting
            \/ starting' = NoJob
            \/ \E i \in 1..Len(line) : starting' = line[i]
         /\ \A i \in 1..Len(waiting') : \E k \in 1..Len(line) : waiting'[i] = line[k]
<1>1. CASE pumpAt = "idle"
  <2>1. starting = NoJob
    BY <1>1 DEF Books, Handling
  <2>2. pumpLoop(line, busy, open)
    BY <1>1 DEF schedulePump
  <2> QED
    BY <2>1, <2>2, PumpLoopBooks
<1>2. CASE pumpAt # "idle"
  BY <1>2 DEF schedulePump
<1> QED
  BY <1>1, <1>2
-----------------------------------------------------------------------------
(* Lemmas about the steps that change one thing at a time. *)

(* A published event leaves the event lists well typed. *)
LEMMA EmitTyped ==
  ASSUME emitted \in [Jobs -> Seq(QueuedState)], NEW j, NEW state \in QueuedState,
         emitLifecycle(j, state)
  PROVE  emitted' \in [Jobs -> Seq(QueuedState)]
<1>1. \A s \in Seq(QueuedState) : Append(s, state) \in Seq(QueuedState)
  OBVIOUS
<1> QED
  BY <1>1 DEF emitLifecycle

(* A cancel() call that moves on or answers is still about the same job,   *)
(* and found it in the same place.                                         *)
CallType == [at : CallAt, job : Jobs \cup {NoJob}, via : CallVia, answer : Answer]

LEMMA CallMovesOn ==
  ASSUME call \in [Callers -> CallType], NEW c \in Callers,
         \/ \E at \in CallAt : Goto(c, at)
         \/ \E answer \in Answer : Reply(c, answer)
  PROVE  /\ call' \in [Callers -> CallType]
         /\ \A d \in Callers : call'[d].job = call[d].job /\ call'[d].via = call[d].via
         /\ \A d \in Callers : d # c => call'[d] = call[d]
<1>1. \A d \in Callers : call[d] \in CallType
  OBVIOUS
<1>2. CASE \E at \in CallAt : Goto(c, at)
  BY <1>1, <1>2 DEF Goto, CallType
<1>3. CASE \E answer \in Answer : Reply(c, answer)
  BY <1>1, <1>3 DEF Reply, CallType, CallAt
<1> QED
  BY <1>2, <1>3

LEMMA CallStepKeeps ==
  ASSUME IInv, NEW c \in Callers, call[c].at # "idle",
         \/ \E at \in CallAt : Goto(c, at)
         \/ \E answer \in Answer : Reply(c, answer),
         UNCHANGED <<enqueue, waiting, starting, work>>
  PROVE  call' \in [Callers -> CallType] /\ Called'
<1>1. call \in [Callers -> CallType]
  BY DEF IInv, TypeOK, CallType
<1>2. /\ call' \in [Callers -> CallType]
      /\ \A d \in Callers : call'[d].job = call[d].job /\ call'[d].via = call[d].via
      /\ \A d \in Callers : d # c => call'[d] = call[d]
  BY <1>1, CallMovesOn
<1>3. ASSUME NEW d \in Callers, call'[d].at # "idle"
      PROVE  call'[d].job \in Jobs
  <2>1. call[d].at # "idle"
    BY <1>2, <1>3
  <2> QED
    BY <1>2, <2>1 DEF IInv, Called
<1>4. ASSUME NEW d \in Callers, call'[d].via = "waiting"
      PROVE  /\ call'[d].job \in Jobs
             /\ enqueue'[call'[d].job] = "accepted" /\ work'[call'[d].job] = "none"
             /\ starting' # call'[d].job
             /\ \A i \in 1..Len(waiting') : waiting'[i] # call'[d].job
  BY <1>2, <1>4 DEF IInv, Called
<1> QED
  BY <1>2, <1>3, <1>4 DEF Called

(* The steps of a cancel() call leave the queue alone. *)
LEMMA CancelKeeps ==
  ASSUME IInv, NEW c \in Callers, CallStep(c) \/ CancelThrows(c)
  PROVE IInv'
<1> USE DEF CallStep, PersistWithdrawn, ReplyWithdrawn, ReadStored, WriteStored, MarkPreempted,
            CancelThrows, pumpVars, workVars
<1>1. /\ call[c].at # "idle"
      /\ \/ \E at \in CallAt : Goto(c, at)
         \/ \E answer \in Answer : Reply(c, answer)
      /\ UNCHANGED <<enqueue, waiting, starting, work>>
  BY DEF CallAt, Answer
<1>2. call' \in [Callers -> CallType] /\ Called'
  BY <1>1, CallStepKeeps
<1>3. (TypeOK /\ Decided)'
  <2>1. row' \in [Jobs -> {"absent"} \cup QueuedState]
    BY DEF IInv, TypeOK, write, QueuedState, Terminal
  <2>2. emitted' \in [Jobs -> Seq(QueuedState)]
    <3>1. emitted' = emitted \/ emitLifecycle(call[c].job, "cancelled")
      OBVIOUS
    <3>2. "cancelled" \in QueuedState
      BY DEF QueuedState, Terminal
    <3> QED
      BY <3>1, <3>2, EmitTyped DEF IInv, TypeOK
  <2>3. preempted' \subseteq Jobs
    BY DEF IInv, TypeOK, Called
  <2>4. faults' \in Nat
    BY DEF IInv, TypeOK, StoreRejects
  <2> QED
    BY <1>2, <2>1, <2>2, <2>3, <2>4 DEF IInv, TypeOK, CallType, Decided
<1>4. (Books(waiting, starting, pumpAt, active, unfinished) /\ Placed /\ NoLostWakeup)'
  BY DEF IInv, Books, Placed, NoLostWakeup
<1> QED
  BY <1>2, <1>3, <1>4 DEF IInv

(* The pump takes jobs from the line only, and nothing else changes. *)
LEMMA PumpKeeps ==
  ASSUME IInv,
         \/ starting' = starting
         \/ starting' = NoJob
         \/ \E i \in 1..Len(waiting) : starting' = waiting[i],
         \A i \in 1..Len(waiting') : \E k \in 1..Len(waiting) : waiting'[i] = waiting[k],
         Books(waiting', starting', pumpAt', active', unfinished'),
         UNCHANGED <<enqueue, work, active, call>>
  PROVE  Placed' /\ Called'
<1>1. Placed'
  BY DEF IInv, Placed
<1>2. starting' # NoJob =>
        starting' = starting \/ \E i \in 1..Len(waiting) : starting' = waiting[i]
  OBVIOUS
<1>3. ASSUME NEW c \in Callers
      PROVE  /\ call[c].at # "idle" => call[c].job \in Jobs
             /\ call[c].via = "waiting" =>
                  /\ call[c].job \in Jobs
                  /\ enqueue[call[c].job] = "accepted" /\ work[call[c].job] = "none"
                  /\ starting' # call[c].job
                  /\ \A i \in 1..Len(waiting') : waiting'[i] # call[c].job
  BY <1>2, JobQueueAssumption DEF IInv, Called
<1>4. Called'
  BY <1>3 DEF Called
<1> QED
  BY <1>1, <1>4

(* The loop goes on after startJob(), whatever became of the job in hand. *)
LEMMA LoopKeeps ==
  ASSUME IInv, NEW open, NEW at,
         Books(waiting, NoJob, at, active, open),
         pumpLoop(waiting, active, open),
         UNCHANGED <<row, enqueue, workVars, preempted, call, emitted>>,
         faults' \in Nat
  PROVE  IInv'
<1>1. /\ Books(waiting', starting', pumpAt', active, unfinished')
      /\ pumpAt' # "idle"
      /\ starting' # NoJob => \E i \in 1..Len(waiting) : starting' = waiting[i]
      /\ \A i \in 1..Len(waiting') : \E k \in 1..Len(waiting) : waiting'[i] = waiting[k]
  BY PumpLoopBooks
<1>2. active' = active /\ UNCHANGED <<enqueue, work, verdict, call>>
  BY DEF workVars
<1>3. Books(waiting', starting', pumpAt', active', unfinished')
  BY <1>1, <1>2
<1>4. Placed' /\ Called'
  BY <1>1, <1>2, <1>3, PumpKeeps
<1>5. unfinished' \in Nat
  BY <1>1, BooksCount
<1>6. TypeOK' /\ Decided' /\ NoLostWakeup'
  BY <1>1, <1>2, <1>5 DEF IInv, TypeOK, Decided, NoLostWakeup, Books
<1> QED
  BY <1>3, <1>4, <1>6 DEF IInv

LEMMA PumpResumesKeeps == ASSUME IInv, PumpResumes PROVE IInv'
<1>1. starting = NoJob
  BY DEF PumpResumes, IInv, Books, Handling
<1> QED
  BY <1>1, LoopKeeps DEF PumpResumes, IInv, TypeOK

LEMMA PumpFinallyKeeps == ASSUME IInv, PumpFinally PROVE IInv'
<1>1. starting = NoJob
  BY DEF PumpFinally, IInv, Books, Handling
<1>2. CASE pumpLoop(waiting, active, unfinished)
  BY <1>1, <1>2, LoopKeeps DEF PumpFinally, IInv, TypeOK
<1>3. CASE ~(waiting # <<>> /\ Cardinality(active) < PoolSize) /\ pumpAt' = "idle"
           /\ UNCHANGED <<waiting, starting, unfinished>>
  BY <1>1, <1>3 DEF PumpFinally, HasSlot, IInv, TypeOK, Books, Placed, Decided, Called, NoLostWakeup,
                    Handling, PumpAt, workVars
<1> QED
  BY <1>2, <1>3 DEF PumpFinally, HasSlot

LEMMA StartJobRejectsKeeps == ASSUME IInv, StartJobRejects PROVE IInv'
<1>1. starting # NoJob
  BY DEF StartJobRejects, IInv, Books, Handling
<1>2. Cardinality(active) \in Nat
  BY CountIsNat DEF IInv, TypeOK
<1>3. Books(waiting, NoJob, "returned", active, unfinished - 1)
  <2>1. \A i \in 1..Len(waiting) : waiting[i] # NoJob
    BY JobQueueAssumption DEF IInv, TypeOK
  <2> QED
    BY <1>1, <1>2, <2>1 DEF IInv, Books, Handling, PumpAt
<1>4. faults' \in Nat
  BY DEF StartJobRejects, StoreRejects, IInv, TypeOK
<1> QED
  BY <1>3, <1>4, LoopKeeps DEF StartJobRejects

LEMMA AcceptKeeps == ASSUME IInv, NEW j \in Jobs, Accept(j) PROVE IInv'
<1> DEFINE line == Append(waiting, j)
<1>1. /\ line \in Seq(Jobs) /\ Len(line) = Len(waiting) + 1 /\ Len(waiting) \in Nat
      /\ \A i \in 1..Len(line) : line[i] = IF i = Len(line) THEN j ELSE waiting[i]
  BY DEF IInv, TypeOK
<1>2. /\ work[j] = "none" /\ starting # j
      /\ \A i \in 1..Len(waiting) : waiting[i] # j
  BY JobQueueAssumption DEF Accept, IInv, Placed
<1> HIDE DEF line
<1>3. Books(line, starting, pumpAt, active, unfinished)
  BY <1>1, <1>2 DEF IInv, Books
<1>4. /\ enqueue' = [enqueue EXCEPT ![j] = "accepted"]
      /\ emitLifecycle(j, "queued")
      /\ schedulePump(line, active, unfinished)
      /\ UNCHANGED <<row, active, work, verdict, preempted, call, faults>>
      /\ enqueue[j] = "created"
  BY DEF Accept, workVars, line
<1>5. /\ Books(waiting', starting', pumpAt', active', unfinished')
      /\ pumpAt' # "idle"
      /\ \/ starting' = starting
         \/ starting' = NoJob
         \/ \E i \in 1..Len(line) : starting' = line[i]
      /\ \A i \in 1..Len(waiting') : \E k \in 1..Len(line) : waiting'[i] = line[k]
  BY <1>3, <1>4, SchedulePumpBooks
<1>6. enqueue' \in [Jobs -> EnqueueAt] /\ enqueue'[j] = "accepted"
      /\ \A i \in Jobs : enqueue[i] = "accepted" => enqueue'[i] = "accepted"
  BY <1>4 DEF IInv, TypeOK, EnqueueAt
<1>7. TypeOK'
  <2>1. emitted' \in [Jobs -> Seq(QueuedState)]
    BY <1>4, EmitTyped DEF IInv, TypeOK, QueuedState
  <2>2. unfinished' \in Nat
    BY <1>5, BooksCount
  <2> QED
    BY <1>4, <1>5, <1>6, <2>1, <2>2 DEF IInv, TypeOK, Books
<1>8. Placed'
  <2>1. ASSUME NEW k \in 1..Len(line)
        PROVE  line[k] \in Jobs /\ enqueue'[line[k]] = "accepted" /\ work[line[k]] = "none"
    <3>1. CASE k = Len(line)
      BY <3>1, <1>1, <1>2, <1>6
    <3>2. CASE k # Len(line)
      <4>1. k \in 1..Len(waiting) /\ line[k] = waiting[k]
        BY <3>2, <1>1
      <4>2. waiting[k] \in Jobs
        BY <4>1 DEF IInv, TypeOK
      <4> QED
        BY <4>1, <4>2, <1>6 DEF IInv, Placed
    <3> QED
      BY <3>1, <3>2
  <2>2. starting' # NoJob => enqueue'[starting'] = "accepted" /\ work[starting'] = "none"
    BY <1>5, <1>6, <2>1 DEF IInv, Placed, TypeOK
  <2> QED
    BY <1>4, <1>5, <1>6, <2>1, <2>2 DEF IInv, Placed
<1>9. Called'
  <2>1. ASSUME NEW c \in Callers, call[c].via = "waiting"
        PROVE  \A k \in 1..Len(line) : line[k] # call[c].job
    BY <1>1, <1>4, <2>1 DEF IInv, Called
  <2>2. ASSUME NEW c \in Callers, call[c].via = "waiting"
        PROVE  starting' # call[c].job
    BY <1>5, <2>1, <2>2, JobQueueAssumption DEF IInv, Called
  <2> QED
    BY <1>4, <1>5, <1>6, <2>1, <2>2 DEF IInv, Called
<1> QED
  BY <1>4, <1>5, <1>7, <1>8, <1>9 DEF IInv, Decided, NoLostWakeup

LEMMA ReleaseKeeps == ASSUME IInv, NEW j \in Jobs, Release(j) PROVE IInv'
<1> DEFINE busy == active \ {j}
<1>1. j \in active /\ work[j] \in {"reported", "lost"}
  BY DEF Release, IInv, Placed, ActiveAt
<1>2. Cardinality(active) \in Nat /\ Cardinality(busy) = Cardinality(active) - 1 /\ busy \in SUBSET Jobs
  BY <1>1, JobsCount DEF IInv, TypeOK
<1>3. active' = busy /\ work' = [work EXCEPT ![j] = "done"]
      /\ schedulePump(waiting, busy, unfinished - 1)
      /\ UNCHANGED <<row, enqueue, verdict, preempted, call, emitted, faults>>
  BY DEF Release
<1> HIDE DEF busy
<1>4. Books(waiting, starting, pumpAt, busy, unfinished - 1)
  BY <1>2, JobQueueAssumption DEF IInv, Books
<1>5. /\ Books(waiting', starting', pumpAt', busy, unfinished')
      /\ pumpAt' # "idle"
      /\ \/ starting' = starting
         \/ starting' = NoJob
         \/ \E i \in 1..Len(waiting) : starting' = waiting[i]
      /\ \A i \in 1..Len(waiting') : \E k \in 1..Len(waiting) : waiting'[i] = waiting[k]
  BY <1>3, <1>4, SchedulePumpBooks
<1>6. TypeOK'
  <2>1. unfinished' \in Nat
    BY <1>5, BooksCount
  <2> QED
    BY <1>2, <1>3, <1>5, <2>1 DEF IInv, TypeOK, Books, WorkAt
<1>7. \A i \in Jobs : work[i] = "none" => work'[i] = "none"
  BY <1>1, <1>3 DEF IInv, TypeOK
<1>8. Placed'
  <2>1. \A i \in Jobs : i \in active' <=> work'[i] \in ActiveAt
    BY <1>3 DEF busy, IInv, TypeOK, Placed, ActiveAt
  <2>2. \A i \in Jobs : work'[i] # "none" => enqueue'[i] = "accepted"
    BY <1>1, <1>3 DEF IInv, TypeOK, Placed
  <2>3. \A i \in 1..Len(waiting) :
          waiting[i] \in Jobs /\ enqueue'[waiting[i]] = "accepted" /\ work'[waiting[i]] = "none"
    BY <1>3, <1>7 DEF IInv, TypeOK, Placed
  <2>4. starting # NoJob => enqueue'[starting] = "accepted" /\ work'[starting] = "none"
    BY <1>3, <1>7 DEF IInv, TypeOK, Placed
  <2> QED
    BY <1>5, <2>1, <2>2, <2>3, <2>4 DEF Placed
<1>9. Called'
  <2>1. ASSUME NEW c \in Callers, call[c].via = "waiting"
        PROVE  starting' # call[c].job
    BY <1>5, <2>1, JobQueueAssumption DEF IInv, Called
  <2> QED
    BY <1>3, <1>5, <1>7, <2>1 DEF IInv, Called
<1>10. Decided'
  BY <1>3 DEF IInv, TypeOK, Decided
<1> QED
  BY <1>3, <1>5, <1>6, <1>8, <1>9, <1>10 DEF IInv, NoLostWakeup

LEMMA StartWorkerKeeps == ASSUME IInv, StartWorker PROVE IInv'
<1>1. starting \in Jobs /\ pumpAt = "persisted"
  BY DEF StartWorker, IInv, Books, Handling
<1>2. work[starting] = "none" /\ starting \notin active /\ enqueue[starting] = "accepted"
  BY <1>1, JobQueueAssumption DEF IInv, Placed, ActiveAt
<1>3. Cardinality(active) \in Nat /\ Cardinality(active \cup {starting}) = Cardinality(active) + 1
  BY <1>2, JobsCount DEF IInv, TypeOK
<1>4. /\ active' = active \cup {starting} /\ work' = [work EXCEPT ![starting] = "running"]
      /\ starting' = NoJob /\ pumpAt' = "returned"
      /\ UNCHANGED <<row, enqueue, waiting, unfinished, verdict, preempted, call, faults>>
      /\ emitLifecycle(starting, "running")
  BY DEF StartWorker
<1>5. TypeOK'
  <2>1. emitted' \in [Jobs -> Seq(QueuedState)]
    BY <1>4, EmitTyped DEF IInv, TypeOK, QueuedState
  <2> QED
    BY <1>1, <1>4, <2>1 DEF IInv, TypeOK, WorkAt, PumpAt
<1>6. \A i \in 1..Len(waiting) : waiting[i] \in Jobs /\ waiting[i] # starting /\ waiting[i] # NoJob
  BY JobQueueAssumption DEF IInv, TypeOK, Books
<1>7. Books(waiting', starting', pumpAt', active', unfinished')
  BY <1>1, <1>3, <1>4, <1>6, JobQueueAssumption DEF IInv, Books, Handling, PumpAt
<1>8. \A i \in Jobs : i # starting => work'[i] = work[i]
  BY <1>4 DEF IInv, TypeOK
<1>9. Placed'
  BY <1>1, <1>2, <1>4, <1>6, <1>8 DEF IInv, Placed, ActiveAt, TypeOK
<1>10. Called'
  BY <1>4, <1>8, JobQueueAssumption DEF IInv, Called
<1>11. Decided' /\ NoLostWakeup'
  BY <1>4, <1>8 DEF IInv, Decided, NoLostWakeup, TypeOK
<1> QED
  BY <1>5, <1>7, <1>9, <1>10, <1>11 DEF IInv

LEMMA FinishPreemptedKeeps == ASSUME IInv, FinishPreempted PROVE IInv'
<1>1. starting \in Jobs
  BY DEF FinishPreempted, IInv, Books, Handling
<1>2. Cardinality(active) \in Nat
  BY CountIsNat DEF IInv, TypeOK
<1>3. /\ starting' = NoJob /\ pumpAt' = "returned" /\ unfinished' = unfinished - 1
      /\ UNCHANGED <<row, enqueue, waiting, active, work, verdict, preempted, call, faults>>
      /\ emitLifecycle(starting, "cancelled")
  BY DEF FinishPreempted, workVars
<1>4. \A i \in 1..Len(waiting) : waiting[i] # NoJob
  BY JobQueueAssumption DEF IInv, TypeOK
<1>5. Books(waiting', starting', pumpAt', active', unfinished')
  BY <1>1, <1>2, <1>3, <1>4, JobQueueAssumption DEF IInv, Books, Handling, PumpAt
<1>6. TypeOK'
  <2>1. emitted' \in [Jobs -> Seq(QueuedState)]
    BY <1>3, EmitTyped DEF IInv, TypeOK, QueuedState, Terminal
  <2>2. unfinished' \in Nat
    BY <1>5, BooksCount
  <2> QED
    BY <1>3, <2>1, <2>2 DEF IInv, TypeOK, PumpAt
<1>7. Placed' /\ Called' /\ Decided' /\ NoLostWakeup'
  BY <1>3, JobQueueAssumption DEF IInv, Placed, Called, Decided, NoLostWakeup
<1> QED
  BY <1>5, <1>6, <1>7 DEF IInv

(* The worker's steps until its slot is released: the queue is untouched.  *)
LEMMA WorkKeeps ==
  ASSUME IInv, NEW j \in Jobs,
         \/ WorkerExits(j) \/ WorkerBreaks(j) \/ WorkerSettles(j)
         \/ PersistTerminal(j) \/ PersistTerminalRejects(j) \/ EmitTerminal(j)
  PROVE  IInv'
<1> USE DEF IInv, TypeOK, Books, Placed, Decided, Called, NoLostWakeup, WorkAt, ActiveAt, Terminal,
            QueuedState, pumpVars
<1>1. CASE WorkerExits(j)
  BY <1>1 DEF WorkerExits
<1>2. CASE WorkerBreaks(j)
  BY <1>2 DEF WorkerBreaks
<1>3. CASE WorkerSettles(j)
  BY <1>3 DEF WorkerSettles
<1>4. CASE PersistTerminal(j)
  BY <1>4 DEF PersistTerminal, write
<1>5. CASE PersistTerminalRejects(j)
  BY <1>5 DEF PersistTerminalRejects, StoreRejects
<1>6. CASE EmitTerminal(j)
  <2>1. verdict[j] \in QueuedState
    BY <1>6 DEF EmitTerminal
  <2>2. emitted' \in [Jobs -> Seq(QueuedState)]
    BY <1>6, <2>1, EmitTyped DEF EmitTerminal
  <2>3. /\ work' = [work EXCEPT ![j] = "reported"] /\ work[j] = "written"
        /\ UNCHANGED <<row, enqueue, waiting, pumpAt, starting, unfinished, active, verdict, preempted, call, faults>>
    BY <1>6 DEF EmitTerminal
  <2>4. TypeOK'
    BY <2>2, <2>3
  <2>5. (Books(waiting, starting, pumpAt, active, unfinished) /\ NoLostWakeup)'
    BY <2>3
  <2>6. (Placed /\ Decided /\ Called)'
    BY <2>3
  <2> QED
    BY <2>4, <2>5, <2>6
<1> QED
  BY <1>1, <1>2, <1>3, <1>4, <1>5, <1>6

(* The steps of enqueue() and startJob() that only touch the store and the *)
(* preempted set.                                                          *)
LEMMA StoreKeeps ==
  ASSUME IInv,
         \/ PersistRunning \/ HonourPreemption \/ PersistPreempted
         \/ \E j \in Jobs : CreateJob(j) \/ CreateJobRejects(j)
  PROVE  IInv'
<1> USE DEF IInv, TypeOK, Books, Placed, Decided, Called, NoLostWakeup, Handling, PumpAt, EnqueueAt,
            Terminal, QueuedState, pumpVars, workVars
<1>1. CASE PersistRunning
  BY <1>1 DEF PersistRunning, write
<1>2. CASE HonourPreemption
  BY <1>2 DEF HonourPreemption
<1>3. CASE PersistPreempted
  BY <1>3 DEF PersistPreempted, write
<1>4. ASSUME NEW j \in Jobs, CreateJob(j)
      PROVE  IInv'
  BY <1>4 DEF CreateJob, write
<1>5. ASSUME NEW j \in Jobs, CreateJobRejects(j)
      PROVE  IInv'
  BY <1>5 DEF CreateJobRejects, StoreRejects
<1> QED
  BY <1>1, <1>2, <1>3, <1>4, <1>5

LEMMA CancelWaitingKeeps == ASSUME IInv, NEW c \in Callers, NEW j \in Jobs, CancelWaiting(c, j) PROVE IInv'
<1>1. PICK i \in 1..Len(waiting) : waiting[i] = j /\ waiting' = RemoveAt(waiting, i)
  BY DEF CancelWaiting
<1>2. waiting \in Seq(Jobs) /\ Len(waiting) \in Nat
  BY DEF IInv, TypeOK
<1>3. /\ waiting' \in Seq(Jobs) /\ Len(waiting') = Len(waiting) - 1
      /\ \A k \in 1..(Len(waiting) - 1) : waiting'[k] = IF k < i THEN waiting[k] ELSE waiting[k + 1]
  BY <1>1, <1>2, RemoveAtElements
<1>4. \A k, m \in 1..Len(waiting) : waiting[k] = waiting[m] => k = m
  BY DEF IInv, Books
<1>5. ASSUME NEW k \in 1..Len(waiting')
      PROVE  \E m \in 1..Len(waiting) : m # i /\ waiting'[k] = waiting[m]
  <2>1. CASE k < i
    BY <2>1, <1>2, <1>3
  <2>2. CASE ~(k < i)
    BY <2>2, <1>2, <1>3
  <2> QED
    BY <2>1, <2>2
<1>6. \A k, m \in 1..Len(waiting') : waiting'[k] = waiting'[m] => k = m
  BY <1>2, <1>3, <1>4
<1>7. \A k \in 1..Len(waiting') : waiting'[k] # j
  BY <1>1, <1>4, <1>5
<1>8. /\ call' = [call EXCEPT ![c] = [at |-> "splice", job |-> j, via |-> "waiting", answer |-> "none"]]
      /\ UNCHANGED <<row, enqueue, pumpAt, starting, unfinished, active, work, verdict, preempted, emitted, faults>>
  BY DEF CancelWaiting, workVars
<1>9. Books(waiting', starting', pumpAt', active', unfinished')
  BY <1>3, <1>5, <1>6, <1>8 DEF IInv, Books
<1>10. TypeOK'
  <2>1. call' \in [Callers -> CallType]
    BY <1>8 DEF IInv, TypeOK, CallType, CallAt, CallVia, Answer
  <2> QED
    BY <1>3, <1>8, <2>1 DEF IInv, TypeOK, CallType
<1>11. Placed'
  BY <1>5, <1>8 DEF IInv, Placed
<1>12. Called'
  <2>1. enqueue[j] = "accepted" /\ work[j] = "none" /\ starting # j
    BY <1>1 DEF IInv, Placed, Books
  <2>2. call'[c] = [at |-> "splice", job |-> j, via |-> "waiting", answer |-> "none"]
        /\ \A d \in Callers : d # c => call'[d] = call[d]
    BY <1>8 DEF IInv, TypeOK
  <2>3. ASSUME NEW d \in Callers, d # c
        PROVE  /\ call'[d].at # "idle" => call'[d].job \in Jobs
               /\ call'[d].via = "waiting" =>
                    /\ call'[d].job \in Jobs
                    /\ enqueue'[call'[d].job] = "accepted" /\ work'[call'[d].job] = "none"
                    /\ starting' # call'[d].job
                    /\ \A k \in 1..Len(waiting') : waiting'[k] # call'[d].job
    BY <1>5, <1>8, <2>2, <2>3 DEF IInv, Called
  <2> QED
    BY <1>7, <1>8, <2>1, <2>2, <2>3 DEF Called
<1>13. Decided' /\ NoLostWakeup'
  BY <1>2, <1>3, <1>8 DEF IInv, Decided, NoLostWakeup
<1> QED
  BY <1>9, <1>10, <1>11, <1>12, <1>13 DEF IInv

LEMMA CancelActiveKeeps == ASSUME IInv, NEW c \in Callers, NEW j \in Jobs, CancelActive(c, j) PROVE IInv'
<1>1. j \in active /\ work[j] \in ActiveAt
  BY DEF CancelActive, IInv, Placed
<1>2. /\ call' = [call EXCEPT ![c] = [at |-> "done", job |-> j, via |-> "active", answer |-> "true"]]
      /\ UNCHANGED <<row, enqueue, waiting, pumpAt, starting, unfinished, active, preempted, emitted, faults>>
      /\ \/ /\ work[j] = "running"
            /\ work' = [work EXCEPT ![j] = "settled"] /\ verdict' = [verdict EXCEPT ![j] = "cancelled"]
         \/ UNCHANGED <<work, verdict>>
  BY DEF CancelActive, pumpVars
<1>3. work' \in [Jobs -> WorkAt] /\ \A i \in Jobs : (work[i] = "none" <=> work'[i] = "none")
                                                  /\ (work[i] \in ActiveAt <=> work'[i] \in ActiveAt)
  BY <1>2 DEF IInv, TypeOK, WorkAt, ActiveAt
<1>4. call' \in [Callers -> CallType]
  BY <1>2 DEF IInv, TypeOK, CallType, CallAt, CallVia, Answer
<1>5. TypeOK'
  BY <1>2, <1>3, <1>4 DEF IInv, TypeOK, CallType, Terminal
<1>6. Placed'
  <2>1. \A i \in 1..Len(waiting) : waiting[i] \in Jobs
    BY DEF IInv, TypeOK
  <2> QED
    BY <1>2, <1>3, <2>1 DEF IInv, Placed, TypeOK
<1>7. Called'
  BY <1>2, <1>3 DEF IInv, Called, TypeOK
<1>8. Decided' /\ NoLostWakeup' /\ Books(waiting', starting', pumpAt', active', unfinished')
  BY <1>2 DEF IInv, TypeOK, Decided, NoLostWakeup, Books, Terminal
<1> QED
  BY <1>5, <1>6, <1>7, <1>8 DEF IInv

LEMMA CancelStoredKeeps == ASSUME IInv, NEW c \in Callers, NEW j \in Jobs, CancelStored(c, j) PROVE IInv'
<1>1. PICK via \in {"starting", "store"} :
        call' = [call EXCEPT ![c] = [at |-> "read", job |-> j, via |-> via, answer |-> "none"]]
  BY DEF CancelStored
<1>2. UNCHANGED <<row, enqueue, waiting, pumpAt, starting, unfinished, active, work, verdict, preempted, emitted, faults>>
  BY DEF CancelStored, pumpVars, workVars
<1>3. call' \in [Callers -> CallType]
  BY <1>1 DEF IInv, TypeOK, CallType, CallAt, CallVia, Answer
<1>4. TypeOK'
  BY <1>2, <1>3 DEF IInv, TypeOK, CallType
<1>5. Called'
  BY <1>1, <1>2 DEF IInv, Called, TypeOK
<1>6. Placed' /\ Decided' /\ NoLostWakeup' /\ Books(waiting', starting', pumpAt', active', unfinished')
  BY <1>2 DEF IInv, Placed, Decided, NoLostWakeup, Books
<1> QED
  BY <1>4, <1>5, <1>6 DEF IInv

-----------------------------------------------------------------------------
LEMMA StepKeeps == IInv /\ [Next]_vars => IInv'
<1> SUFFICES ASSUME IInv, [Next]_vars
             PROVE  IInv'
  OBVIOUS
<1>1. CASE UserStep
  BY <1>1, StoreKeeps, CancelWaitingKeeps, CancelActiveKeeps, CancelStoredKeeps DEF UserStep
<1>2. CASE PumpStep
  BY <1>2, StoreKeeps, PumpResumesKeeps, PumpFinallyKeeps, StartWorkerKeeps, FinishPreemptedKeeps
     DEF PumpStep
<1>3. CASE \E j \in Jobs : Accept(j) \/ WorkStep(j)
  BY <1>3, AcceptKeeps, WorkKeeps, ReleaseKeeps DEF WorkStep
<1>4. CASE \E c \in Callers : CallStep(c)
  BY <1>4, CancelKeeps
<1>5. CASE StoreFault
  BY <1>5, StartJobRejectsKeeps, StoreKeeps, WorkKeeps, CancelKeeps DEF StoreFault
<1>6. CASE UNCHANGED vars
  BY <1>6 DEF vars, pumpVars, workVars, IInv, TypeOK, Books, Placed, Decided, Called, NoLostWakeup
<1> QED
  BY <1>1, <1>2, <1>3, <1>4, <1>5, <1>6 DEF Next

LEMMA InitEstablishes == Init => IInv
<1> SUFFICES ASSUME Init
             PROVE  IInv
  OBVIOUS
<1>1. TypeOK
  BY JobQueueAssumption
     DEF Init, TypeOK, QueuedState, EnqueueAt, PumpAt, WorkAt, CallAt, CallVia, Answer
<1>2. Books(waiting, starting, pumpAt, active, unfinished)
  BY NoneActive, JobQueueAssumption DEF Init, Books, Handling, PumpAt
<1>3. Placed /\ Decided /\ Called /\ NoLostWakeup
  BY DEF Init, Placed, Decided, Called, NoLostWakeup, ActiveAt
<1> QED
  BY <1>1, <1>2, <1>3 DEF IInv

(* IInv holds in every reachable state. *)
THEOREM Inductive == Spec => []IInv
BY InitEstablishes, StepKeeps, PTL DEF Spec

-----------------------------------------------------------------------------
(* The properties. *)

(* Every variable keeps its type; `unfinished` never falls below zero.     *)
THEOREM TypeCorrect == Spec => []TypeOK
<1>1. IInv => TypeOK
  BY DEF IInv
<1> QED
  BY <1>1, Inductive, PTL

(* However cancellations, faults and the starts of the pump interleave, no *)
(* more workers run than the pool has slots.                               *)
THEOREM PoolNeverExceeded == Spec => []PoolBound
<1>1. IInv => PoolBound
  BY DEF IInv, Books, PoolBound
<1> QED
  BY <1>1, Inductive, PTL

(* drain()'s counter is exact on every way out of the queue.               *)
THEOREM CounterIsExact == Spec => []UnfinishedCounts
<1>1. IInv => UnfinishedCounts
  BY DEF IInv, Books, UnfinishedCounts
<1> QED
  BY <1>1, Inductive, PTL

(* A waiting job and a free slot never go together with a sleeping pump.   *)
THEOREM NoWakeupIsLost == Spec => []NoLostWakeup
<1>1. IInv => NoLostWakeup
  BY DEF IInv
<1> QED
  BY <1>1, Inductive, PTL

(* A job is in one place of the queue at a time.                           *)
THEOREM JobsHaveOneHome == Spec => []OneHome
<1>1. IInv => OneHome
  BY DEF IInv, Books, Placed, OneHome
<1> QED
  BY <1>1, Inductive, PTL

(* A job that cancel() took out of the line never reaches a worker.        *)
THEOREM WithdrawnStaysOut == Spec => []WithdrawnNeverRuns
<1>1. IInv => WithdrawnNeverRuns
  BY DEF IInv, Called, WithdrawnNeverRuns
<1> QED
  BY <1>1, Inductive, PTL

-----------------------------------------------------------------------------
(* Jobs that will never run. *)

Waits(j) == \E i \in 1..Len(waiting) : waiting[i] = j

(* No worker was called and none will be: the job is marked, or startJob() *)
(* is giving it up, or it has left the queue.                              *)
Doomed(j) ==
  /\ work[j] = "none"
  /\ \/ j \in preempted
     \/ starting = j /\ pumpAt \in {"cancelling", "cancelled"}
     \/ starting # j /\ ~Waits(j) /\ enqueue[j] = "accepted"

(* The pump puts nobody in line, and takes in hand who is at its head. *)
LEMMA PumpLoopTakes ==
  ASSUME NEW line \in Seq(Jobs), NEW busy, NEW open, pumpLoop(line, busy, open), NEW j \in Jobs,
         \A i \in 1..Len(line) : line[i] # j
  PROVE  starting' # j /\ ~Waits(j)'
<1>1. CASE HasSlot(busy) /\ line # <<>> /\ Shift(line, open)
  <2>1. Len(line) \in Nat /\ Len(line) > 0 /\ Head(line) = line[1] /\ Len(Tail(line)) = Len(line) - 1
    BY <1>1
  <2>2. \A i \in 1..(Len(line) - 1) : Tail(line)[i] = line[i + 1] /\ i + 1 \in 1..Len(line)
    BY <2>1
  <2>3. 1 \in 1..Len(line)
    BY <2>1
  <2> QED
    BY <1>1, <2>1, <2>2, <2>3 DEF Shift, Waits
<1>2. CASE waiting' = line /\ starting' = NoJob
  BY <1>2, JobQueueAssumption DEF Waits
<1> QED
  BY <1>1, <1>2 DEF pumpLoop

(* Who is not marked has left the line. *)
LEMMA LeftTheLine ==
  ASSUME IInv, NEW j \in Jobs, Doomed(j), j \notin preempted
  PROVE  ~Waits(j) /\ enqueue[j] = "accepted"
<1>1. starting # NoJob => enqueue[starting] = "accepted"
  BY DEF IInv, Placed
<1>2. \A i \in 1..Len(waiting) : waiting[i] # starting
  BY DEF IInv, Books
<1>3. j # NoJob
  BY JobQueueAssumption
<1> QED
  BY <1>1, <1>2, <1>3 DEF Doomed, Waits

(* A step of a pump that goes on from what was in line, in hand and active. *)
LEMMA LoopDooms ==
  ASSUME IInv, NEW j \in Jobs, Doomed(j), work'[j] = "none", preempted' = preempted, enqueue' = enqueue,
         NEW busy, NEW open, pumpLoop(waiting, busy, open) \/ schedulePump(waiting, busy, open)
  PROVE  Doomed(j)'
<1>1. waiting \in Seq(Jobs)
  BY DEF IInv, Books
<1>2. CASE pumpAt' = pumpAt /\ starting' = starting /\ waiting' = waiting
  BY <1>2 DEF Doomed, Waits
<1>3. CASE pumpLoop(waiting, busy, open)
  <2>1. CASE j \in preempted
    BY <2>1 DEF Doomed
  <2>2. CASE j \notin preempted
    <3>1. ~Waits(j) /\ enqueue[j] = "accepted"
      BY <2>2, LeftTheLine
    <3>2. starting' # j /\ ~Waits(j)'
      BY <1>1, <1>3, <3>1, PumpLoopTakes DEF Waits
    <3> QED
      BY <3>1, <3>2 DEF Doomed
  <2> QED
    BY <2>1, <2>2
<1> QED
  BY <1>2, <1>3 DEF schedulePump

(* An accepted job joins the line at its end. *)
LEMMA AcceptDooms ==
  ASSUME IInv, NEW j \in Jobs, Doomed(j), NEW k \in Jobs, Accept(k)
  PROVE  Doomed(j)'
<1>1. /\ waiting \in Seq(Jobs) /\ enqueue \in [Jobs -> EnqueueAt] /\ work' = work /\ preempted' = preempted
      /\ enqueue[k] = "created" /\ enqueue' = [enqueue EXCEPT ![k] = "accepted"]
  BY DEF IInv, TypeOK, Accept, workVars
<1>2. CASE j \in preempted
  BY <1>1, <1>2 DEF Doomed
<1>3. CASE j \notin preempted
  <2>1. enqueue[j] = "accepted" /\ j # k /\ ~Waits(j)
    BY <1>1, <1>3, LeftTheLine
  <2>2. enqueue'[j] = "accepted"
    BY <1>1, <2>1
  <2> DEFINE line == Append(waiting, k)
  <2>3. line \in Seq(Jobs) /\ \A i \in 1..Len(line) : line[i] # j
    <3>1. Len(line) = Len(waiting) + 1 /\ line[Len(waiting) + 1] = k
      BY <1>1
    <3>2. \A i \in 1..Len(waiting) : line[i] = waiting[i]
      BY <1>1
    <3> QED
      BY <1>1, <2>1, <3>1, <3>2 DEF Waits
  <2> HIDE DEF line
  <2>4. CASE pumpAt = "idle" /\ pumpLoop(line, active, unfinished)
    BY <1>1, <2>2, <2>3, <2>4, PumpLoopTakes DEF Doomed
  <2>5. CASE pumpAt' = pumpAt /\ starting' = starting /\ waiting' = line
    BY <1>1, <1>3, <2>2, <2>3, <2>5 DEF Doomed, Waits
  <2> QED
    BY <2>4, <2>5 DEF Accept, schedulePump, line
<1> QED
  BY <1>2, <1>3

(* Who is taken out of the line leaves nobody behind who was not in it. *)
LEMMA CancelDooms ==
  ASSUME IInv, NEW j \in Jobs, Doomed(j), NEW c \in Callers, NEW k \in Jobs,
         CancelWaiting(c, k) \/ CancelActive(c, k) \/ CancelStored(c, k)
  PROVE  Doomed(j)'
<1>1. CASE CancelWaiting(c, k)
  <2>1. PICK i \in 1..Len(waiting) : waiting' = RemoveAt(waiting, i)
    BY <1>1 DEF CancelWaiting
  <2>2. /\ waiting \in Seq(Jobs) /\ Len(waiting) \in Nat
        /\ UNCHANGED <<pumpAt, starting, enqueue, work, preempted>>
    BY <1>1 DEF IInv, Books, CancelWaiting, workVars
  <2>3. Waits(j)' => Waits(j)
    <3>1. /\ Len(waiting') = Len(waiting) - 1
          /\ \A n \in 1..(Len(waiting) - 1) : waiting'[n] = IF n < i THEN waiting[n] ELSE waiting[n + 1]
      BY <2>1, <2>2, RemoveAtElements
    <3>2. \A n \in 1..(Len(waiting) - 1) : n \in 1..Len(waiting) /\ n + 1 \in 1..Len(waiting)
      BY <2>2
    <3> QED
      BY <3>1, <3>2 DEF Waits
  <2> QED
    BY <2>2, <2>3 DEF Doomed
<1>2. CASE CancelActive(c, k)
  <2>1. (work[k] # "none" /\ work' = [work EXCEPT ![k] = "settled"]) \/ work' = work
    BY <1>2 DEF CancelActive
  <2>2. work'[j] = "none"
    BY <2>1 DEF Doomed, IInv, TypeOK
  <2> QED
    BY <1>2, <2>2 DEF CancelActive, Doomed, Waits, pumpVars
<1>3. CASE CancelStored(c, k)
  BY <1>3 DEF CancelStored, Doomed, Waits, pumpVars, workVars
<1> QED
  BY <1>1, <1>2, <1>3

(* The steps of startJob(). *)
LEMMA StartDooms ==
  ASSUME IInv, NEW j \in Jobs, Doomed(j),
         \/ PersistRunning \/ StartWorker \/ HonourPreemption \/ PersistPreempted \/ FinishPreempted
  PROVE  Doomed(j)'
<1>1. j # NoJob /\ (starting = j => enqueue[j] = "accepted" /\ ~Waits(j))
  BY JobQueueAssumption DEF IInv, Books, Placed, Waits
<1>2. CASE StartWorker
  <2>1. starting # j
    BY <1>2 DEF StartWorker, Doomed
  <2> QED
    BY <1>1, <1>2, <2>1 DEF StartWorker, Doomed, Waits, IInv, TypeOK
<1>3. CASE FinishPreempted
  BY <1>1, <1>3 DEF FinishPreempted, Doomed, Waits, workVars
<1>4. CASE HonourPreemption
  BY <1>1, <1>4 DEF HonourPreemption, Doomed, Waits, workVars
<1>5. CASE PersistRunning \/ PersistPreempted
  BY <1>1, <1>5 DEF PersistRunning, PersistPreempted, Doomed, Waits, workVars
<1> QED
  BY <1>2, <1>3, <1>4, <1>5

LEMMA StaysDoomed ==
  ASSUME IInv, NEW j \in Jobs, Doomed(j), [Next]_vars
  PROVE  Doomed(j)'
<1>1. CASE UserStep
  <2>1. ASSUME NEW k \in Jobs, CreateJob(k)
        PROVE  Doomed(j)'
    BY <2>1 DEF CreateJob, Doomed, Waits, pumpVars, workVars, IInv, TypeOK
  <2> QED
    BY <1>1, <2>1, CancelDooms DEF UserStep
<1>2. CASE PumpStep
  <2>1. CASE PumpResumes
    BY <2>1, LoopDooms DEF PumpResumes, workVars, Doomed
  <2>2. CASE PumpFinally
    <3>1. CASE pumpLoop(waiting, active, unfinished)
      BY <2>2, <3>1, LoopDooms DEF PumpFinally, workVars, Doomed
    <3>2. CASE pumpAt' = "idle" /\ UNCHANGED <<waiting, starting, unfinished>>
      BY <2>2, <3>2 DEF PumpFinally, workVars, Doomed, Waits
    <3> QED
      BY <2>2, <3>1, <3>2 DEF PumpFinally
  <2> QED
    BY <1>2, <2>1, <2>2, StartDooms DEF PumpStep
<1>3. ASSUME NEW k \in Jobs, Accept(k) \/ WorkStep(k) \/ CreateJobRejects(k) \/ PersistTerminalRejects(k)
      PROVE  Doomed(j)'
  <2>1. CASE Release(k)
    <3>1. work'[j] = "none" /\ preempted' = preempted /\ enqueue' = enqueue
      BY <2>1 DEF Release, Doomed, IInv, TypeOK
    <3> QED
      BY <2>1, <3>1, LoopDooms DEF Release
  <2>2. CASE WorkerExits(k) \/ WorkerBreaks(k) \/ WorkerSettles(k) \/ PersistTerminal(k) \/ EmitTerminal(k)
             \/ PersistTerminalRejects(k)
    BY <2>2 DEF WorkerExits, WorkerBreaks, WorkerSettles, PersistTerminal, EmitTerminal, PersistTerminalRejects,
                Doomed, Waits, pumpVars, IInv, TypeOK
  <2>3. CASE CreateJobRejects(k)
    BY <2>3 DEF CreateJobRejects, Doomed, Waits, pumpVars, workVars, IInv, TypeOK
  <2> QED
    BY <1>3, <2>1, <2>2, <2>3, AcceptDooms DEF WorkStep
<1>4. ASSUME NEW c \in Callers, CallStep(c) \/ CancelThrows(c)
      PROVE  Doomed(j)'
  BY <1>4 DEF CallStep, PersistWithdrawn, ReplyWithdrawn, ReadStored, WriteStored, MarkPreempted, CancelThrows,
              Doomed, Waits, pumpVars, workVars
<1>5. CASE StartJobRejects
  BY <1>5, LoopDooms DEF StartJobRejects, workVars, Doomed
<1>6. CASE UNCHANGED vars
  BY <1>6 DEF vars, Doomed, Waits
<1> QED
  BY <1>1, <1>2, <1>3, <1>4, <1>5, <1>6 DEF Next, StoreFault

(* For any jobs, callers, pool and faults: a job marked by cancel() before *)
(* its worker was called is never handed to one.                           *)
THEOREM PreemptedStaysOut == Spec => PreemptedNeverRuns
<1>1. ASSUME NEW j \in Jobs
      PROVE  Spec => [](j \in preempted /\ work[j] = "none" => [](work[j] = "none"))
  <2>1. j \in preempted /\ work[j] = "none" => Doomed(j)
    BY DEF Doomed
  <2>2. Doomed(j) => work[j] = "none"
    BY DEF Doomed
  <2>3. IInv /\ Doomed(j) /\ [Next]_vars => Doomed(j)'
    BY StaysDoomed
  <2> QED
    BY <2>1, <2>2, <2>3, Inductive, PTL DEF Spec
<1> QED
  BY <1>1 DEF PreemptedNeverRuns
=============================================================================
