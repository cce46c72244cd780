---------------------------- MODULE RunTreeSteps ----------------------------
(***************************************************************************)
(* The inductive invariant of RunTree, and what its operators and steps do *)
(* to the rows, the updates under way, the requests and the hub's record:  *)
(* the lemmas RunTreeProofs rests on.                                      *)
(***************************************************************************)
EXTENDS RunTree, FiniteSetTheorems, SequenceTheorems, TLAPS

-----------------------------------------------------------------------------
(* The inductive invariant. *)

ChainAt  == {"update", "read", "list", "write"}
Cancels  == {"cancel", "persist", "persisting", "publish", "publishing", "rootWrite", "rootPublish", "rootEvent"}
Enqueues == {"enqueue", "failing", "error"}
Asking   == {"idle", "retry", "stop"}
RequestAt == {"answered", "refused"} \cup Asking \cup Cancels \cup Enqueues
JobStates == {"queued", "running"} \cup RUN_TERMINAL_STATUSES

Row     == [parent : RunIds \cup {None}, leaf : BOOLEAN, status : Statuses]
Update  == [by : Requests \cup {None}, run : RunIds, status : Statuses, at : ChainAt, seen : Statuses \cup {"none"}]
Doing   == [at : RequestAt, root : RunIds \cup {None}, todo : Seq(RunIds)]
Pending == 1 .. Len(chains)

Shape == /\ runs \in Seq(Row) /\ Len(runs) <= MaxRuns
         /\ life \in [RunIds -> {"unknown"} \cup JobStates]
         /\ lastState \in [RunIds -> {"none"} \cup JobStates]
         /\ chains \in Seq(Update) /\ Len(chains) <= MaxChains
         /\ request \in [Requests -> Doing]
         /\ asked \subseteq Rows /\ faults \in 0 .. MaxFaults

(* Leaves have a parent and no children; the others have children.  Only leaves
   have jobs, and nothing is published of a run that is not stored.          *)
Tree ==
  /\ \A r \in Rows : /\ runs[r].leaf => runs[r].parent # None
                     /\ runs[r].parent # None => runs[r].parent \in Rows /\ ~runs[runs[r].parent].leaf
                     /\ ~runs[r].leaf => Children(r) # {}
                     /\ ~runs[r].leaf => lastState[r] \in {"none", "cancelled"}
  /\ \A r \in RunIds : /\ life[r] # "unknown" => r \in Rows /\ runs[r].leaf
                       /\ r \notin Rows => lastState[r] = "none"

(* What a request is at, it holds: those it is to enqueue are leaves without a
   job that nobody else is to enqueue.                                       *)
Listed(q, r) == \E i \in 1 .. Len(request[q].todo) : request[q].todo[i] = r
HoldsOf(q) ==
  /\ \A r \in RunIds : Listed(q, r) => r \in Rows
  /\ request[q].at \in Enqueues => \A r \in RunIds : Listed(q, r) => runs[r].leaf /\ life[r] = "unknown"
  /\ request[q].at \in Cancels => request[q].root \in Rows /\ ~runs[request[q].root].leaf
  /\ request[q].at \in {"persist", "persisting", "publish"} => Rest(q)
Apart(q, p) ==
  request[q].at \in Enqueues /\ request[p].at \in Enqueues =>
    \A i \in 1 .. Len(request[q].todo), k \in 1 .. Len(request[p].todo) :
      request[q].todo[i] = request[p].todo[k] => q = p /\ i = k
Holds == \A q \in Requests : HoldsOf(q) /\ \A p \in Requests : Apart(q, p)

(* A parent's cancel is about to be published, or has been. *)
IsCancelling(q, r) == request[q].at \in {"persisting", "publish"} /\ Current(q) = r
Cancelling(r) == \E q \in Requests : IsCancelling(q, r)
Owes(q, p) == IsCancelling(q, p) \/ (request[q].at \in {"rootWrite", "rootPublish"} /\ request[q].root = p)
Owed(p) == lastState[p] = "cancelled" \/ \E q \in Requests : Owes(q, p)

(* Updates overtake none, a request waits for one at a time, and a parent is
   never told anything but cancelled.                                        *)
Placed(c) ==
  /\ chains[c].run \in Rows
  /\ chains[c].by # None => request[chains[c].by].at \in DOMAIN After
  /\ chains[c].at \in {"list", "write"} => runs[chains[c].run].parent # None /\ chains[c].seen \in Statuses
  /\ ~runs[chains[c].run].leaf => chains[c].status = "cancelled" /\ Owed(chains[c].run)
Behind(c, d) == Stage(c) >= Stage(d) /\ (chains[c].by = chains[d].by => chains[c].by = None)
Line == (\A c \in Pending : Placed(c)) /\ \A c, d \in Pending : c < d => Behind(c, d)

(* What the hub knows of a job. *)
Known ==
  \A r \in RunIds :
    /\ life[r] = "unknown" => lastState[r] \in {"none", "cancelled"}
    /\ life[r] # "unknown" => lastState[r] \in {life[r], "cancelled"}

(* What the row of r says once the updates under way are made. *)
Tells(r, status) ==
  \/ runs[r].status = status /\ \A c \in Pending : chains[c].run = r => chains[c].at # "update"
  \/ \E c \in Pending :
       /\ chains[c].run = r /\ chains[c].at = "update" /\ chains[c].status = status
       /\ \A d \in c + 1 .. Len(chains) : chains[d].run = r => chains[d].at # "update"

(* The row of a leaf with a job will tell what was published last, or what is about to be. *)
Saying(r) == Tells(r, lastState[r]) \/ (Tells(r, "cancelled") /\ Cancelling(r))
Told == \A r \in Rows : life[r] # "unknown" /\ lastState[r] # "queued" => Saying(r)

(* A leaf without a job has its turn to come, is stuck, or will tell its end. *)
Awaits(r) == \E q \in Requests : request[q].at \in Enqueues /\ Listed(q, r)
Ends(r) == \E status \in RUN_TERMINAL_STATUSES : Tells(r, status)
Remembered == \A r \in Rows : runs[r].leaf /\ life[r] = "unknown" => Awaits(r) \/ Ends(r)

(* Roll-ups: a parent whose children are over agrees with them, or the newest
   roll-up under way will see to that.                                       *)
Rolls(p, c) == runs[chains[c].run].parent = p /\ chains[c].at # "update"
Settled(p) == \A r \in Children(p) : runs[r].leaf /\ runs[r].status \notin {"queued", "running"}
Newest(p, c) == /\ Rolls(p, c) /\ \A d \in c + 1 .. Len(chains) : ~Rolls(p, d)
                /\ chains[c].at = "write" => chains[c].seen = RollupOf(p)
Agreed(p) == /\ \A c \in Pending : ~Rolls(p, c)
             /\ runs[p].status = RollupOf(p) \/ (runs[p].status = "cancelled" /\ Owed(p))
RolledUp(p) == Agreed(p) \/ \E c \in Pending : Newest(p, c)
Agrees == \A p \in Parents : Settled(p) => RolledUp(p)

IInv == /\ Shape /\ Tree /\ Holds /\ Line /\ Known /\ Told /\ Remembered /\ Agrees

-----------------------------------------------------------------------------
(* Lemmas about the operators the model is built from. *)

LEMMA SizesAre == Requests \subseteq Nat \ {0} /\ RunIds \subseteq Nat \ {0} /\ None = 0
BY RunTreeAssumption DEF Requests, RunIds, None

LEMMA AfterIs ==
  /\ DOMAIN After = {"failing", "persisting", "publishing", "rootWrite", "rootEvent"}
  /\ After["failing"] = "enqueue" /\ After["persisting"] = "publish" /\ After["publishing"] = "cancel"
  /\ After["rootWrite"] = "rootPublish" /\ After["rootEvent"] = "answered"
BY DEF After

(* The rows and what they hold. *)
LEMMA RowsAre ==
  ASSUME Shape
  PROVE  /\ Len(runs) \in Nat /\ Rows = 1 .. Len(runs) /\ Rows \subseteq RunIds
         /\ \A r \in Rows : /\ runs[r] \in Row /\ runs[r].parent \in RunIds \cup {None}
                            /\ runs[r].leaf \in BOOLEAN /\ runs[r].status \in Statuses
<1>1. runs \in Seq(Row) /\ Len(runs) <= MaxRuns /\ MaxRuns \in Nat
  BY RunTreeAssumption DEF Shape
<1>2. \A r \in 1 .. Len(runs) : runs[r] \in Row
  BY <1>1, ElementOfSeq
<1> QED
  BY <1>1, <1>2 DEF Rows, RunIds, Row

(* The updates under way. *)
LEMMA ChainsAre ==
  ASSUME Shape
  PROVE  /\ Len(chains) \in Nat /\ Pending = 1 .. Len(chains) /\ DOMAIN chains = Pending
         /\ \A c \in Pending : /\ chains[c] \in Update
                               /\ chains[c].by \in Requests \cup {None} /\ chains[c].run \in RunIds
                               /\ chains[c].status \in Statuses /\ chains[c].at \in ChainAt
                               /\ chains[c].seen \in Statuses \cup {"none"}
<1>1. chains \in Seq(Update)
  BY DEF Shape
<1>2. \A c \in 1 .. Len(chains) : chains[c] \in Update
  BY <1>1, ElementOfSeq
<1> QED
  BY <1>1, <1>2 DEF Pending, Update

LEMMA RequestsAre ==
  ASSUME Shape, NEW q \in Requests
  PROVE  /\ request[q] \in Doing /\ request[q].at \in RequestAt /\ request[q].root \in RunIds \cup {None}
         /\ request[q].todo \in Seq(RunIds) /\ Len(request[q].todo) \in Nat
         /\ \A i \in 1 .. Len(request[q].todo) : request[q].todo[i] \in RunIds
<1>1. request[q] \in Doing
  BY DEF Shape
<1>2. request[q].todo \in Seq(RunIds)
  BY <1>1 DEF Doing
<1> QED
  BY <1>1, <1>2, ElementOfSeq DEF Doing

LEMMA StageAt ==
  ASSUME NEW at \in ChainAt, NEW stage, stage = CHOOSE n \in 1 .. 4 : Stages[n] = at
  PROVE  /\ stage \in 1 .. 4 /\ Stages[stage] = at
         /\ at = "update" <=> stage = 1
         /\ at = "read" <=> stage = 2
         /\ at = "list" <=> stage = 3
         /\ at = "write" <=> stage = 4
<1>1. at \in {"update", "read", "list", "write"}
  BY DEF ChainAt
<1>2. Stages[1] = "update" /\ Stages[2] = "read" /\ Stages[3] = "list" /\ Stages[4] = "write"
  BY DEF Stages
<1>3. \E n \in 1 .. 4 : Stages[n] = at
  BY <1>1, <1>2
<1>4. stage \in 1 .. 4 /\ Stages[stage] = at
  BY <1>3
<1>5. stage = 1 \/ stage = 2 \/ stage = 3 \/ stage = 4
  BY <1>4
<1> QED
  BY <1>2, <1>4, <1>5

LEMMA StageIs ==
  ASSUME Shape, NEW c \in Pending
  PROVE  /\ Stage(c) \in 1 .. 4 /\ Stages[Stage(c)] = chains[c].at
         /\ chains[c].at = "update" <=> Stage(c) = 1
         /\ chains[c].at = "read" <=> Stage(c) = 2
         /\ chains[c].at = "list" <=> Stage(c) = 3
         /\ chains[c].at = "write" <=> Stage(c) = 4
<1>1. chains[c].at \in ChainAt
  BY ChainsAre
<1>2. Stage(c) = CHOOSE n \in 1 .. 4 : Stages[n] = chains[c].at
  BY DEF Stage
<1> QED
  BY <1>1, <1>2, StageAt

(* The statuses of the children decide. *)
LEMMA RollupIs ==
  ASSUME NEW S \in SUBSET Statuses, S # {}
  PROVE  /\ rollupRunStatus(S) \in Statuses
         /\ S \cap {"queued", "running"} # {} => rollupRunStatus(S) \in {"queued", "running"}
         /\ S \cap {"queued", "running"} = {} =>
              /\ rollupRunStatus(S) \in RUN_TERMINAL_STATUSES \cup {"partial"}
              /\ \A s \in RUN_TERMINAL_STATUSES : rollupRunStatus(S) = s <=> S = {s}
<1>1. IsFiniteSet(S)
  <2>1. Statuses = {"queued", "running", "partial", "succeeded", "failed", "cancelled"}
    BY DEF Statuses, RUN_TERMINAL_STATUSES
  <2>2. IsFiniteSet(Statuses)
    <3>1. IsFiniteSet({}) /\ IsFiniteSet({} \cup {"queued"})
      BY FS_EmptySet, FS_AddElement
    <3>2. IsFiniteSet({} \cup {"queued"} \cup {"running"})
      BY <3>1, FS_AddElement
    <3>3. IsFiniteSet({} \cup {"queued"} \cup {"running"} \cup {"partial"})
      BY <3>2, FS_AddElement
    <3>4. IsFiniteSet({} \cup {"queued"} \cup {"running"} \cup {"partial"} \cup {"succeeded"})
      BY <3>3, FS_AddElement
    <3>5. IsFiniteSet({} \cup {"queued"} \cup {"running"} \cup {"partial"} \cup {"succeeded"} \cup {"failed"})
      BY <3>4, FS_AddElement
    <3>6. IsFiniteSet({} \cup {"queued"} \cup {"running"} \cup {"partial"} \cup {"succeeded"} \cup {"failed"} \cup {"cancelled"})
      BY <3>5, FS_AddElement
    <3>7. Statuses = {} \cup {"queued"} \cup {"running"} \cup {"partial"} \cup {"succeeded"} \cup {"failed"} \cup {"cancelled"}
      BY <2>1
    <3> QED
      BY <3>6, <3>7
  <2> QED
    BY <2>2, FS_Subset
<1>2. Cardinality(S) = 1 <=> \E x : S = {x}
  BY <1>1, FS_Singleton
<1>3. Cardinality(S) = 1 => (CHOOSE s \in S : TRUE) \in S /\ S = {CHOOSE s \in S : TRUE}
  BY <1>2
<1>4. \A x \in S : x \in {"queued", "running", "partial", "succeeded", "failed", "cancelled"}
  BY DEF Statuses, RUN_TERMINAL_STATUSES
<1>5. S \cap {"queued", "running"} = {} <=> S \subseteq RUN_TERMINAL_STATUSES \cup {"partial"}
  BY <1>4 DEF RUN_TERMINAL_STATUSES
<1>6. CASE S \cap {"queued", "running"} # {}
  BY <1>5, <1>6 DEF rollupRunStatus, Statuses
<1>7. CASE S \cap {"queued", "running"} = {}
  <2>1. S \subseteq RUN_TERMINAL_STATUSES \cup {"partial"}
    BY <1>5, <1>7
  <2>2. rollupRunStatus(S) = IF Cardinality(S) = 1 THEN CHOOSE s \in S : TRUE ELSE "partial"
    BY <2>1 DEF rollupRunStatus
  <2>3. CASE Cardinality(S) = 1
    BY <1>3, <1>7, <2>1, <2>2, <2>3 DEF RUN_TERMINAL_STATUSES, Statuses
  <2>4. CASE Cardinality(S) # 1
    BY <1>2, <1>7, <2>1, <2>2, <2>4 DEF RUN_TERMINAL_STATUSES, Statuses
  <2> QED
    BY <2>3, <2>4
<1> QED
  BY <1>6, <1>7

-----------------------------------------------------------------------------
(* Lemmas about the steps that the updates under way take. *)

LEMMA CallAdds ==
  ASSUME Shape, NEW by \in Requests \cup {None}, NEW r \in RunIds, NEW status \in Statuses, Call(by, r, status)
  PROVE  /\ chains' \in Seq(Update) /\ Len(chains') = Len(chains) + 1 /\ Len(chains') <= MaxChains
         /\ Pending' = 1 .. Len(chains) + 1
         /\ \A c \in Pending : chains'[c] = chains[c]
         /\ chains'[Len(chains) + 1] = Chain(by, r, status)
<1>1. Chain(by, r, status) \in Update
  BY DEF Chain, Update, ChainAt
<1>2. chains \in Seq(Update) /\ Len(chains) \in Nat /\ MaxChains \in Nat
  BY ChainsAre, RunTreeAssumption DEF Shape
<1>3. chains' = Append(chains, Chain(by, r, status)) /\ Len(chains) < MaxChains
  BY DEF Call
<1> QED
  BY <1>1, <1>2, <1>3 DEF Pending

LEMMA AdvanceMoves ==
  ASSUME Shape, NEW c \in Pending, chains[c].at # "write", NEW seen \in Statuses \cup {"none"}, Advance(c, seen)
  PROVE  /\ chains' \in Seq(Update) /\ Len(chains') = Len(chains) /\ Pending' = Pending
         /\ \A d \in Pending : d # c => chains'[d] = chains[d]
         /\ chains'[c].by = chains[c].by /\ chains'[c].run = chains[c].run
         /\ chains'[c].status = chains[c].status /\ chains'[c].seen = seen
         /\ chains'[c].at = Stages[Stage(c) + 1]
         /\ chains[c].at = "update" => chains'[c].at = "read"
         /\ chains[c].at = "read" => chains'[c].at = "list"
         /\ chains[c].at = "list" => chains'[c].at = "write"
         /\ request' = request
<1> DEFINE new == [chains[c] EXCEPT !.at = Stages[Stage(c) + 1], !.seen = seen]
<1>1. /\ chains \in Seq(Update) /\ Len(chains) \in Nat /\ Pending = 1 .. Len(chains)
      /\ chains[c] \in Update /\ chains[c].at \in ChainAt
  BY ChainsAre DEF Shape
<1>2. Stages[2] = "read" /\ Stages[3] = "list" /\ Stages[4] = "write"
  BY DEF Stages
<1>3. /\ Stages[Stage(c) + 1] \in ChainAt
      /\ chains[c].at = "update" => Stages[Stage(c) + 1] = "read"
      /\ chains[c].at = "read" => Stages[Stage(c) + 1] = "list"
      /\ chains[c].at = "list" => Stages[Stage(c) + 1] = "write"
  BY <1>1, <1>2, StageIs DEF ChainAt
<1>4. new \in Update
  BY <1>1, <1>3 DEF Update
<1>5. chains' = [chains EXCEPT ![c] = new] /\ request' = request
  BY DEF Advance
<1>6. /\ chains' \in Seq(Update) /\ Len(chains') = Len(chains)
      /\ chains'[c] = new /\ \A d \in Pending : d # c => chains'[d] = chains[d]
  <2> HIDE DEF new
  <2>1. c \in 1 .. Len(chains)
    BY <1>1
  <2> QED
    BY <1>1, <1>4, <1>5, <2>1, ExceptSeq
<1>7. /\ new.by = chains[c].by /\ new.run = chains[c].run /\ new.status = chains[c].status
      /\ new.seen = seen /\ new.at = Stages[Stage(c) + 1]
  BY <1>1 DEF Update
<1> HIDE DEF new
<1> QED
  BY <1>1, <1>3, <1>5, <1>6, <1>7 DEF Pending

(* The update at c returns; those after it move up, and its caller goes on. *)
Left(c, d) == IF d < c THEN d ELSE d + 1
LEMMA ReturnRemoves ==
  ASSUME Shape, NEW c \in Pending, Return(c)
  PROVE  /\ chains' \in Seq(Update) /\ Len(chains') = Len(chains) - 1
         /\ Pending' = 1 .. Len(chains) - 1
         /\ \A d \in 1 .. Len(chains) - 1 :
              Left(c, d) \in Pending /\ Left(c, d) # c /\ chains'[d] = chains[Left(c, d)]
         /\ \A d \in Pending : d # c => \E e \in 1 .. Len(chains) - 1 : Left(c, e) = d
         /\ \A d, e \in 1 .. Len(chains) - 1 : d < e => Left(c, d) < Left(c, e)
<1> DEFINE n == Len(chains)
           front == SubSeq(chains, 1, c - 1)
           back  == SubSeq(chains, c + 1, n)
<1>1. chains \in Seq(Update) /\ n \in Nat /\ c \in 1 .. n /\ Pending = 1 .. n
  BY ChainsAre DEF Shape
<1>2. chains' = front \o back
  BY DEF Return
<1>3. front \in Seq(Update) /\ Len(front) = c - 1 /\ \A d \in 1 .. c - 1 : front[d] = chains[d]
  BY <1>1, SubSeqProperties
<1>4. back \in Seq(Update) /\ Len(back) = n - c /\ \A d \in 1 .. n - c : back[d] = chains[c + d]
  BY <1>1, SubSeqProperties
<1> HIDE DEF front, back
<1>5. /\ chains' \in Seq(Update) /\ Len(chains') = n - 1
      /\ \A d \in 1 .. n - 1 : chains'[d] = IF d <= c - 1 THEN front[d] ELSE back[d - (c - 1)]
  <2>1. Len(front) + Len(back) = n - 1
    BY <1>1, <1>3, <1>4
  <2>2. front \o back \in Seq(Update) /\ Len(front \o back) = Len(front) + Len(back)
    BY <1>3, <1>4, ConcatProperties
  <2>3. \A d \in 1 .. Len(front) + Len(back) :
          (front \o back)[d] = IF d <= Len(front) THEN front[d] ELSE back[d - Len(front)]
    BY <1>3, <1>4, ConcatProperties
  <2> QED
    BY <1>2, <1>3, <2>1, <2>2, <2>3
<1>6. ASSUME NEW d \in 1 .. n - 1
      PROVE  Left(c, d) \in Pending /\ Left(c, d) # c /\ chains'[d] = chains[Left(c, d)]
  <2>1. CASE d < c
    <3>1. d \in 1 .. c - 1 /\ d <= c - 1
      BY <1>1, <2>1
    <3> QED
      BY <1>1, <1>3, <1>5, <2>1, <3>1 DEF Left
  <2>2. CASE ~(d < c)
    <3>1. d - (c - 1) \in 1 .. n - c /\ c + (d - (c - 1)) = d + 1 /\ ~(d <= c - 1)
      BY <1>1, <2>2
    <3>2. back[d - (c - 1)] = chains[c + (d - (c - 1))]
      BY <1>4, <3>1
    <3> QED
      BY <1>1, <1>5, <2>2, <3>1, <3>2 DEF Left
  <2> QED
    BY <2>1, <2>2
<1>7. \A d \in Pending : d # c => \E e \in 1 .. n - 1 : Left(c, e) = d
  <2> TAKE d \in Pending
  <2> HAVE d # c
  <2>1. CASE d < c
    <3>1. d \in 1 .. n - 1 /\ Left(c, d) = d
      BY <1>1, <2>1 DEF Left
    <3> QED
      BY <3>1
  <2>2. CASE d > c
    <3>1. d - 1 \in 1 .. n - 1 /\ Left(c, d - 1) = d
      BY <1>1, <2>2 DEF Left
    <3> QED
      BY <3>1
  <2> QED
    BY <1>1, <2>1, <2>2
<1>8. \A d, e \in 1 .. n - 1 : d < e => Left(c, d) < Left(c, e)
  BY <1>1 DEF Left
<1> QED
  BY <1>1, <1>5, <1>6, <1>7, <1>8 DEF Pending

-----------------------------------------------------------------------------
(* Lemmas about the steps that change the table of runs. *)

SameTree == /\ Len(runs') = Len(runs)
            /\ \A r \in Rows : runs'[r].parent = runs[r].parent /\ runs'[r].leaf = runs[r].leaf

LEMMA SameTreeIs ==
  ASSUME SameTree PROVE Rows' = Rows /\ (\A p : Children(p)' = Children(p)) /\ Parents' = Parents
<1>1. Rows' = Rows
  BY DEF SameTree, Rows
<1>2. \A p : Children(p)' = Children(p)
  BY <1>1 DEF SameTree, Children
<1> QED
  BY <1>1, <1>2 DEF Parents

LEMMA SetStatusKeeps ==
  ASSUME Shape, NEW r \in Rows, NEW status \in Statuses, SetStatus(r, status)
  PROVE  /\ runs' \in Seq(Row) /\ SameTree
         /\ runs'[r].status = status
         /\ \A x \in Rows : x # r => runs'[x] = runs[x]
<1> DEFINE new == [runs[r] EXCEPT !.status = status]
<1>1. runs \in Seq(Row) /\ runs[r] \in Row /\ r \in 1 .. Len(runs) /\ Rows = 1 .. Len(runs)
  BY RowsAre DEF Shape
<1>2. new \in Row /\ new.parent = runs[r].parent /\ new.leaf = runs[r].leaf /\ new.status = status
  BY <1>1 DEF Row
<1>3. runs' = [runs EXCEPT ![r] = new]
  BY DEF SetStatus
<1> HIDE DEF new
<1>4. /\ runs' \in Seq(Row) /\ Len(runs') = Len(runs)
      /\ runs'[r] = new /\ \A x \in Rows : x # r => runs'[x] = runs[x]
  BY <1>1, <1>2, <1>3, ExceptSeq
<1> QED
  BY <1>1, <1>2, <1>4 DEF SameTree

LEMMA ListIs ==
  ASSUME NEW S, NEW n \in Nat, NEW f \in [1 .. n -> S]
  PROVE  f \in Seq(S) /\ Len(f) = n /\ \A i \in 1 .. n : f[i] \in S
<1>1. f \in Seq(S)
  BY SeqDef
<1>2. DOMAIN f = 1 .. n /\ DOMAIN f = 1 .. Len(f) /\ Len(f) \in Nat
  BY <1>1, LenProperties
<1> QED
  BY <1>1, <1>2

LEMMA OneIs ==
  ASSUME NEW S, NEW x \in S
  PROVE  <<x>> \in Seq(S) /\ Len(<<x>>) = 1 /\ <<x>>[1] = x
OBVIOUS

LEMMA RunIs ==
  ASSUME NEW parent \in RunIds \cup {None}, NEW leaf \in BOOLEAN
  PROVE  /\ Run(parent, leaf) \in Row
         /\ Run(parent, leaf).parent = parent /\ Run(parent, leaf).leaf = leaf /\ Run(parent, leaf).status = "queued"
BY DEF Run, Row, Statuses

(* Rows are added behind the others. *)
Grown == /\ Len(runs') \in Nat /\ Len(runs') >= Len(runs) /\ Len(runs') <= MaxRuns /\ runs' \in Seq(Row)
         /\ \A r \in Rows : runs'[r] = runs[r]
         /\ \A r \in Rows' : r \notin Rows => runs'[r].status = "queued"

LEMMA InsertAdds ==
  ASSUME Shape, NEW q \in Requests, NEW parent \in RunIds \cup {None}, NEW count \in Nat, Insert(q, parent, count)
  PROVE  LET root == Len(runs) + 1 IN
         /\ Grown /\ Len(runs') = root + count /\ root \in RunIds
         /\ runs'[root] = Run(parent, FALSE)
         /\ \A i \in 1 .. count : runs'[root + i] = Run(root, TRUE)
         /\ \A r \in Rows' : r \in Rows \/ r = root \/ \E i \in 1 .. count : r = root + i
         /\ request' = [request EXCEPT ![q] =
              [at |-> "enqueue", root |-> root, todo |-> [i \in 1 .. count |-> root + i]]]
         /\ [i \in 1 .. count |-> root + i] \in Seq(RunIds)
<1> DEFINE root == Len(runs) + 1
           first == <<Run(parent, FALSE)>>
           rest  == [i \in 1 .. count |-> Run(root, TRUE)]
<1>1. /\ runs \in Seq(Row) /\ Len(runs) \in Nat /\ Rows = 1 .. Len(runs) /\ MaxRuns \in Nat
      /\ root + count <= MaxRuns
  BY RowsAre, RunTreeAssumption DEF Shape, Insert
<1>2. root \in RunIds
  BY <1>1 DEF RunIds
<1>3. first \in Seq(Row) /\ Len(first) = 1 /\ first[1] = Run(parent, FALSE)
  <2>1. Run(parent, FALSE) \in Row
    BY RunIs
  <2> QED
    BY <2>1, OneIs
<1>4. rest \in Seq(Row) /\ Len(rest) = count /\ \A i \in 1 .. count : rest[i] = Run(root, TRUE)
  <2>1. Run(root, TRUE) \in Row
    BY <1>2, RunIs
  <2>2. rest \in [1 .. count -> Row]
    BY <2>1
  <2>3. \A i \in 1 .. count : rest[i] = Run(root, TRUE)
    OBVIOUS
  <2> HIDE DEF rest
  <2> QED
    BY <2>2, <2>3, ListIs
<1> HIDE DEF first, rest
<1> DEFINE head == runs \o first
<1>5. /\ head \in Seq(Row) /\ Len(head) = root
      /\ \A r \in Rows : head[r] = runs[r]
      /\ head[root] = Run(parent, FALSE)
  <2>1. /\ runs \o first \in Seq(Row) /\ Len(runs \o first) = Len(runs) + Len(first)
        /\ \A i \in 1 .. Len(runs) + Len(first) :
             (runs \o first)[i] = IF i <= Len(runs) THEN runs[i] ELSE first[i - Len(runs)]
    BY <1>1, <1>3, ConcatProperties
  <2>2. \A r \in Rows : r \in 1 .. Len(runs) + Len(first) /\ r <= Len(runs)
    BY <1>1, <1>3
  <2>3. root \in 1 .. Len(runs) + Len(first) /\ ~(root <= Len(runs)) /\ root - Len(runs) = 1
    BY <1>1, <1>3
  <2>4. head[root] = first[1]
    BY <2>1, <2>3
  <2> QED
    BY <1>3, <2>1, <2>2, <2>4
<1>6. runs' = head \o rest
  BY DEF Insert, first, rest
<1> HIDE DEF head
<1>7. /\ runs' \in Seq(Row) /\ Len(runs') = root + count
      /\ \A i \in 1 .. root + count : runs'[i] = IF i <= root THEN head[i] ELSE rest[i - root]
  <2>1. /\ head \o rest \in Seq(Row) /\ Len(head \o rest) = Len(head) + Len(rest)
        /\ \A i \in 1 .. Len(head) + Len(rest) :
             (head \o rest)[i] = IF i <= Len(head) THEN head[i] ELSE rest[i - Len(head)]
    BY <1>4, <1>5, ConcatProperties
  <2> QED
    BY <1>4, <1>5, <1>6, <2>1
<1>8. (\A r \in Rows : runs'[r] = runs[r]) /\ runs'[root] = Run(parent, FALSE)
  <2>1. \A r \in Rows : r \in 1 .. root + count /\ r <= root
    BY <1>1
  <2>2. root \in 1 .. root + count /\ root <= root
    BY <1>1
  <2> HIDE DEF root
  <2> QED
    BY <1>5, <1>7, <2>1, <2>2
<1>9. ASSUME NEW i \in 1 .. count PROVE runs'[root + i] = Run(root, TRUE)
  <2>1. root + i \in 1 .. root + count /\ ~(root + i <= root) /\ (root + i) - root = i
    BY <1>1
  <2> QED
    BY <1>4, <1>7, <2>1
<1>10. ASSUME NEW r \in Rows' PROVE r \in Rows \/ r = root \/ \E i \in 1 .. count : r = root + i
  <2>1. r \in 1 .. root + count
    BY <1>7 DEF Rows
  <2>2. r \in 1 .. Len(runs) \/ r = root \/ (r - root \in 1 .. count /\ r = root + (r - root))
    BY <1>1, <2>1
  <2> QED
    BY <1>1, <2>2
<1>11. \A r \in Rows' : r \notin Rows => runs'[r].status = "queued"
  <2>1. Run(parent, FALSE).status = "queued" /\ Run(root, TRUE).status = "queued"
    BY <1>2, RunIs
  <2> HIDE DEF root
  <2> QED
    BY <1>8, <1>9, <1>10, <2>1
<1>12. [i \in 1 .. count |-> root + i] \in Seq(RunIds)
  <2>1. \A i \in 1 .. count : root + i \in RunIds
    BY <1>1 DEF RunIds
  <2> DEFINE todo == [i \in 1 .. count |-> root + i]
  <2>2. todo \in [1 .. count -> RunIds]
    BY <2>1
  <2> HIDE DEF todo
  <2>3. todo \in Seq(RunIds)
    BY <2>2, ListIs
  <2> QED
    BY <2>3 DEF todo
<1>13. request' = [request EXCEPT ![q] =
         [at |-> "enqueue", root |-> root, todo |-> [i \in 1 .. count |-> root + i]]]
  BY DEF Insert
<1>14. Grown
  BY <1>1, <1>7, <1>8, <1>11 DEF Grown
<1> QED
  BY <1>2, <1>7, <1>8, <1>9, <1>10, <1>12, <1>13, <1>14

-----------------------------------------------------------------------------
(* What a row will tell, through the steps of the updates. *)

LEMMA TellsAdds ==
  ASSUME Shape, NEW by \in Requests \cup {None}, NEW r \in Rows, NEW status \in Statuses,
         Call(by, r, status), UNCHANGED runs, NEW x \in Rows
  PROVE  /\ x = r => Tells(x, status)'
         /\ x # r => \A s : Tells(x, s) => Tells(x, s)'
<1> DEFINE n == Len(chains)
<1>1. r \in RunIds /\ n \in Nat /\ Pending = 1 .. n
  BY RowsAre, ChainsAre
<1>2. /\ Pending' = 1 .. n + 1 /\ Len(chains') = n + 1
      /\ \A c \in Pending : chains'[c] = chains[c]
      /\ chains'[n + 1].run = r /\ chains'[n + 1].at = "update" /\ chains'[n + 1].status = status
  <2>1. Chain(by, r, status).run = r /\ Chain(by, r, status).at = "update" /\ Chain(by, r, status).status = status
    BY DEF Chain
  <2>2. /\ Len(chains') = Len(chains) + 1 /\ Pending' = 1 .. Len(chains) + 1
        /\ \A c \in Pending : chains'[c] = chains[c]
        /\ chains'[Len(chains) + 1] = Chain(by, r, status)
    BY <1>1, CallAdds
  <2> QED
    BY <2>1, <2>2
<1>3. CASE x = r
  <2>1. n + 1 \in Pending' /\ \A d \in n + 2 .. n + 1 : FALSE
    BY <1>1, <1>2
  <2> QED
    BY <1>2, <1>3, <2>1 DEF Tells
<1>4. ASSUME x # r, NEW s, Tells(x, s) PROVE Tells(x, s)'
  <2>1. CASE runs[x].status = s /\ \A c \in Pending : chains[c].run = x => chains[c].at # "update"
    BY <1>1, <1>2, <1>4, <2>1 DEF Tells
  <2>2. ASSUME NEW c \in Pending,
               chains[c].run = x /\ chains[c].at = "update" /\ chains[c].status = s,
               \A d \in c + 1 .. Len(chains) : chains[d].run = x => chains[d].at # "update"
        PROVE  Tells(x, s)'
    <3>1. c \in Pending' /\ chains'[c].run = x /\ chains'[c].at = "update" /\ chains'[c].status = s
      BY <1>1, <1>2, <2>2
    <3>2. \A d \in c + 1 .. Len(chains') : chains'[d].run = x => chains'[d].at # "update"
      BY <1>1, <1>2, <1>4, <2>2
    <3> QED
      BY <3>1, <3>2 DEF Tells
  <2> QED
    BY <1>4, <2>1, <2>2 DEF Tells
<1> QED
  BY <1>3, <1>4

LEMMA TellsMoves ==
  ASSUME Shape, NEW c \in Pending, chains[c].at \in {"read", "list"}, NEW seen \in Statuses \cup {"none"},
         Advance(c, seen), UNCHANGED runs, NEW x \in Rows, NEW s, Tells(x, s)
  PROVE  Tells(x, s)'
<1>1. /\ Pending' = Pending /\ Len(chains') = Len(chains)
      /\ \A d \in Pending : chains'[d].run = chains[d].run /\ chains'[d].status = chains[d].status
      /\ \A d \in Pending : chains'[d].at = "update" <=> chains[d].at = "update"
  <2>1. chains'[c].at \in {"list", "write"}
    BY AdvanceMoves
  <2> QED
    BY <2>1, AdvanceMoves
<1>2. \A d \in Pending : \A e \in d + 1 .. Len(chains) : e \in Pending
  BY ChainsAre
<1>3. runs' = runs
  OBVIOUS
<1>4. CASE runs[x].status = s /\ \A d \in Pending : chains[d].run = x => chains[d].at # "update"
  BY <1>1, <1>3, <1>4 DEF Tells
<1>5. ASSUME NEW d \in Pending,
             chains[d].run = x /\ chains[d].at = "update" /\ chains[d].status = s,
             \A e \in d + 1 .. Len(chains) : chains[e].run = x => chains[e].at # "update"
      PROVE  Tells(x, s)'
  <2>1. d \in Pending' /\ chains'[d].run = x /\ chains'[d].at = "update" /\ chains'[d].status = s
    BY <1>1, <1>5
  <2>2. \A e \in d + 1 .. Len(chains') : chains'[e].run = x => chains'[e].at # "update"
    BY <1>1, <1>2, <1>5
  <2> QED
    BY <2>1, <2>2 DEF Tells
<1> QED
  BY <1>4, <1>5 DEF Tells

LEMMA TellsReturns ==
  ASSUME Shape, NEW c \in Pending, chains[c].at # "update", Return(c), NEW x \in Rows,
         runs'[x].status = runs[x].status, NEW s, Tells(x, s)
  PROVE  Tells(x, s)'
<1> DEFINE n == Len(chains)
<1>1. /\ n \in Nat /\ Pending = 1 .. n /\ Pending' = 1 .. n - 1 /\ Len(chains') = n - 1
      /\ \A d \in Pending' : Left(c, d) \in Pending /\ Left(c, d) # c /\ chains'[d] = chains[Left(c, d)]
      /\ \A d \in Pending : d # c => \E e \in Pending' : Left(c, e) = d
      /\ \A d, e \in Pending' : d < e => Left(c, d) < Left(c, e)
  <2>1. n \in Nat /\ Pending = 1 .. n
    BY ChainsAre
  <2>2. Pending' = 1 .. n - 1 /\ Len(chains') = n - 1
    BY ReturnRemoves
  <2>3. \A d \in 1 .. n - 1 : Left(c, d) \in Pending /\ Left(c, d) # c /\ chains'[d] = chains[Left(c, d)]
    BY ReturnRemoves
  <2>4. \A d \in Pending : d # c => \E e \in 1 .. n - 1 : Left(c, e) = d
    BY ReturnRemoves
  <2>5. \A d, e \in 1 .. n - 1 : d < e => Left(c, d) < Left(c, e)
    BY ReturnRemoves
  <2> QED
    BY <2>1, <2>2, <2>3, <2>4, <2>5
<1>2. CASE runs[x].status = s /\ \A d \in Pending : chains[d].run = x => chains[d].at # "update"
  BY <1>1, <1>2 DEF Tells
<1>3. ASSUME NEW d \in Pending,
             chains[d].run = x /\ chains[d].at = "update" /\ chains[d].status = s,
             \A e \in d + 1 .. Len(chains) : chains[e].run = x => chains[e].at # "update"
      PROVE  Tells(x, s)'
  <2>1. PICK k \in Pending' : Left(c, k) = d
    BY <1>1, <1>3
  <2>2. chains'[k].run = x /\ chains'[k].at = "update" /\ chains'[k].status = s
    BY <1>1, <1>3, <2>1
  <2>3. ASSUME NEW e \in k + 1 .. Len(chains'), chains'[e].run = x PROVE chains'[e].at # "update"
    <3>1. e \in Pending' /\ k < e
      BY <1>1
    <3>2. Left(c, e) \in d + 1 .. Len(chains)
      BY <1>1, <2>1, <3>1
    <3> QED
      BY <1>1, <1>3, <2>3, <3>1, <3>2
  <2> QED
    BY <2>2, <2>3 DEF Tells
<1> QED
  BY <1>2, <1>3 DEF Tells

LEMMA TellsUpdates ==
  ASSUME Shape, NEW c \in Pending, chains[c].run \in Rows, MayStep(c), UpdateStep(c), NEW x \in Rows, NEW s, Tells(x, s)
  PROVE  Tells(x, s)'
<1> DEFINE r == chains[c].run
<1>1. /\ Len(chains) \in Nat /\ Pending = 1 .. Len(chains) /\ chains[c].status \in Statuses
      /\ chains[c].at = "update" /\ Stage(c) = 1
  BY ChainsAre, StageIs DEF UpdateStep
<1>2. /\ Pending' = Pending /\ Len(chains') = Len(chains)
      /\ \A d \in Pending : d # c => chains'[d] = chains[d]
      /\ chains'[c].run = r /\ chains'[c].at = "read"
  <2>1. Advance(c, "none")
    BY DEF UpdateStep
  <2> QED
    BY <1>1, <2>1, AdvanceMoves
<1>3. runs'[r].status = chains[c].status /\ \A y \in Rows : y # r => runs'[y] = runs[y]
  <2>1. SetStatus(r, chains[c].status)
    BY DEF UpdateStep
  <2> QED
    BY <1>1, <2>1, SetStatusKeeps
<1>4. \A d \in 1 .. c - 1 : d \in Pending /\ chains[d].at # "update"
  <2> TAKE d \in 1 .. c - 1
  <2>1. d \in Pending /\ Stage(d) > Stage(c)
    BY <1>1 DEF MayStep
  <2> QED
    BY <1>1, <2>1, StageIs
<1>5. CASE runs[x].status = s /\ \A d \in Pending : chains[d].run = x => chains[d].at # "update"
  <2>1. x # r
    BY <1>1, <1>5
  <2> QED
    BY <1>2, <1>3, <1>5, <2>1 DEF Tells
<1>6. ASSUME NEW d \in Pending,
             chains[d].run = x /\ chains[d].at = "update" /\ chains[d].status = s,
             \A e \in d + 1 .. Len(chains) : chains[e].run = x => chains[e].at # "update"
      PROVE  Tells(x, s)'
  <2>1. d = c \/ d > c
    BY <1>1, <1>4, <1>6
  <2>2. CASE d = c
    <3>1. runs'[x].status = s
      BY <1>3, <1>6, <2>2
    <3>2. ASSUME NEW e \in Pending', chains'[e].run = x PROVE chains'[e].at # "update"
      <4>1. e \in 1 .. c - 1 \/ e = c \/ e \in d + 1 .. Len(chains)
        BY <1>1, <1>2, <2>2
      <4> QED
        BY <1>1, <1>2, <1>4, <1>6, <3>2, <4>1
    <3> QED
      BY <3>1, <3>2 DEF Tells
  <2>3. CASE d > c
    <3>1. d \in Pending' /\ chains'[d] = chains[d] /\ \A e \in d + 1 .. Len(chains') : chains'[e] = chains[e]
      BY <1>1, <1>2, <2>3
    <3> QED
      BY <1>2, <1>6, <3>1 DEF Tells
  <2> QED
    BY <2>1, <2>2, <2>3
<1> QED
  BY <1>5, <1>6 DEF Tells

-----------------------------------------------------------------------------
(* Lemmas about what a step does to the requests and to the hub. *)

Moved(q) == request' \in [Requests -> Doing] /\ \A p \in Requests : p # q => request'[p] = request[p]

LEMMA RequestBecomes ==
  ASSUME Shape, NEW q \in Requests, NEW new \in Doing, request' = [request EXCEPT ![q] = new]
  PROVE  Moved(q) /\ request'[q] = new
BY DEF Shape, Moved

LEMMA GotoMoves ==
  ASSUME Shape, NEW q \in Requests, NEW at \in RequestAt, Goto(q, at)
  PROVE  /\ Moved(q) /\ request'[q].at = at
         /\ request'[q].root = request[q].root /\ request'[q].todo = request[q].todo
<1> DEFINE new == [request[q] EXCEPT !.at = at]
<1>1. request[q] \in Doing /\ request \in [Requests -> Doing]
  BY DEF Shape
<1>2. new \in Doing /\ new.at = at /\ new.root = request[q].root /\ new.todo = request[q].todo
  BY <1>1 DEF Doing
<1>3. request' = [request EXCEPT ![q] = new]
  BY <1>1 DEF Goto
<1> HIDE DEF new
<1> QED
  BY <1>2, <1>3, RequestBecomes

LEMMA TodoIs ==
  ASSUME Shape, NEW q \in Requests, Rest(q)
  PROVE  /\ Current(q) \in RunIds /\ Current(q) = request[q].todo[1] /\ Listed(q, Current(q))
         /\ Len(request[q].todo) \in Nat \ {0}
         /\ Tail(request[q].todo) \in Seq(RunIds) /\ Len(Tail(request[q].todo)) = Len(request[q].todo) - 1
         /\ \A i \in 1 .. Len(request[q].todo) - 1 : Tail(request[q].todo)[i] = request[q].todo[i + 1]
<1> DEFINE todo == request[q].todo
<1>1. todo \in Seq(RunIds) /\ todo # <<>>
  BY RequestsAre DEF Rest
<1> HIDE DEF todo
<1>2. /\ Head(todo) \in RunIds /\ Head(todo) = todo[1] /\ Len(todo) \in Nat \ {0}
      /\ Tail(todo) \in Seq(RunIds) /\ Len(Tail(todo)) = Len(todo) - 1
      /\ \A i \in 1 .. Len(todo) - 1 : Tail(todo)[i] = todo[i + 1]
  BY <1>1, HeadTailProperties, EmptySeq
<1>3. 1 \in 1 .. Len(todo)
  BY <1>2
<1> QED
  BY <1>2, <1>3 DEF todo, Current, Listed

(* A request takes the first of what it has to do out of its list. *)
LEMMA TailMoves ==
  ASSUME Shape, NEW q \in Requests, Rest(q), NEW at \in RequestAt,
         request' = [request EXCEPT ![q].at = at, ![q].todo = Tail(@)]
  PROVE  /\ Moved(q) /\ request'[q].at = at /\ request'[q].root = request[q].root
         /\ request'[q].todo = Tail(request[q].todo)
<1> DEFINE new == [request[q] EXCEPT !.at = at, !.todo = Tail(request[q].todo)]
<1>1. request[q] \in Doing /\ request \in [Requests -> Doing]
  BY DEF Shape
<1>2. Tail(request[q].todo) \in Seq(RunIds)
  BY TodoIs
<1>3. /\ new \in Doing /\ new.at = at /\ new.root = request[q].root
      /\ new.todo = Tail(request[q].todo)
  BY <1>1, <1>2 DEF Doing
<1>4. request' = [request EXCEPT ![q] = new]
  BY <1>1
<1> HIDE DEF new
<1> QED
  BY <1>3, <1>4, RequestBecomes

(* An update returns and its caller, if it has one, goes on. *)
LEMMA ReturnMoves ==
  ASSUME Shape, Line, NEW c \in Pending, Return(c)
  PROVE  /\ request' \in [Requests -> Doing]
         /\ \A q \in Requests :
              /\ request'[q].root = request[q].root /\ request'[q].todo = request[q].todo
              /\ q # chains[c].by => request'[q] = request[q]
              /\ q = chains[c].by => request[q].at \in DOMAIN After /\ request'[q].at = After[request[q].at]
<1> DEFINE by == chains[c].by
<1>1. by \in Requests \cup {None} /\ None \notin Requests
  BY ChainsAre, SizesAre
<1>2. CASE by = None
  <2>1. request' = request
    BY <1>2 DEF Return
  <2> QED
    BY <1>1, <1>2, <2>1 DEF Shape
<1>3. CASE by \in Requests
  <2>1. request[by].at \in DOMAIN After
    BY <1>1, <1>3 DEF Line, Placed
  <2>2. After[request[by].at] \in RequestAt
    BY <2>1, AfterIs DEF RequestAt, Cancels, Enqueues
  <2>3. Goto(by, After[request[by].at])
    BY <1>1, <1>3 DEF Return
  <2> HIDE DEF by
  <2>4. Moved(by) /\ request'[by].at = After[request[by].at]
        /\ request'[by].root = request[by].root /\ request'[by].todo = request[by].todo
    BY <1>3, <2>2, <2>3, GotoMoves
  <2> QED
    BY <2>1, <2>4 DEF Moved, by
<1> QED
  BY <1>1, <1>2, <1>3

(* An event: what the hub knows, and an update if it is news. *)
LEMMA PublishDoes ==
  ASSUME Shape, NEW by \in Requests \cup {None}, NEW r \in Rows, NEW state \in JobStates, Publish(by, r, state)
  PROVE  /\ lastState' \in [RunIds -> {"none"} \cup JobStates]
         /\ lastState'[r] = state /\ \A x \in RunIds : x # r => lastState'[x] = lastState[x]
         /\ \/ chains' = chains /\ (state = "queued" \/ lastState[r] = state)
            \/ Call(by, r, state) /\ state # "queued" /\ lastState[r] # state
         /\ chains' \in Seq(Update) /\ Len(chains') <= MaxChains
<1>1. r \in RunIds /\ state \in Statuses
  BY RowsAre DEF JobStates, Statuses
<1>2. lastState \in [RunIds -> {"none"} \cup JobStates] /\ lastState' = [lastState EXCEPT ![r] = state]
  BY DEF Shape, Publish
<1>3. \/ chains' = chains /\ (state = "queued" \/ lastState[r] = state)
      \/ Call(by, r, state) /\ state # "queued" /\ lastState[r] # state
  BY DEF Publish
<1>4. chains' \in Seq(Update) /\ Len(chains') <= MaxChains
  BY <1>1, <1>3, CallAdds DEF Shape
<1> QED
  BY <1>1, <1>2, <1>3, <1>4

LEMMA TellsPublish ==
  ASSUME Shape, NEW by \in Requests \cup {None}, NEW r \in Rows, NEW state \in JobStates, Publish(by, r, state),
         UNCHANGED runs
  PROVE  /\ \A x \in Rows : \A s : x # r /\ Tells(x, s) => Tells(x, s)'
         /\ state = "queued" \/ lastState[r] = state => \A s : Tells(r, s) => Tells(r, s)'
         /\ state # "queued" /\ lastState[r] # state => Tells(r, state)'
<1>1. state \in Statuses
  BY DEF JobStates, Statuses
<1>2. CASE chains' = chains /\ (state = "queued" \/ lastState[r] = state)
  <2>1. \A x, s : Tells(x, s) => Tells(x, s)'
    BY <1>2 DEF Tells, Pending
  <2> QED
    BY <1>2, <2>1
<1>3. CASE Call(by, r, state) /\ state # "queued" /\ lastState[r] # state
  BY <1>1, <1>3, TellsAdds
<1> QED
  BY <1>2, <1>3, PublishDoes

(* A job starts, is withdrawn or ends. *)
LEMMA JobStepDoes ==
  ASSUME Shape, Tree, JobStep
  PROVE  \E r \in Rows, state \in JobStates \ {"queued"} :
           /\ runs[r].leaf /\ life[r] \in {"queued", "running"}
           /\ life' = [life EXCEPT ![r] = state]
           /\ Publish(None, r, state)
           /\ UNCHANGED <<runs, request, asked, faults>>
<1>1. PICK r \in RunIds : /\ Queue!Start(r) \/ (r \in asked /\ Queue!Withdraw(r)) \/ JobEnds(r)
                          /\ Publish(None, r, life'[r])
                          /\ UNCHANGED <<runs, request, asked, faults>>
  BY DEF JobStep
<1>2. life \in [RunIds -> {"unknown"} \cup JobStates]
  BY DEF Shape
<1>3. \E state \in JobStates \ {"queued"} : life[r] \in {"queued", "running"} /\ life' = [life EXCEPT ![r] = state]
  BY <1>1 DEF JobEnds, Queue!Start, Queue!Withdraw, Queue!End, Queue!Become, Queue!Terminal, JobStates, RUN_TERMINAL_STATUSES
<1>4. PICK state \in JobStates \ {"queued"} : life[r] \in {"queued", "running"} /\ life' = [life EXCEPT ![r] = state]
  BY <1>3
<1>5. life'[r] = state
  BY <1>2, <1>4
<1>6. r \in Rows /\ runs[r].leaf
  BY <1>4 DEF Tree
<1> QED
  BY <1>1, <1>4, <1>5, <1>6
=============================================================================
