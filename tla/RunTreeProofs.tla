--------------------------- MODULE RunTreeProofs ---------------------------
(***************************************************************************)
(* Theorems about RunTree for any number of requests, targets, runs and    *)
(* faults and any overlap of updates and roll-ups: what a parent and a     *)
(* child's row tell in the end follows from the inductive invariant of     *)
(* RunTreeSteps, kept here one part and one action at a time.  That an     *)
(* outcome stands needs what is still to be written behind it (Final).     *)
(***************************************************************************)
EXTENDS RunTreeSteps

-----------------------------------------------------------------------------
(* What keeps each part of the invariant. *)

RowsStay == \A r \in Rows : r \in Rows' /\ runs'[r].leaf = runs[r].leaf /\ runs'[r].parent = runs[r].parent
OwedStay == \A p \in Rows : ~runs[p].leaf /\ Owed(p) => Owed(p)'
TellsStay == \A r \in Rows : \A s : runs[r].leaf /\ Tells(r, s) => Tells(r, s)'

LEMMA RowsStayIf == ASSUME SameTree \/ UNCHANGED runs \/ Grown, Shape PROVE RowsStay
<1>1. CASE Grown
  <2>1. \A r \in Rows : r \in Rows'
    BY <1>1, RowsAre DEF Grown, Rows
  <2> QED
    BY <1>1, <2>1 DEF Grown, RowsStay
<1>2. CASE SameTree
  BY <1>2 DEF SameTree, RowsStay, Rows
<1>3. CASE UNCHANGED runs
  BY <1>3 DEF RowsStay, Rows
<1> QED
  BY <1>1, <1>2, <1>3

LEMMA TreeKept ==
  ASSUME Shape, Tree, SameTree,
         \A r \in RunIds : life'[r] = life[r] \/ (r \in Rows /\ runs[r].leaf),
         \A r \in RunIds : \/ lastState'[r] = lastState[r]
                           \/ r \in Rows /\ (runs[r].leaf \/ lastState'[r] = "cancelled")
  PROVE  Tree'
<1>1. Rows' = Rows /\ (\A p : Children(p)' = Children(p)) /\ Rows \subseteq RunIds
  BY SameTreeIs, RowsAre
<1>2. \A r \in Rows : runs'[r].parent = runs[r].parent /\ runs'[r].leaf = runs[r].leaf
  BY DEF SameTree
<1> QED
  BY <1>1, <1>2 DEF Tree

LEMMA HoldsMoves ==
  ASSUME Shape, Holds, RowsStay, NEW q \in Requests, Moved(q),
         HoldsOf(q)', Apart(q, q)',
         \A p \in Requests : p # q => Apart(q, p)' /\ Apart(p, q)',
         \A r \in RunIds : \/ life[r] # "unknown" \/ life'[r] = "unknown"
                           \/ \A p \in Requests : p # q /\ request[p].at \in Enqueues => ~Listed(p, r)
  PROVE  Holds'
<1>1. ASSUME NEW p \in Requests, p # q PROVE HoldsOf(p)'
  <2>1. request'[p] = request[p] /\ HoldsOf(p)
    BY <1>1 DEF Moved, Holds
  <2>2. \A r : Listed(p, r)' <=> Listed(p, r)
    BY <2>1 DEF Listed
  <2>3. \A r \in RunIds : Listed(p, r) => r \in Rows
    BY <2>1 DEF HoldsOf
  <2>4. request[p].at \in Enqueues => \A r \in RunIds : Listed(p, r) => life'[r] = "unknown"
    BY <1>1, <2>1 DEF HoldsOf
  <2> QED
    BY <2>1, <2>2, <2>3, <2>4 DEF HoldsOf, RowsStay, Rest
<1>2. ASSUME NEW p \in Requests, NEW o \in Requests, p # q, o # q PROVE Apart(p, o)'
  BY <1>2 DEF Moved, Holds, Apart
<1> QED
  BY <1>1, <1>2 DEF Holds

(* A request that keeps its list, or is not to enqueue what is on it. *)
LEMMA HoldsGoes ==
  ASSUME Shape, Holds, RowsStay,
         \A r \in RunIds : life[r] # "unknown" \/ life'[r] = "unknown",
         \A q \in Requests :
           /\ request'[q].todo = request[q].todo /\ request'[q].root = request[q].root
           /\ request'[q].at \in Enqueues => request[q].at \in Enqueues
           /\ request'[q].at \in Cancels => request[q].at \in Cancels
           /\ request'[q].at \in {"persist", "persisting", "publish"} => Rest(q)
  PROVE  Holds'
<1>1. ASSUME NEW q \in Requests PROVE HoldsOf(q)'
  <2>1. \A r : Listed(q, r)' <=> Listed(q, r)
    BY DEF Listed
  <2>2. HoldsOf(q)
    BY DEF Holds
  <2> QED
    BY <2>1, <2>2 DEF HoldsOf, RowsStay, Rest
<1>2. ASSUME NEW q \in Requests, NEW p \in Requests PROVE Apart(q, p)'
  BY DEF Holds, Apart
<1> QED
  BY <1>1, <1>2 DEF Holds

(* A request takes the first of its list, and that one may get its job. *)
LEMMA HoldsTail ==
  ASSUME Shape, Holds, RowsStay, NEW q \in Requests, Rest(q), Moved(q), request'[q].root = request[q].root,
         request'[q].todo = Tail(request[q].todo),
         request[q].at \in Enqueues \/ \A r \in RunIds : life[r] # "unknown" \/ life'[r] = "unknown",
         \A r \in RunIds : life[r] # "unknown" \/ life'[r] = "unknown" \/ r = Current(q),
         request'[q].at \in Enqueues => request[q].at \in Enqueues,
         request'[q].at \in Cancels => request[q].at \in Cancels,
         request'[q].at \notin {"persist", "persisting", "publish"}
  PROVE  Holds'
<1> DEFINE todo == request[q].todo
           n == Len(todo)
<1>1. /\ n \in Nat \ {0} /\ Len(request'[q].todo) = n - 1
      /\ \A i \in 1 .. n - 1 : request'[q].todo[i] = todo[i + 1] /\ i + 1 \in 1 .. n
      /\ Current(q) = todo[1]
  BY TodoIs
<1>2. \A r \in RunIds : Listed(q, r)' => Listed(q, r)
  BY <1>1 DEF Listed
<1>3. HoldsOf(q) /\ \A p \in Requests : Apart(q, p) /\ Apart(p, q)
  BY DEF Holds
<1>4. ASSUME request[q].at \in Enqueues
      PROVE  \A r \in RunIds : Listed(q, r)' => r # Current(q)
  <2>1. \A i \in 1 .. n : todo[i] = todo[1] => i = 1
    BY <1>1, <1>3, <1>4 DEF Apart
  <2> QED
    BY <1>1, <2>1 DEF Listed
<1>5. HoldsOf(q)'
  BY <1>2, <1>3, <1>4 DEF HoldsOf, RowsStay
<1>6. Apart(q, q)'
  <2>1. ASSUME request[q].at \in Enqueues, NEW i \in 1 .. n - 1, NEW k \in 1 .. n - 1,
               request'[q].todo[i] = request'[q].todo[k]
        PROVE  i = k
    <3>1. todo[i + 1] = todo[k + 1] => i + 1 = k + 1
      BY <1>1, <1>3, <2>1 DEF Apart
    <3> QED
      BY <1>1, <2>1, <3>1
  <2> QED
    BY <1>1, <2>1 DEF Apart
<1>7. ASSUME NEW p \in Requests, p # q PROVE Apart(q, p)' /\ Apart(p, q)'
  <2>1. request'[p] = request[p]
    BY <1>7 DEF Moved
  <2>2. CASE ~(request[q].at \in Enqueues /\ request[p].at \in Enqueues)
    BY <2>1, <2>2 DEF Apart
  <2>3. CASE request[q].at \in Enqueues /\ request[p].at \in Enqueues
    <3>1. \A i \in 1 .. n, k \in 1 .. Len(request[p].todo) : todo[i] # request[p].todo[k]
      BY <1>3, <1>7, <2>3 DEF Apart
    <3> QED
      BY <1>1, <2>1, <3>1 DEF Apart
  <2> QED
    BY <2>2, <2>3
<1>8. ASSUME NEW r \in RunIds
      PROVE  \/ life[r] # "unknown" \/ life'[r] = "unknown"
             \/ \A p \in Requests : p # q /\ request[p].at \in Enqueues => ~Listed(p, r)
  <2>1. CASE request[q].at \in Enqueues /\ r = Current(q)
    <3>1. 1 \in 1 .. n
      BY <1>1
    <3> QED
      BY <1>1, <1>3, <2>1, <3>1 DEF Apart, Listed
  <2> QED
    BY <2>1
<1> HIDE DEF todo, n
<1> QED
  BY <1>5, <1>6, <1>7, <1>8, HoldsMoves

LEMMA LineSame ==
  ASSUME Shape, Line, RowsStay, OwedStay, chains' = chains,
         \A q \in Requests : request'[q].at = request[q].at \/ request[q].at \notin DOMAIN After
  PROVE  Line'
<1>1. Pending' = Pending /\ \A c : Stage(c)' = Stage(c)
  BY DEF Pending, Stage
<1>2. ASSUME NEW c \in Pending PROVE Placed(c)'
  <2>1. Placed(c) /\ chains[c].by \in Requests \cup {None}
    BY ChainsAre DEF Line
  <2>2. chains[c].by # None => request'[chains[c].by].at \in DOMAIN After
    BY <2>1 DEF Placed
  <2> QED
    BY <2>1, <2>2 DEF Placed, RowsStay, OwedStay
<1>3. \A c, d \in Pending : c < d => Behind(c, d)'
  BY <1>1 DEF Line, Behind
<1> QED
  BY <1>1, <1>2, <1>3 DEF Line

LEMMA LineCall ==
  ASSUME Shape, Line, RowsStay, OwedStay,
         NEW by \in Requests \cup {None}, NEW r \in Rows, NEW status \in Statuses, Call(by, r, status),
         UNCHANGED runs,
         \A q \in Requests : q # by => request'[q].at = request[q].at,
         by # None => request[by].at \notin DOMAIN After /\ request'[by].at \in DOMAIN After,
         ~runs[r].leaf => status = "cancelled" /\ Owed(r)'
  PROVE  Line'
<1>0. PICK n \in Nat : n = Len(chains)
  BY ChainsAre
<1>1. r \in RunIds /\ n \in Nat /\ Pending = 1 .. n
  BY <1>0, RowsAre, ChainsAre
<1>2. Pending' = 1 .. n + 1 /\ (\A c \in Pending : chains'[c] = chains[c]) /\ chains'[n + 1] = Chain(by, r, status)
  BY <1>0, <1>1, CallAdds
<1>3. /\ chains'[n + 1].by = by /\ chains'[n + 1].run = r
      /\ chains'[n + 1].status = status /\ chains'[n + 1].at = "update"
  BY <1>2 DEF Chain
<1>4. ASSUME NEW c \in Pending PROVE Placed(c)' /\ chains[c].by \in Requests \cup {None} /\ (chains[c].by = by => by = None)
  <2>1. Placed(c) /\ chains[c].by \in Requests \cup {None}
    BY ChainsAre DEF Line
  <2>2. chains[c].by = by => by = None
    BY <2>1 DEF Placed
  <2>3. chains[c].by # None => request'[chains[c].by].at \in DOMAIN After
    BY <2>1, <2>2 DEF Placed
  <2> QED
    BY <1>2, <2>1, <2>2, <2>3 DEF Placed, RowsStay, OwedStay
<1>5. Placed(n + 1)'
  <2>1. r \in Rows' /\ runs'[r].leaf = runs[r].leaf
    BY DEF RowsStay
  <2> QED
    BY <1>3, <2>1 DEF Placed
<1>6. Stage(n + 1)' = 1
  <2>1. "update" \in ChainAt
    BY DEF ChainAt
  <2> DEFINE stage == CHOOSE k \in 1 .. 4 : Stages[k] = "update"
  <2>2. Stage(n + 1)' = stage
    BY <1>3 DEF Stage
  <2>3. stage = 1
    <3> HIDE DEF stage
    <3>1. stage = CHOOSE k \in 1 .. 4 : Stages[k] = "update"
      BY DEF stage
    <3> QED
      BY <2>1, <3>1, StageAt
  <2> QED
    BY <2>2, <2>3
<1>7. \A c \in Pending : Stage(c)' = Stage(c) /\ Stage(c) \in 1 .. 4
  BY <1>2, StageIs DEF Stage
<1>8. ASSUME NEW c \in 1 .. n + 1, NEW d \in 1 .. n + 1, c < d PROVE Behind(c, d)'
  <2>1. c \in Pending
    BY <1>1, <1>8
  <2>2. CASE d \in Pending
    <3>1. Behind(c, d)
      BY <1>8, <2>1, <2>2 DEF Line
    <3> QED
      BY <1>2, <1>7, <2>1, <2>2, <3>1 DEF Behind
  <2>3. CASE d = n + 1
    <3>1. Stage(c)' >= Stage(d)'
      BY <1>6, <1>7, <2>1, <2>3
    <3>2. chains'[c].by = chains'[d].by => chains'[c].by = None
      BY <1>2, <1>3, <1>4, <2>1, <2>3
    <3> QED
      BY <3>1, <3>2 DEF Behind
  <2> QED
    BY <1>1, <2>2, <2>3
<1>9. \A c \in 1 .. n + 1 : Placed(c)'
  <2> TAKE c \in 1 .. n + 1
  <2>1. c \in Pending \/ c = n + 1
    BY <1>1
  <2> QED
    BY <1>4, <1>5, <2>1
<1> QED
  BY <1>2, <1>8, <1>9 DEF Line

LEMMA LineAdvance ==
  ASSUME Shape, Line, RowsStay, OwedStay, NEW c \in Pending, MayStep(c), chains[c].at # "write",
         NEW seen \in Statuses \cup {"none"}, Advance(c, seen),
         chains[c].at # "update" => runs[chains[c].run].parent # None /\ seen \in Statuses
  PROVE  Line'
<1> DEFINE n == Len(chains)
<1>1. n \in Nat /\ Pending = 1 .. n /\ Pending' = Pending
  BY ChainsAre, AdvanceMoves
<1>2. \A d \in Pending : d # c => chains'[d] = chains[d]
  BY AdvanceMoves
<1>3. /\ chains'[c].by = chains[c].by /\ chains'[c].run = chains[c].run /\ chains'[c].status = chains[c].status
      /\ chains'[c].seen = seen /\ request' = request
      /\ chains[c].at = "update" => chains'[c].at = "read"
  BY AdvanceMoves
<1>4. /\ \A d \in Pending : d # c => Stage(d)' = Stage(d)
      /\ \A d \in Pending : Stage(d) \in 1 .. 4
      /\ Stage(c)' = Stage(c) + 1
  <2>1. \A d \in Pending : d # c => Stage(d)' = Stage(d)
    BY <1>2 DEF Stage
  <2>2. \A d \in Pending : Stage(d) \in 1 .. 4
    BY StageIs
  <2>3. \/ chains[c].at = "update" /\ chains'[c].at = "read"
        \/ chains[c].at = "read" /\ chains'[c].at = "list"
        \/ chains[c].at = "list" /\ chains'[c].at = "write"
    BY ChainsAre, AdvanceMoves DEF ChainAt
  <2>4. chains'[c].at \in ChainAt
    BY <2>3 DEF ChainAt
  <2>5. Stage(c)' = CHOOSE k \in 1 .. 4 : Stages[k] = chains'[c].at
    BY DEF Stage
  <2>6. Stage(c)' = Stage(c) + 1
    BY <2>3, <2>4, <2>5, StageAt, StageIs
  <2> QED
    BY <2>1, <2>2, <2>6
<1>5. \A d \in Pending : Placed(d)'
  BY <1>1, <1>2, <1>3 DEF Line, Placed, RowsStay, OwedStay
<1>6. \A d \in Pending : d < c => Stage(d) > Stage(c)
  BY <1>1 DEF MayStep
<1>7. ASSUME NEW d \in Pending, NEW e \in Pending, d < e PROVE Behind(d, e)'
  <2>1. Behind(d, e)
    BY <1>7 DEF Line
  <2>2. chains'[d].by = chains[d].by /\ chains'[e].by = chains[e].by
    BY <1>2, <1>3
  <2>3. Stage(d)' >= Stage(e)'
    <3>1. CASE d # c /\ e # c
      BY <1>4, <2>1, <3>1 DEF Behind
    <3>2. CASE d = c
      BY <1>1, <1>4, <1>7, <2>1, <3>2 DEF Behind
    <3>3. CASE e = c
      BY <1>1, <1>4, <1>6, <1>7, <3>3
    <3> QED
      BY <3>1, <3>2, <3>3
  <2> QED
    BY <2>1, <2>2, <2>3 DEF Behind
<1> QED
  BY <1>1, <1>5, <1>7 DEF Line

LEMMA LineReturn ==
  ASSUME Shape, Line, RowsStay, OwedStay, NEW c \in Pending, Return(c)
  PROVE  Line'
<1> DEFINE n == Len(chains)
<1>1. n \in Nat /\ Pending = 1 .. n /\ Pending' = 1 .. n - 1
  BY ChainsAre, ReturnRemoves
<1>2. /\ \A d \in 1 .. n - 1 : Left(c, d) \in Pending /\ Left(c, d) # c /\ chains'[d] = chains[Left(c, d)]
      /\ \A d, e \in 1 .. n - 1 : d < e => Left(c, d) < Left(c, e)
  BY ReturnRemoves
<1>3. \A d \in 1 .. n - 1 : Stage(d)' = Stage(Left(c, d))
  BY <1>2 DEF Stage
<1>4. ASSUME NEW e \in Pending, e # c, chains[e].by # None PROVE chains[e].by # chains[c].by
  <2>1. e < c \/ c < e
    BY <1>1, <1>4
  <2> QED
    BY <1>4, <2>1 DEF Line, Behind
<1>5. ASSUME NEW d \in 1 .. n - 1 PROVE Placed(d)'
  <2> DEFINE e == Left(c, d)
  <2>1. e \in Pending /\ e # c /\ chains'[d] = chains[e]
    BY <1>2
  <2> HIDE DEF e
  <2>2. Placed(e) /\ chains[e].by \in Requests \cup {None}
    BY <2>1, ChainsAre DEF Line
  <2>3. chains[e].by # None => request'[chains[e].by] = request[chains[e].by]
    BY <1>4, <2>1, <2>2, ReturnMoves
  <2> QED
    BY <2>1, <2>2, <2>3 DEF Placed, RowsStay, OwedStay
<1>6. ASSUME NEW d \in 1 .. n - 1, NEW e \in 1 .. n - 1, d < e PROVE Behind(d, e)'
  <2>1. Behind(Left(c, d), Left(c, e))
    BY <1>2, <1>6 DEF Line
  <2> QED
    BY <1>2, <1>3, <2>1 DEF Behind
<1> QED
  BY <1>1, <1>5, <1>6 DEF Line

LEMMA ToldKept ==
  ASSUME Shape, Tree, Told, RowsStay, Rows' \subseteq RunIds,
         \A r \in RunIds : life'[r] # "unknown" => r \in Rows /\ runs[r].leaf,
         \A r \in Rows : runs[r].leaf /\ life'[r] # "unknown" /\ lastState'[r] # "queued" =>
           \/ Saying(r)'
           \/ /\ life[r] # "unknown" /\ lastState'[r] = lastState[r]
              /\ \A s : Tells(r, s) => Tells(r, s)'
              /\ Cancelling(r) => Cancelling(r)'
  PROVE  Told'
<1>1. ASSUME NEW r \in Rows', life'[r] # "unknown", lastState'[r] # "queued" PROVE Saying(r)'
  <2>1. r \in Rows /\ runs[r].leaf
    BY <1>1
  <2>2. CASE /\ life[r] # "unknown" /\ lastState'[r] = lastState[r]
             /\ \A s : Tells(r, s) => Tells(r, s)'
             /\ Cancelling(r) => Cancelling(r)'
    <3>1. Saying(r)
      BY <1>1, <2>1, <2>2 DEF Told
    <3> QED
      BY <2>2, <3>1 DEF Saying
  <2> QED
    BY <1>1, <2>1, <2>2
<1> QED
  BY <1>1 DEF Told

LEMMA RememberedKept ==
  ASSUME Remembered, RowsStay,
         \A r \in RunIds : life[r] # "unknown" => life'[r] # "unknown", Rows \subseteq RunIds,
         \A r \in Rows' : r \notin Rows /\ runs'[r].leaf => Awaits(r)',
         \A r \in Rows : runs[r].leaf /\ life[r] = "unknown" /\ Awaits(r) =>
           Awaits(r)' \/ Ends(r)' \/ life'[r] # "unknown",
         \A r \in Rows : runs[r].leaf /\ life[r] = "unknown" /\ Ends(r) => Ends(r)' \/ life'[r] # "unknown"
  PROVE  Remembered'
<1>1. ASSUME NEW r \in Rows, runs[r].leaf, life'[r] = "unknown" PROVE Awaits(r)' \/ Ends(r)'
  <2>1. life[r] = "unknown"
    BY <1>1
  <2> QED
    BY <1>1, <2>1 DEF Remembered
<1> QED
  BY <1>1 DEF Remembered, RowsStay

-----------------------------------------------------------------------------
(* Parents and the roll-ups of their children. *)

LEMMA ParentsAre ==
  ASSUME Shape, Tree, NEW p \in Parents
  PROVE  p \in Rows /\ p \in RunIds /\ p # None /\ ~runs[p].leaf /\ Children(p) # {} /\ Children(p) \subseteq Rows
<1>1. p \in Rows /\ Children(p) # {} /\ Children(p) \subseteq Rows
  BY DEF Parents, Children
<1>2. p \in RunIds /\ p # None
  BY <1>1, RowsAre, SizesAre
<1> QED
  BY <1>1, <1>2 DEF Children, Tree

(* The children and what they are decide what a parent is to say. *)
LEMMA RollupSame ==
  ASSUME NEW p, Children(p)' = Children(p),
         \A r \in Children(p) : runs'[r].status = runs[r].status /\ runs'[r].leaf = runs[r].leaf
  PROVE  RollupOf(p)' = RollupOf(p) /\ (Settled(p)' <=> Settled(p))
<1>1. {runs'[r].status : r \in Children(p)'} = {runs[r].status : r \in Children(p)}
  OBVIOUS
<1>2. RollupOf(p)' = rollupRunStatus({runs'[r].status : r \in Children(p)'})
  BY DEF RollupOf, rollupRunStatus, RUN_TERMINAL_STATUSES
<1>3. RollupOf(p) = rollupRunStatus({runs[r].status : r \in Children(p)})
  BY DEF RollupOf
<1>4. RollupOf(p)' = RollupOf(p)
  BY <1>1, <1>2, <1>3
<1> QED
  BY <1>4 DEF Settled

LEMMA AgreesSame ==
  ASSUME Shape, Tree, Agrees, OwedStay, UNCHANGED <<runs, chains>>
  PROVE  Agrees'
<1>1. Parents' = Parents /\ Pending' = Pending
  BY DEF Parents, Children, Rows, Pending
<1>2. ASSUME NEW p \in Parents, Settled(p)' PROVE RolledUp(p)'
  <2>1. p \in Rows /\ ~runs[p].leaf
    BY ParentsAre
  <2>2. Children(p)' = Children(p)
    BY DEF Children, Rows
  <2>3. RollupOf(p)' = RollupOf(p) /\ Settled(p)
    BY <1>2, <2>2, RollupSame
  <2>4. RolledUp(p)
    BY <2>3 DEF Agrees
  <2>5. Agreed(p) => Agreed(p)'
    BY <1>1, <2>1, <2>3 DEF Agreed, Rolls, OwedStay
  <2>6. \A c \in Pending : Newest(p, c) => Newest(p, c)'
    BY <1>1, <2>3 DEF Newest, Rolls
  <2> QED
    BY <1>1, <2>4, <2>5, <2>6 DEF RolledUp
<1> QED
  BY <1>1, <1>2 DEF Agrees

(* New runs are queued, so nobody whose child is among them is settled. *)
LEMMA AgreesGrown ==
  ASSUME Shape, Tree, Line, Agrees, OwedStay, Grown, UNCHANGED chains
  PROVE  Agrees'
<1>1. Rows \subseteq Rows' /\ Pending' = Pending
  BY RowsStayIf DEF RowsStay, Pending
<1>2. ASSUME NEW p \in Parents', Settled(p)' PROVE RolledUp(p)'
  <2>1. Children(p)' \subseteq Rows
    BY <1>2 DEF Settled, Grown, Children
  <2>2. Children(p)' = Children(p)
    BY <1>1, <2>1 DEF Children, Grown
  <2>3. p \in Parents
    <3>1. p \in Rows' /\ Children(p) # {}
      BY <2>2 DEF Parents
    <3>2. p # None
      BY <3>1, SizesAre DEF Rows, Grown
    <3>3. p \in Rows
      BY <3>1, <3>2 DEF Children, Tree
    <3> QED
      BY <3>1, <3>3 DEF Parents
  <2>4. p \in Rows /\ ~runs[p].leaf /\ runs'[p] = runs[p] /\ Children(p) \subseteq Rows
    BY <2>3, ParentsAre DEF Grown
  <2>5. RollupOf(p)' = RollupOf(p) /\ Settled(p)
    BY <1>2, <2>2, <2>4, RollupSame DEF Grown
  <2>6. RolledUp(p)
    BY <2>3, <2>5 DEF Agrees
  <2>7. \A c \in Pending : Rolls(p, c)' <=> Rolls(p, c)
    BY DEF Line, Placed, Rolls, Grown
  <2>8. Agreed(p) => Agreed(p)'
    BY <1>1, <2>4, <2>5, <2>7 DEF Agreed, OwedStay
  <2>9. ASSUME NEW c \in Pending, Newest(p, c) PROVE Newest(p, c)'
    <3>1. \A d \in c + 1 .. Len(chains) : d \in Pending
      BY ChainsAre
    <3> QED
      BY <2>5, <2>7, <2>9, <3>1 DEF Newest
  <2> QED
    BY <1>1, <2>6, <2>8, <2>9 DEF RolledUp
<1> QED
  BY <1>2 DEF Agrees

LEMMA AgreesCall ==
  ASSUME Shape, Tree, Agrees, OwedStay, UNCHANGED runs,
         NEW by \in Requests \cup {None}, NEW r \in Rows, NEW status \in Statuses, Call(by, r, status)
  PROVE  Agrees'
<1>0. PICK n \in Nat : n = Len(chains)
  BY ChainsAre
<1>1. r \in RunIds /\ Pending = 1 .. n
  BY <1>0, RowsAre, ChainsAre
<1>2. /\ Pending' = 1 .. n + 1 /\ Len(chains') = n + 1 /\ \A c \in Pending : chains'[c] = chains[c]
      /\ chains'[n + 1] = Chain(by, r, status)
  BY <1>0, <1>1, CallAdds
<1>3. chains'[n + 1].at = "update"
  BY <1>2 DEF Chain
<1>4. Parents' = Parents
  BY DEF Parents, Children, Rows
<1>5. ASSUME NEW p \in Parents, Settled(p)' PROVE RolledUp(p)'
  <2>1. p \in Rows /\ ~runs[p].leaf
    BY ParentsAre
  <2>2. Children(p)' = Children(p)
    BY DEF Children, Rows
  <2>3. RollupOf(p)' = RollupOf(p) /\ Settled(p)
    BY <1>5, <2>2, RollupSame
  <2>4. RolledUp(p)
    BY <2>3 DEF Agrees
  <2>5. \A c \in Pending : Rolls(p, c)' <=> Rolls(p, c)
    BY <1>2 DEF Rolls
  <2>6. \A c : c = n + 1 => ~Rolls(p, c)'
    BY <1>3 DEF Rolls
  <2>7. \A c \in 1 .. n + 1 : c \in Pending \/ c = n + 1
    BY <1>1
  <2>8. Agreed(p) => Agreed(p)'
    BY <1>2, <2>1, <2>3, <2>5, <2>6, <2>7 DEF Agreed, OwedStay
  <2>9. ASSUME NEW c \in Pending, Newest(p, c) PROVE c \in Pending' /\ Newest(p, c)'
    <3>1. c \in 1 .. n + 1 /\ \A d \in c + 1 .. n + 1 : (d \in c + 1 .. n /\ d \in Pending) \/ d = n + 1
      BY <1>1
    <3>2. \A d \in c + 1 .. Len(chains') : ~Rolls(p, d)'
      BY <1>0, <1>2, <2>5, <2>6, <2>9, <3>1 DEF Newest
    <3> QED
      BY <1>2, <2>3, <2>5, <2>9, <3>1, <3>2 DEF Newest
  <2> QED
    BY <2>4, <2>8, <2>9 DEF RolledUp
<1> QED
  BY <1>4, <1>5 DEF Agrees

(* The oldest update writes its row: those after it are not made yet. *)
LEMMA AgreesUpdate ==
  ASSUME Shape, Tree, Line, Agrees, OwedStay, NEW c \in Pending, MayStep(c), UpdateStep(c)
  PROVE  Agrees'
<1>0. PICK n \in Nat : n = Len(chains)
  BY ChainsAre
<1> DEFINE r == chains[c].run
<1>1. /\ Pending = 1 .. n /\ c \in 1 .. n /\ r \in Rows /\ Placed(c)
      /\ chains[c].at = "update" /\ chains[c].status \in Statuses
  BY <1>0, ChainsAre DEF UpdateStep, Line, Placed
<1>2. /\ Pending' = 1 .. n /\ Len(chains') = n /\ \A d \in Pending : d # c => chains'[d] = chains[d]
      /\ chains'[c].run = r /\ chains'[c].at = "read"
  BY <1>0, <1>1, AdvanceMoves DEF UpdateStep
<1>3. /\ SameTree /\ runs'[r].status = chains[c].status
      /\ \A x \in Rows : x # r => runs'[x] = runs[x]
  BY <1>1, SetStatusKeeps DEF UpdateStep
<1>4. Rows' = Rows /\ (\A p : Children(p)' = Children(p)) /\ Parents' = Parents
  BY <1>3, SameTreeIs
<1>5. \A d \in c + 1 .. n : d \in Pending /\ d # c /\ chains[d].at = "update"
  <2> TAKE d \in c + 1 .. n
  <2>1. d \in Pending /\ c < d
    BY <1>1
  <2>2. Stage(c) = 1 /\ Stage(d) \in 1 .. 4 /\ Stage(c) >= Stage(d)
    BY <1>1, <2>1, StageIs DEF Line, Behind
  <2>3. Stage(d) = 1
    BY <2>2
  <2> QED
    BY <2>1, <2>3, StageIs
<1>6. ASSUME NEW p \in Parents PROVE \A d \in Pending : d # c => (Rolls(p, d)' <=> Rolls(p, d))
  BY <1>2, <1>3 DEF Line, Placed, Rolls, SameTree
<1>7. ASSUME NEW p \in Parents, Settled(p)' PROVE RolledUp(p)'
  <2>1. p \in Rows /\ ~runs[p].leaf /\ Children(p) \subseteq Rows
    BY ParentsAre
  <2>2. CASE runs[r].parent = p
    <3>1. Rolls(p, c)' /\ chains'[c].at # "write" /\ c \in Pending'
      BY <1>1, <1>2, <1>3, <2>2 DEF Rolls, SameTree
    <3>2. \A d \in c + 1 .. n : ~Rolls(p, d)'
      BY <1>2, <1>5 DEF Rolls
    <3> QED
      BY <1>2, <3>1, <3>2 DEF RolledUp, Newest
  <2>3. CASE runs[r].parent # p
    <3>1. r \notin Children(p)
      BY <2>3 DEF Children
    <3>2. RollupOf(p)' = RollupOf(p) /\ (Settled(p)' <=> Settled(p))
      BY <1>3, <1>4, <2>1, <3>1, RollupSame DEF SameTree
    <3>3. RolledUp(p)
      BY <1>7, <3>2 DEF Agrees
    <3>4. ~Rolls(p, c) /\ ~Rolls(p, c)'
      BY <1>1, <1>2, <1>3, <2>3 DEF Rolls, SameTree
    <3>5. ASSUME Agreed(p) PROVE Agreed(p)'
      <4>1. \A d \in Pending : ~Rolls(p, d)'
        BY <1>6, <3>4, <3>5 DEF Agreed
      <4>2. CASE p # r
        BY <1>2, <1>1, <1>3, <2>1, <3>2, <3>5, <4>1, <4>2 DEF Agreed, OwedStay
      <4>3. CASE p = r
        <5>1. chains[c].status = "cancelled" /\ Owed(p)
          BY <1>1, <2>1, <4>3 DEF Placed
        <5> QED
          BY <1>1, <1>2, <1>3, <2>1, <4>1, <4>3, <5>1 DEF Agreed, OwedStay
      <4> QED
        BY <4>2, <4>3
    <3>6. ASSUME NEW d \in Pending, Newest(p, d) PROVE Newest(p, d)'
      <4>1. d # c /\ \A e \in d + 1 .. n : e \in Pending
        BY <1>1, <3>4, <3>6 DEF Newest
      <4>2. chains'[d] = chains[d]
        BY <1>2, <4>1
      <4> QED
        BY <1>0, <1>2, <1>6, <3>2, <3>4, <3>6, <4>1, <4>2 DEF Newest
    <3> QED
      BY <1>1, <1>2, <3>3, <3>5, <3>6 DEF RolledUp
  <2> QED
    BY <2>2, <2>3
<1> QED
  BY <1>4, <1>7 DEF Agrees

(* A roll-up goes on; when it has read the children it carries what they make. *)
LEMMA AgreesAdvance ==
  ASSUME Shape, Tree, Line, Agrees, OwedStay, UNCHANGED runs, NEW c \in Pending, chains[c].at \in {"read", "list"},
         NEW seen \in Statuses \cup {"none"}, Advance(c, seen),
         chains[c].at = "list" => seen = RollupOf(runs[chains[c].run].parent)
  PROVE  Agrees'
<1>0. PICK n \in Nat : n = Len(chains)
  BY ChainsAre
<1>1. Pending = 1 .. n /\ Pending' = Pending /\ Len(chains') = n
  BY <1>0, ChainsAre, AdvanceMoves
<1>2. \A d \in Pending : d # c => chains'[d] = chains[d]
  BY AdvanceMoves
<1>3. /\ chains'[c].run = chains[c].run /\ chains'[c].seen = seen
      /\ chains[c].at = "read" => chains'[c].at = "list"
      /\ chains[c].at = "list" => chains'[c].at = "write"
  <2>1. chains[c].at # "write"
    OBVIOUS
  <2> QED
    BY <2>1, AdvanceMoves
<1>4. Parents' = Parents /\ \A p : Children(p)' = Children(p)
  BY DEF Parents, Children, Rows
<1>5. ASSUME NEW p \in Parents, Settled(p)' PROVE RolledUp(p)'
  <2>1. p \in Rows /\ ~runs[p].leaf
    BY ParentsAre
  <2>2. RollupOf(p)' = RollupOf(p) /\ Settled(p)
    BY <1>4, <1>5, RollupSame
  <2>3. RolledUp(p)
    BY <2>2 DEF Agrees
  <2>4. \A d \in Pending : Rolls(p, d)' <=> Rolls(p, d)
    BY <1>2, <1>3 DEF Rolls
  <2>5. Agreed(p) => Agreed(p)'
    BY <1>1, <2>1, <2>2, <2>4 DEF Agreed, OwedStay
  <2>6. ASSUME NEW d \in Pending, Newest(p, d) PROVE Newest(p, d)'
    <3>1. \A e \in d + 1 .. n : e \in Pending
      BY <1>1
    <3>2. Rolls(p, d)' /\ \A e \in d + 1 .. Len(chains') : ~Rolls(p, e)'
      BY <1>0, <1>1, <2>4, <2>6, <3>1 DEF Newest
    <3>3. chains'[d].at = "write" => chains'[d].seen = RollupOf(p)
      BY <1>2, <1>3, <2>6 DEF Newest, Rolls
    <3> QED
      BY <2>2, <3>2, <3>3 DEF Newest
  <2> QED
    BY <1>1, <2>3, <2>5, <2>6 DEF RolledUp
<1> QED
  BY <1>4, <1>5 DEF Agrees

(* An update that returns leaves the others in their order. *)
LEMMA NewestReturns ==
  ASSUME Shape, Line, SameTree, NEW c \in Pending, Return(c), NEW p \in Rows, RollupOf(p)' = RollupOf(p),
         NEW d \in Pending, d # c, Newest(p, d)
  PROVE  RolledUp(p)'
<1>0. PICK n \in Nat : n = Len(chains)
  BY ChainsAre
<1>1. /\ Pending = 1 .. n /\ Pending' = 1 .. n - 1 /\ Len(chains') = n - 1
      /\ \A e \in 1 .. n - 1 : Left(c, e) \in Pending /\ Left(c, e) # c /\ chains'[e] = chains[Left(c, e)]
      /\ \A e, f \in 1 .. n - 1 : e < f => Left(c, e) < Left(c, f)
  BY <1>0, ChainsAre, ReturnRemoves
<1>2. PICK e \in 1 .. n - 1 : Left(c, e) = d
  BY <1>0, ReturnRemoves
<1>3. \A f \in 1 .. n - 1 : Rolls(p, f)' <=> Rolls(p, Left(c, f))
  BY <1>1 DEF Rolls, SameTree, Line, Placed
<1>4. ASSUME NEW f \in e + 1 .. n - 1 PROVE ~Rolls(p, f)'
  <2>1. f \in 1 .. n - 1 /\ e < f
    BY <1>1
  <2>2. Left(c, f) \in Pending /\ d < Left(c, f)
    BY <1>1, <1>2, <2>1
  <2>3. Left(c, f) \in d + 1 .. n
    BY <1>1, <2>2
  <2> QED
    BY <1>0, <1>3, <2>1, <2>3 DEF Newest
<1>5. Newest(p, e)'
  BY <1>1, <1>2, <1>3, <1>4 DEF Newest
<1> QED
  BY <1>1, <1>5 DEF RolledUp

(* With no roll-up under way for p there is none after one returns either. *)
LEMMA AgreedReturns ==
  ASSUME Shape, Line, SameTree, NEW c \in Pending, Return(c), NEW p \in Rows, RollupOf(p)' = RollupOf(p),
         \A d \in Pending : d # c => ~Rolls(p, d),
         runs'[p].status = RollupOf(p) \/ (runs'[p].status = "cancelled" /\ Owed(p)')
  PROVE  RolledUp(p)'
<1>1. /\ Pending' = 1 .. Len(chains) - 1
      /\ \A e \in 1 .. Len(chains) - 1 : Left(c, e) \in Pending /\ Left(c, e) # c /\ chains'[e] = chains[Left(c, e)]
  BY ReturnRemoves
<1>2. \A e \in Pending' : ~Rolls(p, e)'
  BY <1>1 DEF Rolls, SameTree, Line, Placed
<1> QED
  BY <1>2 DEF RolledUp, Agreed

(* A roll-up that ends without writing: its parent has children that are not over. *)
LEMMA AgreesReturn ==
  ASSUME Shape, Tree, Line, Agrees, OwedStay, UNCHANGED runs, NEW c \in Pending, Return(c),
         \A p \in Parents : Settled(p) => ~Rolls(p, c)
  PROVE  Agrees'
<1>1. Parents' = Parents /\ (\A p : Children(p)' = Children(p)) /\ SameTree
  BY DEF Parents, Children, Rows, SameTree
<1>2. ASSUME NEW p \in Parents, Settled(p)' PROVE RolledUp(p)'
  <2>1. p \in Rows /\ ~runs[p].leaf
    BY ParentsAre
  <2>2. RollupOf(p)' = RollupOf(p) /\ Settled(p)
    BY <1>1, <1>2, RollupSame
  <2>3. RolledUp(p) /\ ~Rolls(p, c)
    BY <2>2 DEF Agrees
  <2>4. CASE Agreed(p)
    BY <1>1, <2>1, <2>2, <2>4, AgreedReturns DEF Agreed, OwedStay
  <2>5. CASE \E d \in Pending : Newest(p, d)
    BY <1>1, <2>1, <2>2, <2>3, <2>5, NewestReturns DEF Newest
  <2> QED
    BY <2>3, <2>4, <2>5 DEF RolledUp
<1> QED
  BY <1>1, <1>2 DEF Agrees

(* A parent is written: by the oldest of all, with what it read of the children. *)
LEMMA AgreesWrite ==
  ASSUME Shape, Tree, Line, Agrees, OwedStay, NEW c \in Pending, MayStep(c), WriteStep(c)
  PROVE  Agrees'
<1> DEFINE parent == runs[chains[c].run].parent
<1>1. /\ chains[c].run \in Rows /\ parent \in Rows /\ ~runs[parent].leaf
      /\ chains[c].seen \in Statuses /\ chains[c].at = "write" /\ Return(c)
  BY DEF Line, Placed, Tree, WriteStep
<1>2. /\ SameTree /\ runs'[parent].status = chains[c].seen
      /\ \A x \in Rows : x # parent => runs'[x] = runs[x]
  BY <1>1, SetStatusKeeps DEF WriteStep
<1>3. Rows' = Rows /\ (\A p : Children(p)' = Children(p)) /\ Parents' = Parents
  BY <1>2, SameTreeIs
<1> HIDE DEF parent
<1>4. ASSUME NEW p \in Parents, Settled(p)' PROVE RolledUp(p)'
  <2>1. p \in Rows /\ ~runs[p].leaf /\ Children(p) \subseteq Rows
    BY ParentsAre
  <2>2. parent \notin Children(p)
    BY <1>1, <1>2, <1>3, <1>4 DEF Settled, SameTree
  <2>3. RollupOf(p)' = RollupOf(p) /\ Settled(p)
    BY <1>2, <1>3, <1>4, <2>1, <2>2, RollupSame
  <2>4. RolledUp(p)
    BY <2>3 DEF Agrees
  <2>5. ASSUME NEW d \in Pending, Newest(p, d) PROVE RolledUp(p)'
    <3>1. CASE d # c
      BY <1>1, <1>2, <2>1, <2>3, <2>5, <3>1, NewestReturns
    <3>2. CASE d = c
      <4>1. p = parent /\ chains[c].seen = RollupOf(p)
        BY <1>1, <2>5, <3>2 DEF Newest, Rolls, parent
      <4>2. ASSUME NEW e \in Pending, e # c PROVE ~Rolls(p, e)
        <5>1. Len(chains) \in Nat /\ Pending = 1 .. Len(chains)
          BY ChainsAre
        <5>2. Stage(c) = 4 /\ Stage(e) \in 1 .. 4
          BY <1>1, StageIs
        <5>3. ~(e \in 1 .. c - 1)
          BY <5>2 DEF MayStep
        <5>4. e \in c + 1 .. Len(chains)
          BY <4>2, <5>1, <5>3
        <5> QED
          BY <2>5, <3>2, <5>4 DEF Newest
      <4> QED
        BY <1>1, <1>2, <2>1, <2>3, <4>1, <4>2, AgreedReturns
    <3> QED
      BY <3>1, <3>2
  <2>6. CASE Agreed(p)
    <3>1. \A d \in Pending : ~Rolls(p, d)
      BY <2>6 DEF Agreed
    <3>2. p # parent
      BY <1>1, <3>1 DEF Rolls, parent
    <3>3. runs'[p] = runs[p]
      BY <1>2, <2>1, <3>2
    <3> QED
      BY <1>1, <1>2, <2>1, <2>3, <2>6, <3>1, <3>3, AgreedReturns DEF Agreed, OwedStay
  <2> QED
    BY <2>4, <2>5, <2>6 DEF RolledUp
<1> QED
  BY <1>3, <1>4 DEF Agrees

-----------------------------------------------------------------------------
(* Every step of an update or a roll-up keeps the invariant. *)

LEMMA OwedStays ==
  ASSUME Shape, lastState' = lastState, \A q \in Requests : \A p : Owes(q, p) => Owes(q, p)'
  PROVE  OwedStay
BY DEF OwedStay, Owed

LEMMA KnownSame == ASSUME Known, UNCHANGED <<life, lastState>> PROVE Known'
BY DEF Known

LEMMA TreeSame == ASSUME Shape, Tree, SameTree, UNCHANGED <<life, lastState>> PROVE Tree'
BY TreeKept

LEMMA AskedSame == ASSUME Shape, SameTree, UNCHANGED asked PROVE asked' \subseteq Rows'
BY SameTreeIs DEF Shape

LEMMA AdvanceKeeps ==
  ASSUME IInv, NEW c \in Pending, MayStep(c), chains[c].at # "write",
         NEW seen \in Statuses \cup {"none"}, Advance(c, seen), UNCHANGED <<life, lastState, asked, faults>>,
         chains[c].at # "update" => runs[chains[c].run].parent # None /\ seen \in Statuses,
         runs' \in Seq(Row), SameTree, TellsStay, Agrees'
  PROVE  IInv'
<1> USE DEF IInv
<1>1. request' = request /\ chains' \in Seq(Update) /\ Len(chains') = Len(chains)
  BY AdvanceMoves
<1>2. RowsStay /\ Rows' = Rows /\ Rows \subseteq RunIds
  BY RowsStayIf, SameTreeIs, RowsAre
<1>3. OwedStay
  <2>1. \A q \in Requests : \A p : Owes(q, p) => Owes(q, p)'
    BY <1>1 DEF Owes, IsCancelling, Current
  <2> QED
    BY <2>1, OwedStays
<1>4. Shape'
  BY <1>1, AskedSame DEF Shape, SameTree
<1>5. Tree' /\ Known'
  BY TreeSame, KnownSame
<1>6. Holds'
  <2>1. \A q \in Requests : request[q].at \in {"persist", "persisting", "publish"} => Rest(q)
    BY DEF Holds, HoldsOf
  <2> QED
    BY <1>1, <1>2, <2>1, HoldsGoes
<1>7. Line'
  BY <1>2, <1>3, LineAdvance
<1>8. Told'
  <2>1. \A r : Cancelling(r) => Cancelling(r)'
    BY <1>1 DEF Cancelling, IsCancelling, Current
  <2>2. \A r \in RunIds : life'[r] # "unknown" => r \in Rows /\ runs[r].leaf
    BY DEF Tree
  <2>3. \A r \in Rows : runs[r].leaf => \A s : Tells(r, s) => Tells(r, s)'
    BY DEF TellsStay
  <2> QED
    BY <1>2, <2>1, <2>2, <2>3, ToldKept
<1>9. Remembered'
  <2>1. \A r : Awaits(r) => Awaits(r)'
    BY <1>1 DEF Awaits, Listed
  <2>2. \A r \in Rows : runs[r].leaf /\ Ends(r) => Ends(r)'
    BY DEF TellsStay, Ends, RUN_TERMINAL_STATUSES
  <2> QED
    BY <1>2, <2>1, <2>2, RememberedKept
<1> QED
  BY <1>4, <1>5, <1>6, <1>7, <1>8, <1>9

(* The caller goes on, and owes what it owed. *)
LEMMA ReturnGoes ==
  ASSUME Shape, Line, NEW c \in Pending, Return(c), NEW q \in Requests
  PROVE  /\ request'[q].todo = request[q].todo /\ request'[q].root = request[q].root
         /\ request'[q].at \in Enqueues <=> request[q].at \in Enqueues
         /\ request'[q].at \in Cancels => request[q].at \in Cancels
         /\ \A p : (Owes(q, p) => Owes(q, p)') /\ (IsCancelling(q, p) => IsCancelling(q, p)')
         /\ \A r : Listed(q, r)' <=> Listed(q, r)
         /\ request'[q].at = request[q].at \/ (request[q].at = "persisting" /\ request'[q].at = "publish")
            \/ request'[q].at \notin {"persist", "persisting", "publish"}
<1>1. /\ request'[q].todo = request[q].todo /\ request'[q].root = request[q].root
      /\ \/ request'[q] = request[q]
         \/ request[q].at \in DOMAIN After /\ request'[q].at = After[request[q].at]
  BY ReturnMoves
<1>2. \/ request'[q].at = request[q].at
      \/ request[q].at = "failing" /\ request'[q].at = "enqueue"
      \/ request[q].at = "persisting" /\ request'[q].at = "publish"
      \/ request[q].at = "publishing" /\ request'[q].at = "cancel"
      \/ request[q].at = "rootWrite" /\ request'[q].at = "rootPublish"
      \/ request[q].at = "rootEvent" /\ request'[q].at = "answered"
  BY <1>1, AfterIs
<1>3. \A r : Listed(q, r)' <=> Listed(q, r)
  BY <1>1 DEF Listed
<1>4. \A p : (Owes(q, p) => Owes(q, p)') /\ (IsCancelling(q, p) => IsCancelling(q, p)')
  BY <1>1, <1>2 DEF Owes, IsCancelling, Current
<1> QED
  BY <1>1, <1>2, <1>3, <1>4 DEF Enqueues, Cancels

LEMMA ReturnOwes == ASSUME Shape, Line, lastState' = lastState, NEW c \in Pending, Return(c) PROVE OwedStay
BY ReturnGoes, OwedStays

LEMMA ReturnKeeps ==
  ASSUME IInv, NEW c \in Pending, Return(c), UNCHANGED <<life, lastState, asked, faults>>,
         runs' \in Seq(Row), SameTree, TellsStay, Agrees'
  PROVE  IInv'
<1> USE DEF IInv
<1>1. request' \in [Requests -> Doing] /\ chains' \in Seq(Update) /\ Len(chains') <= MaxChains
  <2>1. Len(chains') = Len(chains) - 1 /\ chains' \in Seq(Update)
    BY ReturnRemoves
  <2>2. Len(chains) \in Nat /\ Len(chains) <= MaxChains /\ MaxChains \in Nat
    BY ChainsAre, RunTreeAssumption DEF Shape
  <2>3. request' \in [Requests -> Doing]
    BY ReturnMoves
  <2> QED
    BY <2>1, <2>2, <2>3
<1>2. RowsStay /\ Rows' = Rows /\ Rows \subseteq RunIds
  BY RowsStayIf, SameTreeIs, RowsAre
<1>3. OwedStay
  BY ReturnOwes
<1>4. Shape'
  BY <1>1, AskedSame DEF Shape, SameTree
<1>5. Tree' /\ Known'
  BY TreeSame, KnownSame
<1>6. Holds'
  <2>1. \A q \in Requests : request[q].at \in {"persist", "persisting", "publish"} => Rest(q)
    BY DEF Holds, HoldsOf
  <2>2. ASSUME NEW q \in Requests
        PROVE  /\ request'[q].todo = request[q].todo /\ request'[q].root = request[q].root
               /\ request'[q].at \in Enqueues => request[q].at \in Enqueues
               /\ request'[q].at \in Cancels => request[q].at \in Cancels
               /\ request'[q].at \in {"persist", "persisting", "publish"} => Rest(q)
    BY <2>1, ReturnGoes
  <2> QED
    BY <1>2, <2>2, HoldsGoes
<1>7. Line'
  BY <1>2, <1>3, LineReturn
<1>8. Told'
  <2>1. \A r : Cancelling(r) => Cancelling(r)'
    BY ReturnGoes DEF Cancelling
  <2>2. \A r \in RunIds : life'[r] # "unknown" => r \in Rows /\ runs[r].leaf
    BY DEF Tree
  <2>3. \A r \in Rows : runs[r].leaf => \A s : Tells(r, s) => Tells(r, s)'
    BY DEF TellsStay
  <2> QED
    BY <1>2, <2>1, <2>2, <2>3, ToldKept
<1>9. Remembered'
  <2>1. \A r : Awaits(r) => Awaits(r)'
    BY ReturnGoes DEF Awaits
  <2>2. \A r \in Rows : runs[r].leaf /\ Ends(r) => Ends(r)'
    BY DEF TellsStay, Ends, RUN_TERMINAL_STATUSES
  <2> QED
    BY <1>2, <2>1, <2>2, RememberedKept
<1> QED
  BY <1>4, <1>5, <1>6, <1>7, <1>8, <1>9

LEMMA UpdateKeeps ==
  ASSUME IInv, NEW c \in Pending, MayStep(c), UpdateStep(c), UNCHANGED <<life, lastState, asked, faults>>
  PROVE  IInv'
<1>1. Shape /\ Tree /\ Line /\ Agrees
  BY DEF IInv
<1>2. /\ chains[c].at = "update" /\ Advance(c, "none") /\ SetStatus(chains[c].run, chains[c].status)
      /\ chains[c].run \in Rows /\ chains[c].status \in Statuses
  BY <1>1, ChainsAre DEF UpdateStep, Line, Placed
<1>3. runs' \in Seq(Row) /\ SameTree
  BY <1>1, <1>2, SetStatusKeeps
<1>4. TellsStay
  BY <1>1, <1>2, TellsUpdates DEF TellsStay
<1>5. OwedStay
  <2>1. request' = request
    BY <1>2 DEF Advance
  <2>2. \A q \in Requests : \A p : Owes(q, p) => Owes(q, p)'
    BY <2>1 DEF Owes, IsCancelling, Current
  <2> QED
    BY <1>1, <2>2, OwedStays
<1>6. Agrees'
  BY <1>1, <1>5, AgreesUpdate
<1> QED
  BY <1>2, <1>3, <1>4, <1>6, AdvanceKeeps

(* A roll-up goes on after an await. *)
LEMMA RollupKeeps ==
  ASSUME IInv, NEW c \in Pending, MayStep(c), chains[c].at \in {"read", "list"}, NEW seen \in Statuses,
         Advance(c, seen), UNCHANGED <<runs, life, lastState, asked, faults>>,
         runs[chains[c].run].parent # None,
         chains[c].at = "list" => seen = RollupOf(runs[chains[c].run].parent)
  PROVE  IInv'
<1>1. Shape /\ Tree /\ Line /\ Agrees /\ chains[c].at # "write"
  BY DEF IInv
<1>2. runs' \in Seq(Row) /\ SameTree
  BY <1>1 DEF Shape, SameTree
<1>3. TellsStay
  BY <1>1, TellsMoves DEF TellsStay
<1>4. OwedStay
  <2>1. request' = request
    BY DEF Advance
  <2>2. \A q \in Requests : \A p : Owes(q, p) => Owes(q, p)'
    BY <2>1 DEF Owes, IsCancelling, Current
  <2> QED
    BY <1>1, <2>2, OwedStays
<1>5. Agrees'
  BY <1>1, <1>4, AgreesAdvance
<1> QED
  BY <1>1, <1>2, <1>3, <1>5, AdvanceKeeps

(* A roll-up ends without writing. *)
LEMMA EndKeeps ==
  ASSUME IInv, NEW c \in Pending, chains[c].at # "update", Return(c),
         UNCHANGED <<runs, life, lastState, asked, faults>>,
         \A p \in Parents : Settled(p) => ~Rolls(p, c)
  PROVE  IInv'
<1>1. Shape /\ Tree /\ Line /\ Agrees
  BY DEF IInv
<1>2. runs' \in Seq(Row) /\ SameTree
  BY <1>1 DEF Shape, SameTree
<1>3. TellsStay
  BY <1>1, TellsReturns DEF TellsStay
<1>4. OwedStay
  BY <1>1, ReturnOwes
<1>5. Agrees'
  BY <1>1, <1>4, AgreesReturn
<1> QED
  BY <1>2, <1>3, <1>5, ReturnKeeps

LEMMA StatusesOf ==
  ASSUME Shape, Tree, NEW p \in Parents
  PROVE  /\ {runs[r].status : r \in Children(p)} \in SUBSET Statuses
         /\ {runs[r].status : r \in Children(p)} # {}
BY RowsAre, ParentsAre

(* What a settled parent's children add up to is not queued and not running. *)
LEMMA SettledIs ==
  ASSUME Shape, Tree, NEW p \in Parents, Settled(p)
  PROVE  RollupOf(p) \notin {"queued", "running"}
<1> DEFINE S == {runs[r].status : r \in Children(p)}
<1>1. S \in SUBSET Statuses /\ S # {}
  BY StatusesOf
<1>2. S \cap {"queued", "running"} = {}
  BY DEF Settled
<1> HIDE DEF S
<1>3. rollupRunStatus(S) \in RUN_TERMINAL_STATUSES \cup {"partial"}
  BY <1>1, <1>2, RollupIs
<1> QED
  BY <1>3 DEF RollupOf, S, RUN_TERMINAL_STATUSES

LEMMA ReadKeeps ==
  ASSUME IInv, NEW c \in Pending, MayStep(c), ReadStep(c), UNCHANGED <<life, lastState, asked, faults>>
  PROVE  IInv'
<1> DEFINE p == runs[chains[c].run].parent
<1>1. Shape /\ Tree /\ chains[c].run \in Rows /\ chains[c].at = "read" /\ UNCHANGED runs
  BY DEF IInv, Line, Placed, ReadStep
<1>2. CASE p = None
  <2>1. Return(c)
    BY <1>2 DEF ReadStep
  <2>2. \A parent \in Parents : ~Rolls(parent, c)
    BY <1>1, <1>2, ParentsAre DEF Rolls
  <2> QED
    BY <1>1, <2>1, <2>2, EndKeeps
<1>3. CASE p # None
  <2>1. Advance(c, runs[p].status)
    BY <1>3 DEF ReadStep
  <2>2. p \in Rows
    BY <1>1, <1>3 DEF Tree
  <2>3. runs[p].status \in Statuses
    BY <1>1, <2>2, RowsAre
  <2> QED
    BY <1>1, <1>3, <2>1, <2>3, RollupKeeps
<1> QED
  BY <1>2, <1>3

LEMMA ListKeeps ==
  ASSUME IInv, NEW c \in Pending, MayStep(c), ListStep(c), UNCHANGED <<life, lastState, asked, faults>>
  PROVE  IInv'
<1> DEFINE p == runs[chains[c].run].parent
<1>1. Shape /\ Tree /\ chains[c].run \in Rows /\ p # None /\ chains[c].at = "list" /\ UNCHANGED runs
  BY DEF IInv, Line, Placed, ListStep
<1>2. CASE Unchanged(p, chains[c].seen)
  <2>1. Return(c)
    BY <1>2 DEF ListStep
  <2>2. RollupOf(p) \in {"queued", "running"}
    BY <1>2 DEF Unchanged
  <2>3. ASSUME NEW parent \in Parents, Settled(parent) PROVE ~Rolls(parent, c)
    BY <1>1, <2>2, <2>3, SettledIs DEF Rolls
  <2> QED
    BY <1>1, <2>1, <2>3, EndKeeps
<1>3. CASE ~Unchanged(p, chains[c].seen)
  <2>1. Advance(c, RollupOf(p))
    BY <1>3 DEF ListStep
  <2>2. p \in Parents
    BY <1>1 DEF Tree, Parents, Children
  <2>3. RollupOf(p) \in Statuses
    BY <1>1, <2>2, StatusesOf, RollupIs DEF RollupOf
  <2> QED
    BY <1>1, <2>1, <2>3, RollupKeeps
<1> QED
  BY <1>2, <1>3

LEMMA WriteKeeps ==
  ASSUME IInv, NEW c \in Pending, MayStep(c), WriteStep(c), UNCHANGED <<life, lastState, asked, faults>>
  PROVE  IInv'
<1> DEFINE p == runs[chains[c].run].parent
<1>1. Shape /\ Tree /\ Line /\ Agrees
  BY DEF IInv
<1>2. /\ chains[c].run \in Rows /\ p \in Rows /\ ~runs[p].leaf
      /\ chains[c].seen \in Statuses /\ chains[c].at = "write" /\ Return(c) /\ SetStatus(p, chains[c].seen)
  BY <1>1 DEF Line, Placed, Tree, WriteStep
<1> HIDE DEF p
<1>3. runs' \in Seq(Row) /\ SameTree /\ \A x \in Rows : x # p => runs'[x] = runs[x]
  BY <1>1, <1>2, SetStatusKeeps
<1>4. TellsStay
  <2>1. \A r \in Rows : runs[r].leaf => runs'[r].status = runs[r].status
    BY <1>2, <1>3
  <2> QED
    BY <1>1, <1>2, <2>1, TellsReturns DEF TellsStay
<1>5. OwedStay
  BY <1>1, <1>2, ReturnOwes
<1>6. Agrees'
  BY <1>1, <1>5, AgreesWrite
<1> QED
  BY <1>2, <1>3, <1>4, <1>6, ReturnKeeps

LEMMA ChainStepKeeps == ASSUME IInv, ChainStep PROVE IInv'
<1>1. DOMAIN chains = Pending
  BY ChainsAre DEF IInv
<1>2. PICK c \in Pending : /\ MayStep(c)
                           /\ UpdateStep(c) \/ ReadStep(c) \/ ListStep(c) \/ WriteStep(c)
                           /\ UNCHANGED <<life, lastState, asked, faults>>
  BY <1>1 DEF ChainStep
<1> QED
  BY <1>2, UpdateKeeps, ReadKeeps, ListKeeps, WriteKeeps

-----------------------------------------------------------------------------
(* Every step of a request keeps the invariant. *)

(* A request is made that adds rows: they are its to enqueue, and nobody else's. *)
LEMMA GrownKeeps ==
  ASSUME IInv, Grown, UNCHANGED <<life, lastState, chains, asked, faults>>, NEW q \in Requests, Moved(q),
         request[q].at \in Asking, request'[q].at = "enqueue",
         \A r \in RunIds : Listed(q, r)' <=> r \in Rows' /\ r \notin Rows /\ runs'[r].leaf,
         \A i, k \in 1 .. Len(request'[q].todo) : request'[q].todo[i] = request'[q].todo[k] => i = k,
         \A r \in Rows' : r \notin Rows =>
           /\ runs'[r].leaf => runs'[r].parent # None
           /\ runs'[r].parent # None => runs'[r].parent \in Rows' /\ ~runs'[runs'[r].parent].leaf
           /\ ~runs'[r].leaf => Children(r)' # {}
  PROVE  IInv'
<1> USE DEF IInv
<1>1. RowsStay /\ Rows \subseteq RunIds /\ \A r \in Rows : runs'[r] = runs[r]
  BY RowsStayIf, RowsAre DEF Grown
<1>2. Rows \subseteq Rows' /\ Rows' \subseteq RunIds
  BY <1>1, RunTreeAssumption DEF Rows, RunIds, Grown, RowsStay
<1>3. Shape'
  BY <1>2 DEF Shape, Grown, Moved
<1>4. OwedStay
  <2>1. ASSUME NEW o \in Requests, NEW p, Owes(o, p) PROVE Owes(o, p)'
    <3>1. o # q
      BY <2>1 DEF Owes, IsCancelling, Asking
    <3> QED
      BY <2>1, <3>1 DEF Moved, Owes, IsCancelling, Current
  <2> QED
    BY <2>1, OwedStays
<1>5. Tree'
  <2>1. ASSUME NEW r \in Rows, ~runs[r].leaf PROVE Children(r)' # {}
    <3>1. PICK child \in Rows : runs[child].parent = r
      BY <2>1 DEF Tree, Children
    <3>2. child \in Children(r)'
      BY <1>1, <1>2, <3>1 DEF Children
    <3> QED
      BY <3>2
  <2>2. ASSUME NEW r \in Rows' PROVE /\ runs'[r].leaf => runs'[r].parent # None
                                     /\ runs'[r].parent # None => runs'[r].parent \in Rows' /\ ~runs'[runs'[r].parent].leaf
                                     /\ ~runs'[r].leaf => Children(r)' # {}
                                     /\ ~runs'[r].leaf => lastState[r] \in {"none", "cancelled"}
    <3>1. CASE r \in Rows
      BY <1>1, <1>2, <2>1, <3>1 DEF Tree
    <3>2. CASE r \notin Rows
      BY <1>2, <2>2, <3>2 DEF Tree
    <3> QED
      BY <3>1, <3>2
  <2>3. \A r \in RunIds : /\ life[r] # "unknown" => r \in Rows' /\ runs'[r].leaf
                          /\ r \notin Rows' => lastState[r] = "none"
    BY <1>1, <1>2 DEF Tree
  <2> QED
    BY <2>2, <2>3 DEF Tree
<1>6. Holds'
  <2>1. \A r \in RunIds : r \notin Rows => life[r] = "unknown"
    BY DEF Tree
  <2>2. HoldsOf(q)'
    BY <2>1 DEF HoldsOf, Cancels
  <2>3. Apart(q, q)'
    BY DEF Apart
  <2>4. ASSUME NEW p \in Requests, p # q,
               NEW i \in 1 .. Len(request'[q].todo), NEW k \in 1 .. Len(request'[p].todo)
        PROVE  request'[q].todo[i] # request'[p].todo[k]
    <3>1. request'[p] = request[p] /\ request[p].todo[k] \in RunIds
      BY <2>4, RequestsAre DEF Moved
    <3>2. request[p].todo[k] \in Rows
      BY <2>4, <3>1 DEF Holds, HoldsOf, Listed
    <3>3. request'[q].todo[i] \in RunIds
      BY <1>3, RequestsAre DEF Shape, Moved, Doing
    <3> QED
      BY <3>1, <3>2, <3>3 DEF Listed
  <2>5. \A p \in Requests : p # q => Apart(q, p)' /\ Apart(p, q)'
    BY <2>4 DEF Apart
  <2>6. life' = life
    OBVIOUS
  <2> QED
    BY <1>1, <2>2, <2>3, <2>5, <2>6, HoldsMoves
<1>7. Line'
  <2>1. request[q].at \notin DOMAIN After
    BY AfterIs DEF Asking
  <2> QED
    BY <1>1, <1>4, <2>1, LineSame DEF Moved
<1>8. Known'
  BY KnownSame
<1>9. \A r \in Rows : \A s : Tells(r, s) => Tells(r, s)'
  BY <1>1 DEF Tells, Pending
<1>10. Told'
  <2>1. ASSUME NEW r, Cancelling(r) PROVE Cancelling(r)'
    <3>1. PICK o \in Requests : IsCancelling(o, r)
      BY <2>1 DEF Cancelling
    <3>2. request'[o] = request[o]
      BY <3>1 DEF IsCancelling, Moved, Asking
    <3> QED
      BY <3>1, <3>2 DEF Cancelling, IsCancelling, Current
  <2>2. \A r \in RunIds : life'[r] # "unknown" => r \in Rows /\ runs[r].leaf
    BY DEF Tree
  <2> QED
    BY <1>1, <1>2, <1>9, <2>1, <2>2, ToldKept
<1>11. Remembered'
  <2>1. ASSUME NEW r, Awaits(r) PROVE Awaits(r)'
    <3>1. PICK o \in Requests : request[o].at \in Enqueues /\ Listed(o, r)
      BY <2>1 DEF Awaits
    <3>2. request'[o] = request[o]
      BY <3>1 DEF Enqueues, Moved, Asking
    <3> QED
      BY <3>1, <3>2 DEF Awaits, Listed
  <2>2. \A r \in Rows' : r \notin Rows /\ runs'[r].leaf => Awaits(r)'
    BY <1>2 DEF Awaits, Enqueues
  <2>3. \A r \in Rows : Ends(r) => Ends(r)'
    BY <1>9 DEF Ends, RUN_TERMINAL_STATUSES
  <2> QED
    BY <1>1, <2>1, <2>2, <2>3, RememberedKept
<1>12. Agrees'
  BY <1>4, AgreesGrown
<1> QED
  BY <1>3, <1>5, <1>6, <1>7, <1>8, <1>10, <1>11, <1>12

(* A request goes on by itself. *)
Minds(q) ==
  /\ \A p : (Owes(q, p) => Owes(q, p)') /\ (IsCancelling(q, p) => IsCancelling(q, p)')
  /\ \A r : request[q].at \in Enqueues /\ Listed(q, r) => request'[q].at \in Enqueues /\ Listed(q, r)'

LEMMA RequestKeeps ==
  ASSUME IInv, UNCHANGED <<runs, life, lastState, chains>>, NEW q \in Requests, Moved(q), Holds',
         request[q].at \notin DOMAIN After, Minds(q), asked' \subseteq Rows, faults' \in 0 .. MaxFaults
  PROVE  IInv'
<1> USE DEF IInv
<1>1. SameTree /\ Rows' = Rows /\ Rows \subseteq RunIds /\ RowsStay
  BY SameTreeIs, RowsAre, RowsStayIf DEF SameTree
<1>2. ASSUME NEW o \in Requests PROVE Minds(o)
  <2>1. CASE o # q
    BY <2>1 DEF Moved, Minds, Owes, IsCancelling, Current, Listed
  <2> QED
    BY <2>1
<1>3. OwedStay
  BY <1>2, OwedStays DEF Minds
<1>4. Shape'
  BY <1>1 DEF Shape, Moved
<1>5. Tree' /\ Known'
  BY <1>1, TreeSame, KnownSame
<1>6. Line'
  BY <1>1, <1>3, LineSame DEF Moved
<1>7. \A r \in Rows : \A s : Tells(r, s) => Tells(r, s)'
  BY DEF Tells, Pending
<1>8. Told'
  <2>1. \A r : Cancelling(r) => Cancelling(r)'
    BY <1>2 DEF Cancelling, Minds
  <2>2. \A r \in RunIds : life'[r] # "unknown" => r \in Rows /\ runs[r].leaf
    BY DEF Tree
  <2> QED
    BY <1>1, <1>7, <2>1, <2>2, ToldKept
<1>9. Remembered'
  <2>1. \A r : Awaits(r) => Awaits(r)'
    BY <1>2 DEF Awaits, Minds
  <2>2. \A r \in Rows : Ends(r) => Ends(r)'
    BY <1>7 DEF Ends, RUN_TERMINAL_STATUSES
  <2> QED
    BY <1>1, <2>1, <2>2, RememberedKept
<1>10. Agrees'
  BY <1>3, AgreesSame
<1> QED
  BY <1>4, <1>5, <1>6, <1>8, <1>9, <1>10

(* A request calls an update and waits for it. *)
LEMMA CallKeeps ==
  ASSUME IInv, UNCHANGED <<runs, life, lastState, asked>>, NEW q \in Requests, Moved(q), Holds',
         NEW r \in Rows, NEW status \in RUN_TERMINAL_STATUSES, Call(q, r, status),
         request[q].at \in {"enqueue", "persist", "cancel"}, request'[q].at \in DOMAIN After,
         ~runs[r].leaf => status = "cancelled" /\ Owed(r)',
         life[r] # "unknown" => status = "cancelled" /\ IsCancelling(q, r)',
         \A x : request[q].at \in Enqueues /\ Listed(q, x) /\ x # r => request'[q].at \in Enqueues /\ Listed(q, x)',
         faults' \in 0 .. MaxFaults
  PROVE  IInv'
<1> USE DEF IInv
<1>1. SameTree /\ Rows' = Rows /\ Rows \subseteq RunIds /\ RowsStay
  BY SameTreeIs, RowsAre, RowsStayIf DEF SameTree
<1>2. r \in RunIds /\ status \in Statuses
  BY <1>1 DEF Statuses
<1>3. chains' \in Seq(Update) /\ Len(chains') <= MaxChains
  BY <1>2, CallAdds
<1>4. \A p : ~Owes(q, p) /\ ~IsCancelling(q, p)
  BY DEF Owes, IsCancelling
<1>5. \A o \in Requests : o # q => request'[o] = request[o]
  BY DEF Moved
<1>6. OwedStay
  <2>1. \A o \in Requests : \A p : Owes(o, p) => Owes(o, p)'
    BY <1>4, <1>5 DEF Owes, IsCancelling, Current
  <2> QED
    BY <2>1, OwedStays
<1>7. Shape'
  BY <1>1, <1>3 DEF Shape, Moved
<1>8. Tree' /\ Known'
  BY <1>1, TreeSame, KnownSame
<1>9. Line'
  <2>1. request[q].at \notin DOMAIN After /\ q # None
    BY AfterIs, SizesAre
  <2> QED
    BY <1>1, <1>2, <1>5, <1>6, <2>1, LineCall
<1>10. Tells(r, status)' /\ \A x \in Rows : x # r => \A s : Tells(x, s) => Tells(x, s)'
  BY <1>2, TellsAdds
<1>11. Told'
  <2>1. \A x : Cancelling(x) => Cancelling(x)'
    BY <1>4, <1>5 DEF Cancelling, IsCancelling, Current
  <2>2. \A x \in RunIds : life'[x] # "unknown" => x \in Rows /\ runs[x].leaf
    BY DEF Tree
  <2>3. life[r] # "unknown" => Saying(r)'
    BY <1>10 DEF Saying, Cancelling
  <2> QED
    BY <1>1, <1>10, <2>1, <2>2, <2>3, ToldKept
<1>12. Remembered'
  <2>1. ASSUME NEW x, Awaits(x), x # r PROVE Awaits(x)'
    BY <1>5, <2>1 DEF Awaits, Listed
  <2>2. Ends(r)'
    BY <1>10 DEF Ends, RUN_TERMINAL_STATUSES
  <2>3. \A x \in Rows : x # r /\ Ends(x) => Ends(x)'
    BY <1>10 DEF Ends, RUN_TERMINAL_STATUSES
  <2>4. \A x \in RunIds : life'[x] = life[x]
    OBVIOUS
  <2>5. \A x \in Rows : Awaits(x) => Awaits(x)' \/ Ends(x)'
    BY <2>1, <2>2
  <2>6. \A x \in Rows : Ends(x) => Ends(x)'
    BY <2>2, <2>3
  <2> QED
    BY <1>1, <2>4, <2>5, <2>6, RememberedKept
<1>13. Agrees'
  BY <1>2, <1>6, AgreesCall
<1> QED
  BY <1>7, <1>8, <1>9, <1>11, <1>12, <1>13

-----------------------------------------------------------------------------
(* Every event keeps the invariant. *)

LEMMA JobStepKeeps == ASSUME IInv, JobStep PROVE IInv'
<1> USE DEF IInv
<1>1. PICK r \in Rows, state \in JobStates \ {"queued"} :
        /\ runs[r].leaf /\ life[r] \in {"queued", "running"}
        /\ life' = [life EXCEPT ![r] = state]
        /\ Publish(None, r, state)
        /\ UNCHANGED <<runs, request, asked, faults>>
  BY JobStepDoes
<1>2. SameTree /\ Rows' = Rows /\ Rows \subseteq RunIds /\ RowsStay /\ r \in RunIds
  BY <1>1, SameTreeIs, RowsAre, RowsStayIf DEF SameTree
<1>3. /\ lastState' \in [RunIds -> {"none"} \cup JobStates]
      /\ lastState'[r] = state /\ \A x \in RunIds : x # r => lastState'[x] = lastState[x]
      /\ \/ chains' = chains /\ lastState[r] = state
         \/ Call(None, r, state) /\ lastState[r] # state
      /\ chains' \in Seq(Update) /\ Len(chains') <= MaxChains
  BY <1>1, PublishDoes
<1>4. /\ life' \in [RunIds -> {"unknown"} \cup JobStates]
      /\ life'[r] = state /\ \A x \in RunIds : x # r => life'[x] = life[x]
      /\ life[r] # "unknown" /\ state # "unknown"
  BY <1>1, <1>2 DEF Shape, JobStates, RUN_TERMINAL_STATUSES
<1>5. OwedStay
  <2>1. \A q \in Requests : \A p : Owes(q, p) => Owes(q, p)'
    BY <1>1 DEF Owes, IsCancelling, Current
  <2>2. \A p \in Rows : ~runs[p].leaf => lastState'[p] = lastState[p]
    BY <1>1, <1>2, <1>3
  <2> QED
    BY <2>1, <2>2 DEF OwedStay, Owed
<1>6. Shape'
  BY <1>1, <1>2, <1>3, <1>4 DEF Shape
<1>7. Tree'
  BY <1>1, <1>2, <1>3, <1>4, TreeKept
<1>8. Holds'
  <2>1. \A q \in Requests : request[q].at \in {"persist", "persisting", "publish"} => Rest(q)
    BY DEF Holds, HoldsOf
  <2>2. \A x \in RunIds : life[x] # "unknown" \/ life'[x] = "unknown"
    BY <1>4
  <2> QED
    BY <1>1, <1>2, <2>1, <2>2, HoldsGoes
<1>9. Line'
  <2>1. CASE chains' = chains
    BY <1>1, <1>2, <1>5, <2>1, LineSame
  <2>2. CASE Call(None, r, state)
    <3>1. state \in Statuses /\ \A q \in Requests : request'[q].at = request[q].at
      BY <1>1 DEF JobStates, Statuses
    <3> QED
      BY <1>1, <1>2, <1>5, <2>2, <3>1, LineCall
  <2> QED
    BY <1>3, <2>1, <2>2
<1>10. Known'
  BY <1>3, <1>4 DEF Known
<1>11. /\ \A x \in Rows : \A s : x # r /\ Tells(x, s) => Tells(x, s)'
       /\ lastState[r] = state => \A s : Tells(r, s) => Tells(r, s)'
       /\ lastState[r] # state => Tells(r, state)'
  BY <1>1, TellsPublish
<1>12. Told'
  <2>1. \A x : Cancelling(x) => Cancelling(x)'
    BY <1>1 DEF Cancelling, IsCancelling, Current
  <2>2. \A x \in RunIds : life'[x] # "unknown" => x \in Rows /\ runs[x].leaf
    BY <1>1, <1>4 DEF Tree
  <2>3. ASSUME NEW x \in Rows, life'[x] # "unknown"
        PROVE  \/ Saying(x)'
               \/ /\ life[x] # "unknown" /\ lastState'[x] = lastState[x]
                  /\ \A s : Tells(x, s) => Tells(x, s)'
                  /\ Cancelling(x) => Cancelling(x)'
    <3>1. CASE x # r
      BY <1>2, <1>3, <1>4, <1>11, <2>1, <2>3, <3>1
    <3>2. CASE x = r /\ lastState[r] = state
      BY <1>3, <1>4, <1>11, <2>1, <3>2
    <3>3. CASE x = r /\ lastState[r] # state
      BY <1>3, <1>11, <3>3 DEF Saying
    <3> QED
      BY <3>1, <3>2, <3>3
  <2> QED
    BY <1>2, <2>2, <2>3, ToldKept
<1>13. Remembered'
  <2>1. \A x : Awaits(x) => Awaits(x)'
    BY <1>1 DEF Awaits, Listed
  <2>2. \A x \in Rows : x # r /\ Ends(x) => Ends(x)'
    BY <1>11 DEF Ends, RUN_TERMINAL_STATUSES
  <2>3. \A x \in RunIds : life[x] # "unknown" => life'[x] # "unknown"
    BY <1>4
  <2>4. \A x \in Rows : life[x] = "unknown" => x # r
    BY <1>4
  <2> QED
    BY <1>2, <2>1, <2>2, <2>3, <2>4, RememberedKept
<1>14. Agrees'
  <2>1. CASE chains' = chains
    BY <1>1, <1>5, <2>1, AgreesSame
  <2>2. CASE Call(None, r, state)
    <3>1. state \in Statuses
      BY DEF JobStates, Statuses
    <3> QED
      BY <1>1, <1>5, <2>2, <3>1, AgreesCall
  <2> QED
    BY <1>3, <2>1, <2>2
<1> QED
  BY <1>6, <1>7, <1>8, <1>9, <1>10, <1>12, <1>13, <1>14

(* Who is not the first of the list is on what is left of it. *)
LEMMA ListedTail ==
  ASSUME Shape, NEW q \in Requests, Rest(q), request'[q].todo = Tail(request[q].todo), NEW x, Listed(q, x), x # Current(q)
  PROVE  Listed(q, x)'
<1>1. PICK i \in 1 .. Len(request[q].todo) : request[q].todo[i] = x
  BY DEF Listed
<1>2. i # 1 /\ Len(request[q].todo) \in Nat \ {0}
  BY <1>1, TodoIs
<1>3. PICK k \in 1 .. Len(request[q].todo) - 1 : k + 1 = i
  <2>1. i - 1 \in 1 .. Len(request[q].todo) - 1 /\ (i - 1) + 1 = i
    BY <1>2
  <2> QED
    BY <2>1
<1>4. /\ Len(Tail(request[q].todo)) = Len(request[q].todo) - 1
      /\ Tail(request[q].todo)[k] = request[q].todo[k + 1]
  BY TodoIs
<1> QED
  BY <1>1, <1>3, <1>4 DEF Listed

LEMMA EnqueueKeeps == ASSUME IInv, NEW q \in Requests, Enqueue(q) PROVE IInv'
<1> USE DEF IInv
<1> DEFINE r == Current(q)
<1>1. /\ request[q].at = "enqueue" /\ Rest(q)
      /\ life[r] = "unknown" /\ life' = [life EXCEPT ![r] = "queued"]
      /\ Publish(None, r, "queued")
      /\ request' = [request EXCEPT ![q].todo = Tail(@)]
      /\ UNCHANGED <<runs, asked, faults>>
  BY DEF Enqueue, Queue!Announce, Queue!Become
<1>2. r \in RunIds /\ r \in Rows /\ runs[r].leaf
  BY <1>1, TodoIs DEF Holds, HoldsOf, Enqueues
<1>3. SameTree /\ Rows' = Rows /\ Rows \subseteq RunIds /\ RowsStay
  BY <1>1, SameTreeIs, RowsAre, RowsStayIf DEF SameTree
<1>4. /\ Moved(q) /\ request'[q].at = "enqueue" /\ request'[q].root = request[q].root
      /\ request'[q].todo = Tail(request[q].todo)
  <2>1. request' = [request EXCEPT ![q].at = request[q].at, ![q].todo = Tail(@)]
    BY <1>1 DEF Shape, Doing
  <2>2. request[q].at \in RequestAt
    BY RequestsAre
  <2> QED
    BY <1>1, <2>1, <2>2, TailMoves
<1>5. \A o \in Requests : o # q => request'[o] = request[o]
  BY <1>4 DEF Moved
<1> HIDE DEF r
<1>6. /\ lastState' \in [RunIds -> {"none"} \cup JobStates]
      /\ lastState'[r] = "queued" /\ \A x \in RunIds : x # r => lastState'[x] = lastState[x]
      /\ chains' = chains
  <2>1. "queued" \in JobStates
    BY DEF JobStates
  <2> QED
    BY <1>1, <1>2, <2>1, PublishDoes
<1>7. /\ life' \in [RunIds -> {"unknown"} \cup JobStates]
      /\ life'[r] = "queued" /\ \A x \in RunIds : x # r => life'[x] = life[x]
  BY <1>1, <1>2 DEF Shape, JobStates
<1>8. OwedStay
  <2>1. \A o \in Requests : \A p : Owes(o, p) => Owes(o, p)'
    BY <1>1, <1>5 DEF Owes, IsCancelling, Current
  <2>2. \A p \in Rows : ~runs[p].leaf => lastState'[p] = lastState[p]
    BY <1>2, <1>3, <1>6
  <2> QED
    BY <2>1, <2>2 DEF OwedStay, Owed
<1>9. Shape'
  BY <1>1, <1>3, <1>4, <1>6, <1>7 DEF Shape, Moved
<1>10. Tree'
  BY <1>1, <1>2, <1>3, <1>6, <1>7, TreeKept
<1>11. Holds'
  <2>1. \A x \in RunIds : life[x] # "unknown" \/ life'[x] = "unknown" \/ x = Current(q)
    BY <1>7 DEF r
  <2>2. request[q].at \in Enqueues /\ request'[q].at \notin Cancels /\ request'[q].at \notin {"persist", "persisting", "publish"}
    BY <1>1, <1>4 DEF Enqueues, Cancels
  <2> QED
    BY <1>1, <1>3, <1>4, <2>1, <2>2, HoldsTail
<1>12. Line'
  <2>1. \A o \in Requests : request'[o].at = request[o].at
    BY <1>1, <1>4, <1>5
  <2> QED
    BY <1>3, <1>6, <1>8, <2>1, LineSame
<1>13. Known'
  BY <1>6, <1>7 DEF Known
<1>14. \A x : \A s : Tells(x, s) => Tells(x, s)'
  BY <1>1, <1>6 DEF Tells, Pending
<1>15. Told'
  <2>1. \A x : Cancelling(x) => Cancelling(x)'
    BY <1>1, <1>5 DEF Cancelling, IsCancelling, Current
  <2>2. \A x \in RunIds : life'[x] # "unknown" => x \in Rows /\ runs[x].leaf
    BY <1>2, <1>7 DEF Tree
  <2>3. \A x \in Rows : lastState'[x] # "queued" => x # r
    BY <1>6
  <2> QED
    BY <1>3, <1>6, <1>7, <1>14, <2>1, <2>2, <2>3, ToldKept
<1>16. Remembered'
  <2>1. ASSUME NEW x, x # r, Awaits(x) PROVE Awaits(x)'
    <3>1. PICK o \in Requests : request[o].at \in Enqueues /\ Listed(o, x)
      BY <2>1 DEF Awaits
    <3>2. CASE o = q
      BY <1>1, <1>4, <2>1, <3>1, <3>2, ListedTail DEF Awaits, r, Enqueues
    <3>3. CASE o # q
      BY <1>5, <3>1, <3>3 DEF Awaits, Listed
    <3> QED
      BY <3>2, <3>3
  <2>2. \A x \in Rows : Ends(x) => Ends(x)'
    BY <1>14 DEF Ends, RUN_TERMINAL_STATUSES
  <2>3. \A x \in RunIds : life[x] # "unknown" => life'[x] # "unknown"
    BY <1>7
  <2>4. \A x \in Rows : Awaits(x) => Awaits(x)' \/ life'[x] # "unknown"
    BY <1>7, <2>1
  <2> QED
    BY <1>3, <2>2, <2>3, <2>4, RememberedKept
<1>17. Agrees'
  BY <1>1, <1>6, <1>8, AgreesSame
<1> QED
  BY <1>9, <1>10, <1>11, <1>12, <1>13, <1>15, <1>16, <1>17

(* The cancelled event of a child or of the parent: an update only if it is news. *)
LEMMA PublishCancelledKeeps ==
  ASSUME IInv, NEW q \in Requests, NEW r \in Rows, NEW waiting, PublishCancelled(q, r, waiting),
         \/ request[q].at = "publish" /\ Rest(q) /\ r = Current(q) /\ waiting = "publishing"
         \/ request[q].at = "rootPublish" /\ r = request[q].root /\ waiting = "rootEvent"
  PROVE  IInv'
<1> USE DEF IInv
<1> DEFINE at == IF chains' = chains THEN After[waiting] ELSE waiting
<1>1. /\ Publish(q, r, "cancelled") /\ UNCHANGED <<runs, life, asked, faults>>
      /\ request' = [request EXCEPT ![q].at = at, ![q].todo = IF Rest(q) THEN Tail(@) ELSE @]
      /\ q # None /\ q \in Requests \cup {None} /\ "cancelled" \in JobStates /\ "cancelled" \in Statuses
  BY SizesAre DEF PublishCancelled, JobStates, Statuses, RUN_TERMINAL_STATUSES
<1>2. /\ at \in {"cancel", "answered", "publishing", "rootEvent"} /\ at \in RequestAt
      /\ at = After[waiting] \/ at \in DOMAIN After
      /\ at \notin Enqueues /\ at \notin {"persist", "persisting", "publish"}
      /\ chains' # chains => at \in DOMAIN After
      /\ request[q].at \in Cancels /\ request[q].at \notin Enqueues /\ request[q].at \notin DOMAIN After
  BY AfterIs DEF RequestAt, Cancels, Enqueues
<1> HIDE DEF at
<1>3. /\ Moved(q) /\ request'[q].at = at /\ request'[q].root = request[q].root
      /\ Rest(q) => request'[q].todo = Tail(request[q].todo)
      /\ ~Rest(q) => request'[q].todo = request[q].todo
  <2>1. CASE Rest(q)
    <3>1. request' = [request EXCEPT ![q].at = at, ![q].todo = Tail(@)]
      BY <1>1, <2>1
    <3> QED
      BY <1>2, <2>1, <3>1, TailMoves
  <2>2. CASE ~Rest(q)
    <3>1. Goto(q, at)
      BY <1>1, <2>2 DEF Goto, Shape, Doing
    <3> QED
      BY <1>2, <2>2, <3>1, GotoMoves
  <2> QED
    BY <2>1, <2>2
<1>4. \A o \in Requests : o # q => request'[o] = request[o]
  BY <1>3 DEF Moved
<1>5. SameTree /\ Rows' = Rows /\ Rows \subseteq RunIds /\ RowsStay /\ r \in RunIds
  BY <1>1, SameTreeIs, RowsAre, RowsStayIf DEF SameTree
<1>6. /\ lastState' \in [RunIds -> {"none"} \cup JobStates]
      /\ lastState'[r] = "cancelled" /\ \A x \in RunIds : x # r => lastState'[x] = lastState[x]
      /\ \/ chains' = chains /\ lastState[r] = "cancelled"
         \/ Call(q, r, "cancelled") /\ lastState[r] # "cancelled"
      /\ chains' \in Seq(Update) /\ Len(chains') <= MaxChains
  BY <1>1, PublishDoes
<1>7. \A p : IsCancelling(q, p) \/ Owes(q, p) => p = r
  BY DEF IsCancelling, Owes
<1>8. OwedStay
  <2>1. \A o \in Requests : \A p : p # r /\ Owes(o, p) => Owes(o, p)'
    BY <1>4, <1>7 DEF Owes, IsCancelling, Current
  <2> QED
    BY <1>5, <1>6, <2>1 DEF OwedStay, Owed
<1>9. Shape'
  BY <1>1, <1>3, <1>5, <1>6 DEF Shape, Moved
<1>10. Tree'
  <2>1. \A x \in RunIds : lastState'[x] = lastState[x] \/ (x \in Rows /\ lastState'[x] = "cancelled")
    BY <1>5, <1>6
  <2> QED
    BY <1>1, <1>5, <2>1, TreeKept
<1>11. Holds'
  <2>1. CASE Rest(q)
    <3>1. /\ \A x \in RunIds : life[x] # "unknown" \/ life'[x] = "unknown"
          /\ request'[q].at \in Enqueues => request[q].at \in Enqueues
          /\ request'[q].at \in Cancels => request[q].at \in Cancels
          /\ request'[q].at \notin {"persist", "persisting", "publish"}
      BY <1>1, <1>2, <1>3
    <3> QED
      BY <1>3, <1>5, <2>1, <3>1, HoldsTail
  <2>2. CASE ~Rest(q)
    <3>1. \A o \in Requests : request[o].at \in {"persist", "persisting", "publish"} => Rest(o)
      BY DEF Holds, HoldsOf
    <3>2. ASSUME NEW o \in Requests
          PROVE  /\ request'[o].todo = request[o].todo /\ request'[o].root = request[o].root
                 /\ request'[o].at \in Enqueues => request[o].at \in Enqueues
                 /\ request'[o].at \in Cancels => request[o].at \in Cancels
                 /\ request'[o].at \in {"persist", "persisting", "publish"} => Rest(o)
      BY <1>2, <1>3, <1>4, <2>2, <3>1
    <3>3. \A x \in RunIds : life[x] # "unknown" \/ life'[x] = "unknown"
      BY <1>1
    <3> QED
      BY <1>5, <3>2, <3>3, HoldsGoes
  <2> QED
    BY <2>1, <2>2
<1>12. ASSUME Call(q, r, "cancelled") PROVE Line' /\ Agrees'
  <2>1. chains' # chains
    BY <1>12, ChainsAre, CallAdds, <1>1, <1>5
  <2>2. request'[q].at \in DOMAIN After
    BY <1>2, <1>3, <2>1
  <2>3. Owed(r)'
    BY <1>6 DEF Owed
  <2>4. Line'
    BY <1>1, <1>2, <1>4, <1>5, <1>8, <1>12, <2>2, <2>3, LineCall
  <2>5. Agrees'
    BY <1>1, <1>5, <1>8, <1>12, AgreesCall
  <2> QED
    BY <2>4, <2>5
<1>13. ASSUME chains' = chains PROVE Line' /\ Agrees'
  <2>1. Line'
    BY <1>2, <1>4, <1>5, <1>8, <1>13, LineSame
  <2>2. Agrees'
    BY <1>1, <1>8, <1>13, AgreesSame
  <2> QED
    BY <2>1, <2>2
<1>14. Line' /\ Agrees'
  BY <1>6, <1>12, <1>13
<1>15. Known'
  BY <1>1, <1>6 DEF Known
<1>16. /\ \A x \in Rows : \A s : x # r /\ Tells(x, s) => Tells(x, s)'
       /\ lastState[r] = "cancelled" => \A s : Tells(r, s) => Tells(r, s)'
       /\ lastState[r] # "cancelled" => Tells(r, "cancelled")'
  BY <1>1, TellsPublish
<1>17. life[r] # "unknown" => Saying(r)'
  <2>1. CASE lastState[r] = "cancelled" /\ life[r] # "unknown"
    <3>1. Saying(r)
      BY <2>1 DEF Told
    <3>2. Tells(r, "cancelled")
      BY <2>1, <3>1 DEF Saying
    <3> QED
      BY <1>6, <1>16, <2>1, <3>2 DEF Saying
  <2>2. CASE lastState[r] # "cancelled"
    BY <1>6, <1>16, <2>2 DEF Saying
  <2> QED
    BY <2>1, <2>2
<1>18. Told'
  <2>1. \A x : x # r /\ Cancelling(x) => Cancelling(x)'
    BY <1>4, <1>7 DEF Cancelling, IsCancelling, Current
  <2>2. \A x \in RunIds : life'[x] # "unknown" => x \in Rows /\ runs[x].leaf
    BY <1>1 DEF Tree
  <2>3. ASSUME NEW x \in Rows, life'[x] # "unknown"
        PROVE  \/ Saying(x)'
               \/ /\ life[x] # "unknown" /\ lastState'[x] = lastState[x]
                  /\ \A s : Tells(x, s) => Tells(x, s)'
                  /\ Cancelling(x) => Cancelling(x)'
    <3>1. CASE x # r
      BY <1>1, <1>5, <1>6, <1>16, <2>1, <2>3, <3>1
    <3>2. CASE x = r
      BY <1>1, <1>17, <2>3, <3>2
    <3> QED
      BY <3>1, <3>2
  <2> QED
    BY <1>5, <2>2, <2>3, ToldKept
<1>19. Remembered'
  <2>1. \A x : Awaits(x) => Awaits(x)'
    BY <1>2, <1>4 DEF Awaits, Listed
  <2>2. \A x \in Rows : x # r /\ Ends(x) => Ends(x)'
    BY <1>16 DEF Ends, RUN_TERMINAL_STATUSES
  <2>3. Ends(r) => Ends(r)'
    BY <1>16 DEF Ends, RUN_TERMINAL_STATUSES
  <2>4. \A x \in RunIds : life'[x] = life[x]
    BY <1>1
  <2>5. \A x \in Rows : Ends(x) => Ends(x)'
    BY <2>2, <2>3
  <2> QED
    BY <1>5, <2>1, <2>4, <2>5, RememberedKept
<1> QED
  BY <1>9, <1>10, <1>11, <1>14, <1>15, <1>18, <1>19

LEMMA CancelPublishesKeeps == ASSUME IInv, NEW q \in Requests, CancelPublishes(q) PROVE IInv'
<1>1. request[q].at = "publish" /\ PublishCancelled(q, Current(q), "publishing")
  BY DEF CancelPublishes
<1>2. Rest(q)
  BY <1>1 DEF IInv, Holds, HoldsOf
<1>3. Current(q) \in Rows
  BY <1>2, TodoIs DEF IInv, Holds, HoldsOf
<1> QED
  BY <1>1, <1>2, <1>3, PublishCancelledKeeps

LEMMA CancelRootPublishesKeeps == ASSUME IInv, NEW q \in Requests, CancelRootPublishes(q) PROVE IInv'
<1>1. request[q].at = "rootPublish" /\ PublishCancelled(q, request[q].root, "rootEvent")
  BY DEF CancelRootPublishes
<1>2. request[q].root \in Rows
  BY <1>1 DEF IInv, Holds, HoldsOf, Cancels
<1> QED
  BY <1>1, <1>2, PublishCancelledKeeps

-----------------------------------------------------------------------------
(* The other steps of requests. *)

(* Going on with the same list. *)
LEMMA GotoHolds ==
  ASSUME Shape, Holds, UNCHANGED <<runs, life>>, NEW q \in Requests, NEW at \in RequestAt, Goto(q, at),
         at \in Enqueues => request[q].at \in Enqueues,
         at \in Cancels => request[q].at \in Cancels,
         at \in {"persist", "persisting", "publish"} => Rest(q)
  PROVE  Holds'
<1>1. /\ Moved(q) /\ request'[q].at = at
      /\ request'[q].root = request[q].root /\ request'[q].todo = request[q].todo
  BY GotoMoves
<1>2. ASSUME NEW o \in Requests
      PROVE  /\ request'[o].todo = request[o].todo /\ request'[o].root = request[o].root
             /\ request'[o].at \in Enqueues => request[o].at \in Enqueues
             /\ request'[o].at \in Cancels => request[o].at \in Cancels
             /\ request'[o].at \in {"persist", "persisting", "publish"} => Rest(o)
  <2>1. request[o].at \in {"persist", "persisting", "publish"} => Rest(o)
    BY DEF Holds, HoldsOf
  <2> QED
    BY <1>1, <2>1 DEF Moved
<1>3. RowsStay /\ \A r \in RunIds : life[r] # "unknown" \/ life'[r] = "unknown"
  BY RowsStayIf
<1> QED
  BY <1>2, <1>3, HoldsGoes

LEMMA EnqueueThrowsKeeps == ASSUME IInv, NEW q \in Requests, EnqueueThrows(q) PROVE IInv'
<1>1. /\ request[q].at = "enqueue" /\ Goto(q, "error") /\ Fault
      /\ UNCHANGED <<runs, life, lastState, chains, asked>> /\ Shape /\ Holds
  BY DEF EnqueueThrows, IInv
<1>2. "error" \in RequestAt /\ "error" \in Enqueues /\ "enqueue" \in Enqueues /\ "error" \notin Cancels
  BY DEF RequestAt, Enqueues, Cancels
<1>3. Moved(q) /\ request'[q].at = "error" /\ request'[q].root = request[q].root /\ request'[q].todo = request[q].todo
  BY <1>1, <1>2, GotoMoves
<1>4. Holds'
  BY <1>1, <1>2, GotoHolds
<1>5. Minds(q)
  BY <1>1, <1>2, <1>3 DEF Minds, Owes, IsCancelling, Listed
<1>6. asked' \subseteq Rows /\ faults' \in 0 .. MaxFaults /\ request[q].at \notin DOMAIN After
  BY <1>1, AfterIs, RunTreeAssumption DEF Shape, Fault
<1> QED
  BY <1>1, <1>3, <1>4, <1>5, <1>6, RequestKeeps

LEMMA AnswerKeeps == ASSUME IInv, NEW q \in Requests, Answer(q) PROVE IInv'
<1>1. /\ request[q].at = "enqueue" /\ ~Rest(q) /\ Goto(q, "answered")
      /\ UNCHANGED <<runs, life, lastState, chains, asked, faults>> /\ Shape /\ Holds
  BY DEF Answer, IInv
<1>2. "answered" \in RequestAt /\ "answered" \notin Enqueues /\ "answered" \notin Cancels
  BY DEF RequestAt, Enqueues, Cancels
<1>3. Moved(q) /\ request'[q].at = "answered" /\ request'[q].root = request[q].root /\ request'[q].todo = request[q].todo
  BY <1>1, <1>2, GotoMoves
<1>4. Holds'
  BY <1>1, <1>2, GotoHolds
<1>5. \A r : ~Listed(q, r)
  BY <1>1 DEF Rest, Listed
<1>6. Minds(q)
  BY <1>1, <1>5 DEF Minds, Owes, IsCancelling
<1>7. asked' \subseteq Rows /\ faults' \in 0 .. MaxFaults /\ request[q].at \notin DOMAIN After
  BY <1>1, AfterIs DEF Shape
<1> QED
  BY <1>1, <1>3, <1>4, <1>6, <1>7, RequestKeeps

LEMMA CancelJobKeeps == ASSUME IInv, NEW q \in Requests, CancelJob(q) PROVE IInv'
<1>1. /\ request[q].at = "cancel" /\ Rest(q) /\ Goto(q, "persist")
      /\ UNCHANGED <<runs, life, lastState, chains, faults>> /\ Shape /\ Holds
      /\ asked' = asked \/ asked' = asked \cup {Current(q)}
  BY DEF CancelJob, IInv
<1>2. "persist" \in RequestAt /\ "persist" \notin Enqueues /\ "cancel" \in Cancels /\ "cancel" \notin Enqueues
  BY DEF RequestAt, Enqueues, Cancels
<1>3. Moved(q) /\ request'[q].at = "persist" /\ request'[q].root = request[q].root /\ request'[q].todo = request[q].todo
  BY <1>1, <1>2, GotoMoves
<1>4. Holds'
  BY <1>1, <1>2, GotoHolds
<1>5. Minds(q)
  BY <1>1, <1>2 DEF Minds, Owes, IsCancelling
<1>6. Current(q) \in Rows
  BY <1>1, TodoIs DEF Holds, HoldsOf
<1>7. asked' \subseteq Rows /\ faults' \in 0 .. MaxFaults /\ request[q].at \notin DOMAIN After
  BY <1>1, <1>6, AfterIs DEF Shape
<1> QED
  BY <1>1, <1>3, <1>4, <1>5, <1>7, RequestKeeps

LEMMA FailRunKeeps == ASSUME IInv, NEW q \in Requests, FailRun(q) PROVE IInv'
<1> DEFINE r == Current(q)
<1>1. /\ request[q].at = "enqueue" /\ Rest(q) /\ Fault /\ Call(q, r, "failed")
      /\ request' = [request EXCEPT ![q].at = "failing", ![q].todo = Tail(@)]
      /\ UNCHANGED <<runs, life, lastState, asked>> /\ Shape /\ Holds
  BY DEF FailRun, IInv
<1>2. /\ "failing" \in RequestAt /\ "failing" \in Enqueues /\ "enqueue" \in Enqueues /\ "failing" \notin Cancels
      /\ "failing" \in DOMAIN After /\ "failed" \in RUN_TERMINAL_STATUSES
  BY AfterIs DEF RequestAt, Enqueues, Cancels, RUN_TERMINAL_STATUSES
<1>3. /\ Moved(q) /\ request'[q].at = "failing" /\ request'[q].root = request[q].root
      /\ request'[q].todo = Tail(request[q].todo)
  BY <1>1, <1>2, TailMoves
<1>4. r \in Rows /\ runs[r].leaf /\ life[r] = "unknown"
  BY <1>1, <1>2, TodoIs DEF Holds, HoldsOf
<1>5. Holds'
  <2>1. RowsStay /\ \A x \in RunIds : life[x] # "unknown" \/ life'[x] = "unknown"
    BY <1>1, RowsStayIf
  <2>2. request'[q].at \notin {"persist", "persisting", "publish"}
    BY <1>3
  <2> QED
    BY <1>1, <1>2, <1>3, <2>1, <2>2, HoldsTail
<1>6. \A x : Listed(q, x) /\ x # r => request'[q].at \in Enqueues /\ Listed(q, x)'
  BY <1>1, <1>2, <1>3, ListedTail
<1>7. faults' \in 0 .. MaxFaults
  BY <1>1, RunTreeAssumption DEF Shape, Fault
<1> HIDE DEF r
<1> QED
  BY <1>1, <1>2, <1>3, <1>4, <1>5, <1>6, <1>7, CallKeeps

LEMMA CancelPersistsKeeps == ASSUME IInv, NEW q \in Requests, CancelPersists(q) PROVE IInv'
<1>1. /\ request[q].at = "persist" /\ Call(q, Current(q), "cancelled") /\ Goto(q, "persisting")
      /\ UNCHANGED <<runs, life, lastState, asked, faults>> /\ Shape /\ Holds
  BY DEF CancelPersists, IInv
<1>2. /\ "persisting" \in RequestAt /\ "persisting" \notin Enqueues /\ "persist" \notin Enqueues /\ "persist" \in Cancels
      /\ "persisting" \in DOMAIN After /\ "cancelled" \in RUN_TERMINAL_STATUSES
  BY AfterIs DEF RequestAt, Enqueues, Cancels, RUN_TERMINAL_STATUSES
<1>3. Moved(q) /\ request'[q].at = "persisting" /\ request'[q].root = request[q].root /\ request'[q].todo = request[q].todo
  BY <1>1, <1>2, GotoMoves
<1>4. Rest(q)
  BY <1>1 DEF Holds, HoldsOf
<1>5. PICK r \in Rows : r = Current(q)
  BY <1>1, <1>4, TodoIs DEF Holds, HoldsOf
<1>6. Holds'
  BY <1>1, <1>2, <1>4, GotoHolds
<1>7. Current(q)' = r /\ IsCancelling(q, r)'
  BY <1>3, <1>5 DEF Current, IsCancelling
<1>8. Owed(r)'
  BY <1>7 DEF Owed, Owes
<1>9. faults' \in 0 .. MaxFaults
  BY <1>1 DEF Shape
<1> QED
  BY <1>1, <1>2, <1>3, <1>5, <1>6, <1>7, <1>8, <1>9, CallKeeps

LEMMA CancelRootKeeps == ASSUME IInv, NEW q \in Requests, CancelRoot(q) PROVE IInv'
<1>1. /\ request[q].at = "cancel" /\ Call(q, request[q].root, "cancelled") /\ Goto(q, "rootWrite")
      /\ UNCHANGED <<runs, life, lastState, asked, faults>> /\ Shape /\ Holds /\ Tree
  BY DEF CancelRoot, IInv
<1>2. /\ "rootWrite" \in RequestAt /\ "cancel" \notin Enqueues /\ "rootWrite" \notin Enqueues /\ "cancel" \in Cancels
      /\ "rootWrite" \in DOMAIN After /\ "cancelled" \in RUN_TERMINAL_STATUSES
  BY AfterIs DEF RequestAt, Enqueues, Cancels, RUN_TERMINAL_STATUSES
<1>3. Moved(q) /\ request'[q].at = "rootWrite" /\ request'[q].root = request[q].root /\ request'[q].todo = request[q].todo
  BY <1>1, <1>2, GotoMoves
<1>4. PICK r \in Rows : r = request[q].root
  BY <1>1, <1>2 DEF Holds, HoldsOf
<1>5. ~runs[r].leaf /\ life[r] = "unknown"
  BY <1>1, <1>2, <1>4, RowsAre DEF Holds, HoldsOf, Tree
<1>6. Holds'
  BY <1>1, <1>2, GotoHolds
<1>7. Owed(r)'
  BY <1>3, <1>4 DEF Owed, Owes
<1>8. faults' \in 0 .. MaxFaults
  BY <1>1 DEF Shape
<1> QED
  BY <1>1, <1>2, <1>3, <1>4, <1>5, <1>6, <1>7, <1>8, CallKeeps

LEMMA ChildrenAreFinite == ASSUME Shape, NEW S, S \subseteq Rows PROVE IsFiniteSet(S) /\ Cardinality(S) \in Nat
<1>1. IsFiniteSet(Rows)
  <2>1. Rows = 1 .. Len(runs) /\ 1 \in Int /\ Len(runs) \in Int
    BY RowsAre
  <2> QED
    BY <2>1, FS_Interval
<1>2. IsFiniteSet(S)
  BY <1>1, FS_Subset
<1> QED
  BY <1>2, FS_CardinalityType

(* A request adds rows and is to enqueue the leaves among them, each once. *)
Enrols(q) ==
  /\ Grown /\ UNCHANGED <<life, lastState, chains, asked, faults>>
  /\ Moved(q) /\ request[q].at \in Asking /\ request'[q].at = "enqueue"
  /\ \A r \in RunIds : Listed(q, r)' <=> r \in Rows' /\ r \notin Rows /\ runs'[r].leaf
  /\ \A i, k \in 1 .. Len(request'[q].todo) : request'[q].todo[i] = request'[q].todo[k] => i = k
  /\ \A r \in Rows' : r \notin Rows =>
       /\ runs'[r].leaf => runs'[r].parent # None
       /\ runs'[r].parent # None => runs'[r].parent \in Rows' /\ ~runs'[runs'[r].parent].leaf
       /\ ~runs'[r].leaf => Children(r)' # {}

LEMMA EnrolsKeeps == ASSUME IInv, NEW q \in Requests, Enrols(q) PROVE IInv'
BY GrownKeeps DEF Enrols

(* A parent is inserted with its children. *)
LEMMA InsertEnrols ==
  ASSUME IInv, NEW q \in Requests, request[q].at \in Asking,
         NEW parent, parent = None \/ (parent \in Rows /\ ~runs[parent].leaf), NEW count \in Nat \ {0},
         Insert(q, parent, count), UNCHANGED <<life, lastState, chains, asked, faults>>
  PROVE  Enrols(q)
<1>0. PICK root \in Nat : root = Len(runs) + 1
  BY RowsAre DEF IInv
<1>1. Shape /\ Rows = 1 .. Len(runs) /\ Rows \subseteq RunIds /\ Len(runs) \in Nat /\ parent \in RunIds \cup {None}
  BY RowsAre DEF IInv
<1>2. /\ Grown /\ Len(runs') = root + count /\ root \in RunIds
      /\ runs'[root] = Run(parent, FALSE)
      /\ \A i \in 1 .. count : runs'[root + i] = Run(root, TRUE)
      /\ \A r \in Rows' : r \in Rows \/ r = root \/ \E i \in 1 .. count : r = root + i
      /\ request' = [request EXCEPT ![q] =
           [at |-> "enqueue", root |-> root, todo |-> [i \in 1 .. count |-> root + i]]]
      /\ [i \in 1 .. count |-> root + i] \in Seq(RunIds)
  <2>1. count \in Nat /\ Insert(q, parent, count)
    OBVIOUS
  <2> DEFINE first == Len(runs) + 1
  <2>2. /\ Grown /\ Len(runs') = first + count /\ first \in RunIds
        /\ runs'[first] = Run(parent, FALSE)
        /\ \A i \in 1 .. count : runs'[first + i] = Run(first, TRUE)
        /\ \A r \in Rows' : r \in Rows \/ r = first \/ \E i \in 1 .. count : r = first + i
        /\ request' = [request EXCEPT ![q] =
             [at |-> "enqueue", root |-> first, todo |-> [i \in 1 .. count |-> first + i]]]
        /\ [i \in 1 .. count |-> first + i] \in Seq(RunIds)
    BY <1>1, <2>1, InsertAdds
  <2> HIDE DEF first
  <2>3. first = root
    BY <1>0 DEF first
  <2> QED
    BY <2>2, <2>3
<1>3. /\ runs'[root].parent = parent /\ runs'[root].leaf = FALSE
      /\ \A i \in 1 .. count : runs'[root + i].parent = root /\ runs'[root + i].leaf = TRUE
  <2>1. Run(parent, FALSE).parent = parent /\ Run(parent, FALSE).leaf = FALSE
    BY <1>1, RunIs
  <2>2. Run(root, TRUE).parent = root /\ Run(root, TRUE).leaf = TRUE
    BY <1>2, RunIs
  <2> QED
    BY <1>2, <2>1, <2>2
<1>4. Rows' = 1 .. root + count /\ root \in Rows' /\ root \notin Rows /\ \A i \in 1 .. count : root + i \in Rows' /\ root + i \notin Rows
  BY <1>0, <1>1, <1>2 DEF Rows
<1> DEFINE new == [at |-> "enqueue", root |-> root, todo |-> [i \in 1 .. count |-> root + i]]
<1>5. Moved(q) /\ request'[q] = new
  <2>1. new \in Doing
    BY <1>2 DEF Doing, RequestAt, Enqueues
  <2> HIDE DEF new
  <2>2. request' = [request EXCEPT ![q] = new]
    BY <1>2 DEF new
  <2> QED
    BY <1>1, <2>1, <2>2, RequestBecomes
<1>6. /\ request'[q].at = "enqueue" /\ Len(request'[q].todo) = count
      /\ \A i \in 1 .. count : request'[q].todo[i] = root + i
  <2> DEFINE todo == [i \in 1 .. count |-> root + i]
  <2>1. todo \in [1 .. count -> Nat] /\ \A i \in 1 .. count : todo[i] = root + i
    OBVIOUS
  <2>2. request'[q].todo = todo /\ request'[q].at = "enqueue"
    BY <1>5
  <2> HIDE DEF todo
  <2>3. Len(todo) = count
    BY <2>1, ListIs
  <2> QED
    BY <2>1, <2>2, <2>3
<1>7. \A r \in RunIds : Listed(q, r)' <=> r \in Rows' /\ r \notin Rows /\ runs'[r].leaf
  <2>1. \A r : Listed(q, r)' <=> \E i \in 1 .. count : r = root + i
    BY <1>6 DEF Listed
  <2>2. \A r \in Rows' : r \notin Rows /\ runs'[r].leaf => \E i \in 1 .. count : r = root + i
    BY <1>2, <1>3
  <2>3. ASSUME NEW r, NEW i \in 1 .. count, r = root + i PROVE r \in Rows' /\ r \notin Rows /\ runs'[r].leaf
    BY <1>3, <1>4, <2>3
  <2> QED
    BY <2>1, <2>2, <2>3, Zenon
<1>8. \A i, k \in 1 .. Len(request'[q].todo) : request'[q].todo[i] = request'[q].todo[k] => i = k
  BY <1>6
<1>9. parent # None => parent \in Rows' /\ ~runs'[parent].leaf
  BY <1>0, <1>1, <1>2, <1>4 DEF Grown
<1>10. Children(root)' # {}
  <2>1. 1 \in 1 .. count
    OBVIOUS
  <2>2. root + 1 \in Rows' /\ runs'[root + 1].parent = root
    BY <1>3, <1>4, <2>1
  <2> QED
    BY <2>2 DEF Children
<1>11. root # None
  BY <1>0, <1>1 DEF None
<1>12. ASSUME NEW r \in Rows', r \notin Rows
       PROVE  /\ runs'[r].leaf => runs'[r].parent # None
              /\ runs'[r].parent # None => runs'[r].parent \in Rows' /\ ~runs'[runs'[r].parent].leaf
              /\ ~runs'[r].leaf => Children(r)' # {}
  <2>1. CASE r = root
    BY <1>3, <1>9, <1>10, <2>1
  <2>2. ASSUME NEW i \in 1 .. count, r = root + i
        PROVE  runs'[r].leaf /\ runs'[r].parent = root
    BY <1>3, <2>2
  <2>3. CASE \E i \in 1 .. count : r = root + i
    BY <1>3, <1>4, <1>11, <2>2, <2>3
  <2> QED
    BY <1>2, <1>12, <2>1, <2>3
<1> QED
  BY <1>2, <1>5, <1>6, <1>7, <1>8, <1>12 DEF Enrols

LEMMA CreateEnrols == ASSUME IInv, NEW q \in Requests, Create(q) PROVE Enrols(q)
<1>1. Targets \in Nat \ {0}
  BY RunTreeAssumption
<1> QED
  BY <1>1, InsertEnrols DEF Create, Asking

LEMMA RetryParentEnrols == ASSUME IInv, NEW q \in Requests, NEW p \in Parents, RetryParent(q, p) PROVE Enrols(q)
<1>0. PICK failed \in (SUBSET Children(p)) \ {{}} : Insert(q, p, Cardinality(failed))
  BY DEF RetryParent, selectFailedTargets
<1>1. /\ request[q].at \in Asking /\ failed # {} /\ Insert(q, p, Cardinality(failed))
      /\ UNCHANGED <<life, lastState, chains, asked, faults>> /\ Shape /\ Tree
  <2>1. failed # {} /\ Insert(q, p, Cardinality(failed))
    BY <1>0, Zenon
  <2>2. request[q].at \in Asking /\ UNCHANGED <<life, lastState, chains, asked, faults>>
    BY DEF RetryParent, Asking
  <2> QED
    BY <2>1, <2>2 DEF IInv
<1>2. p \in Rows /\ ~runs[p].leaf /\ failed \subseteq Rows
  BY <1>1, ParentsAre
<1>3. Cardinality(failed) \in Nat \ {0}
  BY <1>1, <1>2, ChildrenAreFinite, FS_EmptySet
<1> QED
  BY <1>1, <1>2, <1>3, InsertEnrols

LEMMA RetrySingleEnrols ==
  ASSUME IInv, NEW q \in Requests, NEW r \in Rows, r \notin Parents, RetrySingle(q, r) PROVE Enrols(q)
<1>0. PICK new \in Nat : new = Len(runs) + 1
  BY RowsAre DEF IInv
<1> DEFINE parent == runs[r].parent
<1>1. /\ Shape /\ Tree /\ Rows = 1 .. Len(runs) /\ Rows \subseteq RunIds /\ Len(runs) \in Nat
      /\ runs \in Seq(Row) /\ MaxRuns \in Nat
  BY RowsAre, RunTreeAssumption DEF IInv, Shape
<1>2. parent \in Rows /\ parent # None /\ ~runs[parent].leaf
  <2>1. runs[r].leaf
    BY <1>1, RowsAre DEF Tree, Parents
  <2> QED
    BY <1>1, <2>1 DEF Tree
<1>3. /\ request[q].at \in Asking /\ Len(runs) < MaxRuns /\ runs' = Append(runs, Run(parent, TRUE))
      /\ request' = [request EXCEPT ![q] = [at |-> "enqueue", root |-> None, todo |-> <<new>>]]
      /\ UNCHANGED <<life, lastState, chains, asked, faults>>
  BY <1>0, <1>2 DEF RetrySingle, Asking
<1> HIDE DEF parent
<1>4. /\ Run(parent, TRUE) \in Row /\ Run(parent, TRUE).parent = parent
      /\ Run(parent, TRUE).leaf = TRUE /\ Run(parent, TRUE).status = "queued"
  BY <1>1, <1>2, RunIs
<1>5. /\ runs' \in Seq(Row) /\ Len(runs') = new /\ runs'[new] = Run(parent, TRUE)
      /\ \A x \in Rows : runs'[x] = runs[x]
  <2>1. PICK row \in Row : row = Run(parent, TRUE)
    BY <1>4
  <2>2. runs' = Append(runs, row)
    BY <1>3, <2>1
  <2>3. /\ Append(runs, row) \in Seq(Row) /\ Len(Append(runs, row)) = Len(runs) + 1
        /\ \A i \in 1 .. Len(runs) : Append(runs, row)[i] = runs[i]
        /\ Append(runs, row)[Len(runs) + 1] = row
    BY <1>1, AppendProperties
  <2> QED
    BY <1>0, <1>1, <2>1, <2>2, <2>3
<1>6. Rows' = 1 .. new /\ new \in RunIds /\ new \notin Rows /\ \A x \in Rows' : x \in Rows \/ x = new
  BY <1>0, <1>1, <1>3, <1>5 DEF Rows, RunIds
<1>7. Grown
  <2>1. \A x \in Rows' : x \notin Rows => runs'[x].status = "queued"
    BY <1>4, <1>5, <1>6
  <2>2. Len(runs') \in Nat /\ Len(runs') >= Len(runs) /\ Len(runs') <= MaxRuns
    BY <1>0, <1>1, <1>3, <1>5
  <2> QED
    BY <1>5, <2>1, <2>2 DEF Grown
<1>8. <<new>> \in Seq(RunIds) /\ Len(<<new>>) = 1 /\ <<new>>[1] = new
  BY <1>6, OneIs
<1> DEFINE doing == [at |-> "enqueue", root |-> None, todo |-> <<new>>]
<1>9. Moved(q) /\ request'[q] = doing
  <2>1. doing \in Doing
    BY <1>8 DEF Doing, RequestAt, Enqueues
  <2> HIDE DEF doing
  <2>2. request' = [request EXCEPT ![q] = doing]
    BY <1>3 DEF doing
  <2> QED
    BY <1>1, <2>1, <2>2, RequestBecomes
<1>10. request'[q].at = "enqueue" /\ Len(request'[q].todo) = 1 /\ request'[q].todo[1] = new
  BY <1>8, <1>9
<1>11. \A x \in RunIds : Listed(q, x)' <=> x \in Rows' /\ x \notin Rows /\ runs'[x].leaf
  <2>1. \A x : Listed(q, x)' <=> x = new
    BY <1>10 DEF Listed
  <2>2. new \in Rows' /\ runs'[new].leaf
    <3>1. new \in Rows'
      BY <1>0, <1>1, <1>6
    <3>2. runs'[new].leaf
      BY <1>4, <1>5
    <3> QED
      BY <3>1, <3>2
  <2> QED
    BY <1>6, <2>1, <2>2
<1>12. \A i, k \in 1 .. Len(request'[q].todo) : request'[q].todo[i] = request'[q].todo[k] => i = k
  BY <1>10
<1>13. \A x \in Rows' : x \notin Rows =>
           /\ runs'[x].leaf => runs'[x].parent # None
           /\ runs'[x].parent # None => runs'[x].parent \in Rows' /\ ~runs'[runs'[x].parent].leaf
           /\ ~runs'[x].leaf => Children(x)' # {}
  <2>1. parent \in Rows' /\ ~runs'[parent].leaf
    BY <1>0, <1>1, <1>2, <1>5, <1>6
  <2> QED
    BY <1>2, <1>4, <1>5, <1>6, <2>1
<1> QED
  BY <1>3, <1>7, <1>9, <1>10, <1>11, <1>12, <1>13 DEF Enrols

LEMMA CancelParentKeeps == ASSUME IInv, NEW q \in Requests, NEW p \in Parents, CancelParent(q, p) PROVE IInv'
<1>1. /\ request[q].at = "stop" /\ UNCHANGED <<runs, life, lastState, chains, asked, faults>>
      /\ Shape /\ Tree /\ Holds
  BY DEF CancelParent, IInv
<1>2. p \in Rows /\ p \in RunIds /\ ~runs[p].leaf /\ Active(p) \subseteq Rows /\ Rows \subseteq RunIds
  BY <1>1, ParentsAre, RowsAre DEF Active
<1>3. PICK todo \in [1 .. Cardinality(Active(p)) -> Active(p)] :
        request' = [request EXCEPT ![q] = [at |-> "cancel", root |-> p, todo |-> todo]]
  BY DEF CancelParent
<1>4. PICK n \in Nat : n = Cardinality(Active(p))
  BY <1>1, <1>2, ChildrenAreFinite
<1>5. todo \in [1 .. n -> RunIds] /\ todo \in [1 .. n -> Rows]
  BY <1>2, <1>3, <1>4
<1>6. todo \in Seq(RunIds) /\ Len(todo) = n /\ \A i \in 1 .. n : todo[i] \in Rows
  BY <1>5, ListIs
<1> DEFINE new == [at |-> "cancel", root |-> p, todo |-> todo]
<1>7. Moved(q) /\ request'[q] = new
  <2>1. new \in Doing
    BY <1>2, <1>6 DEF Doing, RequestAt, Cancels
  <2> HIDE DEF new
  <2>2. request' = [request EXCEPT ![q] = new]
    BY <1>3 DEF new
  <2> QED
    BY <1>1, <2>1, <2>2, RequestBecomes
<1>8. request'[q].at = "cancel" /\ request'[q].root = p /\ request'[q].todo = todo
  BY <1>7
<1>9. RowsStay /\ Rows' = Rows
  BY <1>1, RowsStayIf DEF Rows
<1>10. Holds'
  <2>1. "cancel" \notin Enqueues
    BY DEF Enqueues
  <2>2. HoldsOf(q)'
    BY <1>1, <1>2, <1>6, <1>8, <1>9, <2>1 DEF HoldsOf, Listed
  <2>3. Apart(q, q)' /\ \A o \in Requests : o # q => Apart(q, o)' /\ Apart(o, q)'
    BY <1>8, <2>1 DEF Apart
  <2>4. \A r \in RunIds : life[r] # "unknown" \/ life'[r] = "unknown"
    BY <1>1
  <2> QED
    BY <1>1, <1>7, <1>9, <2>2, <2>3, <2>4, HoldsMoves
<1>11. request[q].at \notin DOMAIN After /\ Minds(q)
  BY <1>1, AfterIs DEF Minds, Owes, IsCancelling, Enqueues
<1>12. asked' \subseteq Rows /\ faults' \in 0 .. MaxFaults
  BY <1>1 DEF Shape
<1> QED
  BY <1>1, <1>7, <1>10, <1>11, <1>12, RequestKeeps

(* A request reads its run, or is refused. *)
LEMMA AsideMoves ==
  ASSUME IInv, NEW q \in Requests,
         Refuse(q) \/ (\E p \in Parents : AskCancel(q, p)) \/ (\E r \in Rows : AskRetry(q, r))
  PROVE  /\ Moved(q) /\ request'[q].todo = request[q].todo
         /\ request[q].at \in Asking /\ request'[q].at \in {"retry", "stop", "refused"}
         /\ UNCHANGED <<runs, life, lastState, chains, asked, faults>>
<1>1. Shape
  BY DEF IInv
<1>2. CASE Refuse(q)
  <2>1. "refused" \in RequestAt
    BY DEF RequestAt
  <2> QED
    BY <1>1, <1>2, <2>1, GotoMoves DEF Refuse, Asking
<1>3. CASE (\E p \in Parents : AskCancel(q, p)) \/ (\E r \in Rows : AskRetry(q, r))
  <2>1. PICK r \in Rows, at \in {"retry", "stop"} : Await(q, at, r)
    BY <1>3 DEF AskCancel, AskRetry, Parents
  <2> DEFINE new == [request[q] EXCEPT !.at = at, !.root = r]
  <2>2. request[q] \in Doing /\ r \in RunIds /\ at \in RequestAt
    BY <1>1, RequestsAre, RowsAre DEF RequestAt, Asking
  <2>3. new \in Doing /\ new.at = at /\ new.todo = request[q].todo
    BY <2>2 DEF Doing
  <2>4. request' = [request EXCEPT ![q] = new]
    BY <1>1, <2>1 DEF Await, Shape
  <2> HIDE DEF new
  <2>5. Moved(q) /\ request'[q] = new
    BY <1>1, <2>3, <2>4, RequestBecomes
  <2> QED
    BY <2>1, <2>3, <2>5 DEF Await, Asking
<1> QED
  BY <1>2, <1>3

LEMMA AsideKeeps ==
  ASSUME IInv, NEW q \in Requests,
         Refuse(q) \/ (\E p \in Parents : AskCancel(q, p)) \/ (\E r \in Rows : AskRetry(q, r))
  PROVE  IInv'
<1>1. /\ Moved(q) /\ request'[q].todo = request[q].todo
      /\ request[q].at \in Asking /\ request'[q].at \in {"retry", "stop", "refused"}
      /\ UNCHANGED <<runs, life, lastState, chains, asked, faults>> /\ Shape /\ Holds
  BY AsideMoves DEF IInv
<1>2. RowsStay /\ Rows' = Rows
  BY <1>1, RowsStayIf DEF Rows
<1>3. request'[q].at \notin Enqueues /\ request'[q].at \notin Cancels
  BY <1>1 DEF Enqueues, Cancels
<1>4. Holds'
  <2>1. HoldsOf(q)
    BY <1>1 DEF Holds
  <2>2. HoldsOf(q)'
    BY <1>1, <1>2, <1>3, <2>1 DEF HoldsOf, Listed
  <2>3. Apart(q, q)' /\ \A o \in Requests : o # q => Apart(q, o)' /\ Apart(o, q)'
    BY <1>3 DEF Apart
  <2>4. \A r \in RunIds : life[r] # "unknown" \/ life'[r] = "unknown"
    BY <1>1
  <2> QED
    BY <1>1, <1>2, <2>2, <2>3, <2>4, HoldsMoves
<1>5. request[q].at \notin DOMAIN After /\ Minds(q)
  BY <1>1, AfterIs DEF Minds, Owes, IsCancelling, Enqueues, Asking
<1>6. asked' \subseteq Rows /\ faults' \in 0 .. MaxFaults
  BY <1>1 DEF Shape
<1> QED
  BY <1>1, <1>4, <1>5, <1>6, RequestKeeps

-----------------------------------------------------------------------------
(* The inductive invariant. *)

LEMMA InitHolds == Init => IInv
<1> SUFFICES ASSUME Init PROVE IInv
  OBVIOUS
<1>1. /\ runs = <<>> /\ chains = <<>> /\ asked = {} /\ faults = 0
      /\ lastState = [r \in RunIds |-> "none"] /\ request = [q \in Requests |-> Idle]
      /\ life = [r \in RunIds |-> "unknown"]
  BY DEF Init, Queue!Init
<1>2. Len(runs) = 0 /\ Len(chains) = 0 /\ Rows = {} /\ Pending = {} /\ Parents = {}
  BY <1>1 DEF Rows, Pending, Parents
<1>3. Idle \in Doing /\ Idle.at = "idle" /\ Len(Idle.todo) = 0
  BY DEF Idle, Doing, RequestAt, Asking
<1>4. Shape
  BY <1>1, <1>2, <1>3, RunTreeAssumption DEF Shape, JobStates
<1>5. \A q \in Requests : request[q] = Idle
  BY <1>1
<1>6. Holds
  <2>1. \A q \in Requests : \A r : ~Listed(q, r)
    BY <1>3, <1>5 DEF Listed
  <2> QED
    BY <1>3, <1>5, <2>1 DEF Holds, HoldsOf, Apart, Enqueues, Cancels
<1>7. Tree /\ Line /\ Known /\ Told /\ Remembered /\ Agrees
  BY <1>1, <1>2 DEF Tree, Line, Known, Told, Remembered, Agrees
<1> QED
  BY <1>4, <1>6, <1>7 DEF IInv

LEMMA StutterKeeps == ASSUME IInv, UNCHANGED vars PROVE IInv'
<1>1. UNCHANGED <<runs, life, lastState, chains, request, asked, faults>>
  BY DEF vars
<1>2. Pending' = Pending /\ Rows' = Rows /\ Parents' = Parents /\ \A p : Children(p)' = Children(p)
  BY <1>1 DEF Pending, Rows, Parents, Children
<1>3. SameTree /\ RowsStay
  BY <1>1, RowsStayIf DEF SameTree, IInv
<1>4. OwedStay
  BY <1>1 DEF OwedStay, Owed, Owes, IsCancelling, Current
<1>5. Shape'
  BY <1>1, <1>2 DEF IInv, Shape
<1>6. Tree' /\ Known'
  BY <1>1, <1>3, TreeSame, KnownSame DEF IInv
<1>7. Holds'
  BY <1>1, <1>2 DEF IInv, Holds, HoldsOf, Apart, Listed, Rest
<1>8. Line'
  BY <1>1, <1>3, <1>4, LineSame DEF IInv
<1>9. (\A r, s : Tells(r, s)' <=> Tells(r, s)) /\ (\A r : Cancelling(r)' <=> Cancelling(r)) /\ \A r : Awaits(r)' <=> Awaits(r)
  BY <1>1, <1>2 DEF Tells, Cancelling, IsCancelling, Current, Awaits, Listed
<1>10. Told' /\ Remembered'
  BY <1>1, <1>2, <1>9 DEF IInv, Told, Saying, Remembered, Ends, RUN_TERMINAL_STATUSES
<1>11. Agrees'
  BY <1>1, <1>4, AgreesSame DEF IInv
<1> QED
  BY <1>5, <1>6, <1>7, <1>8, <1>10, <1>11 DEF IInv

LEMMA NextKeeps == IInv /\ [Next]_vars => IInv'
<1> SUFFICES ASSUME IInv, [Next]_vars PROVE IInv'
  OBVIOUS
<1>0. ASSUME NEW q \in Requests, Decides(q) PROVE IInv'
  BY <1>0, EnrolsKeeps, CancelParentKeeps, RetryParentEnrols, RetrySingleEnrols DEF Decides
<1>1. ASSUME NEW q \in Requests, RequestStep(q) PROVE IInv'
  BY <1>0, <1>1, AsideKeeps, EnqueueKeeps, FailRunKeeps, EnqueueThrowsKeeps, AnswerKeeps, CancelJobKeeps, CancelPersistsKeeps,
     CancelPublishesKeeps, CancelRootKeeps, CancelRootPublishesKeeps DEF RequestStep
<1>2. ASSUME NEW q \in Requests, RequestArrives(q) PROVE IInv'
  BY <1>2, EnrolsKeeps, CreateEnrols, AsideKeeps DEF RequestArrives
<1>3. CASE JobStep
  BY <1>3, JobStepKeeps
<1>4. CASE ChainStep
  BY <1>4, ChainStepKeeps
<1>5. CASE UNCHANGED vars
  BY <1>5, StutterKeeps
<1> QED
  BY <1>1, <1>2, <1>3, <1>4, <1>5 DEF Next

(* The inductive invariant holds in every state: what each row and each parent is
   going to tell is settled by the updates under way and the requests' lists. *)
THEOREM Inductive == Spec => []IInv
BY InitHolds, NextKeeps, PTL DEF Spec

-----------------------------------------------------------------------------
(* What the runs check. *)

(* Every variable of RunTree holds what its declaration says. *)
THEOREM TypeCorrect == Spec => []TypeOK
<1>1. ASSUME IInv PROVE TypeOK
  <2>1. Shape /\ Holds /\ Line
    BY <1>1 DEF IInv
  <2>2. /\ runs \in Seq([parent : RunIds \cup {None}, leaf : BOOLEAN, status : Statuses])
        /\ life \in [RunIds -> {"unknown", "queued", "running"} \cup RUN_TERMINAL_STATUSES]
        /\ lastState \in [RunIds -> {"none", "queued", "running"} \cup RUN_TERMINAL_STATUSES]
        /\ Len(chains) <= MaxChains /\ Len(runs) <= MaxRuns
        /\ asked \subseteq Rows /\ faults \in 0 .. MaxFaults
    <3>1. /\ {"unknown", "queued", "running"} \cup RUN_TERMINAL_STATUSES = {"unknown"} \cup JobStates
          /\ {"none", "queued", "running"} \cup RUN_TERMINAL_STATUSES = {"none"} \cup JobStates
      BY DEF JobStates
    <3> QED
      BY <2>1, <3>1 DEF Shape, Row
  <2>3. ASSUME NEW c \in DOMAIN chains
        PROVE  chains[c].run \in Rows /\ chains[c].status \in Statuses /\ chains[c].at \in {Stages[n] : n \in 1 .. 4}
    <3>1. c \in Pending
      BY <2>1, ChainsAre
    <3> QED
      BY <2>1, <3>1, ChainsAre, StageIs DEF Line, Placed
  <2>4. ASSUME NEW q \in Requests
        PROVE  /\ request[q].at \in {"idle", "retry", "stop", "refused", "answered", "error",
                                      "enqueue", "cancel", "persist"} \cup DOMAIN After
                                     \cup {After[a] : a \in DOMAIN After}
               /\ \A i \in DOMAIN request[q].todo : request[q].todo[i] \in Rows
    <3>1. /\ request[q].at \in RequestAt /\ request[q].todo \in Seq(RunIds)
          /\ DOMAIN request[q].todo = 1 .. Len(request[q].todo)
          /\ \A i \in 1 .. Len(request[q].todo) : request[q].todo[i] \in RunIds
      BY <2>1, RequestsAre
    <3>2. "publish" = After["persisting"] /\ "rootPublish" = After["rootWrite"]
      BY AfterIs
    <3>3. \A i \in 1 .. Len(request[q].todo) : request[q].todo[i] \in Rows
      BY <2>1, <3>1 DEF Holds, HoldsOf, Listed
    <3>4. request[q].at \in {"idle", "retry", "stop", "refused", "answered", "error",
                             "enqueue", "cancel", "persist", "publish", "rootPublish"} \cup DOMAIN After
      BY <3>1, AfterIs DEF RequestAt, Asking, Cancels, Enqueues
    <3>5. "publish" \in {After[a] : a \in DOMAIN After} /\ "rootPublish" \in {After[a] : a \in DOMAIN After}
      BY <3>2, AfterIs
    <3> QED
      BY <3>1, <3>3, <3>4, <3>5
  <2> QED
    BY <2>2, <2>3, <2>4 DEF TypeOK
<1> QED
  BY <1>1, Inductive, PTL

(* When nothing is under way a row tells what it has been told. *)
LEMMA QuietTells ==
  ASSUME Shape, Quiet
  PROVE  /\ Pending = {} /\ (\A r, s : Tells(r, s) => runs[r].status = s) /\ (\A r : ~Cancelling(r))
         /\ \A r : Awaits(r) => Stuck(r)
<1>1. chains = <<>> /\ \A q \in Requests : request[q].at \in {"idle", "answered", "refused", "error"}
  BY DEF Quiet
<1>2. Pending = {}
  BY <1>1 DEF Pending
<1>3. \A r, s : Tells(r, s) => runs[r].status = s
  BY <1>2 DEF Tells
<1>4. \A r : ~Cancelling(r)
  BY <1>1 DEF Cancelling, IsCancelling
<1>5. ASSUME NEW r, Awaits(r) PROVE Stuck(r)
  <2>1. PICK q \in Requests : request[q].at \in Enqueues /\ Listed(q, r)
    BY <1>5 DEF Awaits
  <2>2. request[q].at = "error"
    BY <1>1, <2>1 DEF Enqueues
  <2> QED
    BY <2>1, <2>2, RequestsAre, <1>5 DEF Stuck, Listed
<1> QED
  BY <1>2, <1>3, <1>4, <1>5

(* A leaf whose job is over, or that never had one and is not stuck, is over. *)
LEMMA QuietLeaf ==
  ASSUME IInv, Quiet, NEW r \in Rows, runs[r].leaf
  PROVE  /\ life[r] # "unknown" => runs[r].status = lastState[r] /\ lastState[r] \in {life[r], "cancelled"}
         /\ isTerminalRunStatus(runs[r].status) \/ Stuck(r)
<1>1. /\ Shape /\ r \in RunIds /\ (\A s : Tells(r, s) => runs[r].status = s)
      /\ ~Cancelling(r) /\ (Awaits(r) => Stuck(r))
  BY RowsAre, QuietTells DEF IInv
<1>2. CASE life[r] = "unknown"
  <2>1. Awaits(r) \/ Ends(r)
    BY <1>2 DEF IInv, Remembered
  <2> QED
    BY <1>1, <1>2, <2>1 DEF Ends, isTerminalRunStatus
<1>3. CASE life[r] # "unknown"
  <2>1. life[r] \in RUN_TERMINAL_STATUSES
    BY <1>1, <1>3 DEF Quiet, Shape, JobStates
  <2>2. lastState[r] \in {life[r], "cancelled"} /\ lastState[r] # "queued"
    BY <1>1, <1>3, <2>1 DEF IInv, Known, RUN_TERMINAL_STATUSES
  <2>3. Saying(r)
    BY <1>3, <2>2 DEF IInv, Told
  <2>4. runs[r].status = lastState[r]
    BY <1>1, <2>3 DEF Saying
  <2> QED
    BY <1>3, <2>1, <2>2, <2>4 DEF isTerminalRunStatus, RUN_TERMINAL_STATUSES
<1> QED
  BY <1>2, <1>3

(* No run is left queued without a job, but those that the request which created or
   retried them never came to.                                               *)
THEOREM NothingForgotten == Spec => []NoRunForgotten
<1>1. IInv => NoRunForgotten
  BY QuietLeaf DEF NoRunForgotten
<1> QED
  BY <1>1, Inductive, PTL

(* However cancels, the queue and the worker crossed each other, the row ends up
   telling the job's outcome, or cancelled if that was published last.       *)
THEOREM RowsTell == Spec => []RowTellsOutcome
<1>1. IInv => RowTellsOutcome
  BY QuietLeaf DEF RowTellsOutcome
<1> QED
  BY <1>1, Inductive, PTL

(* Statuses that are over add up to what they all are, or to partial. *)
LEMMA RollupSummarises ==
  ASSUME Shape, Tree, NEW p \in Parents, \A r \in Children(p) : isTerminalRunStatus(runs[r].status)
  PROVE  Summarises(RollupOf(p), Children(p))
<1> DEFINE S == {runs[r].status : r \in Children(p)}
<1>1. S \in SUBSET Statuses /\ S # {} /\ S \cap {"queued", "running"} = {}
  BY StatusesOf DEF isTerminalRunStatus, RUN_TERMINAL_STATUSES
<1>2. PICK child \in Children(p) : TRUE
  BY ParentsAre
<1>3. \A s : S = {s} <=> \A r \in Children(p) : runs[r].status = s
  BY <1>2
<1>4. \A r \in Children(p) : runs[r].status \notin {"queued", "running"}
  BY DEF isTerminalRunStatus, RUN_TERMINAL_STATUSES
<1>5. RollupOf(p) = rollupRunStatus(S)
  BY DEF RollupOf
<1> HIDE DEF S
<1>6. /\ RollupOf(p) \in RUN_TERMINAL_STATUSES \cup {"partial"}
      /\ \A s \in RUN_TERMINAL_STATUSES : RollupOf(p) = s <=> S = {s}
  BY <1>1, <1>5, RollupIs
<1>7. RollupOf(p) \notin {"queued", "running"}
  BY <1>6 DEF RUN_TERMINAL_STATUSES
<1> QED
  BY <1>2, <1>3, <1>4, <1>6, <1>7 DEF Summarises

(* However the roll-ups of its children overlapped and whatever was retried beside
   them, a parent ends up telling what its children add up to, unless the
   cancel route wrote it last.                                               *)
THEOREM ParentsAgree == Spec => []ParentAgrees
<1>1. ASSUME IInv, Quiet, NEW p \in Parents, \A r \in Children(p) : runs[r].leaf /\ ~Stuck(r)
      PROVE  Summarises(runs[p].status, Children(p)) \/ (runs[p].status = "cancelled" /\ lastState[p] = "cancelled")
  <2>1. Shape /\ Tree /\ Pending = {}
    BY <1>1, QuietTells DEF IInv
  <2>2. \A r \in Children(p) : isTerminalRunStatus(runs[r].status)
    BY <1>1, QuietLeaf DEF Children
  <2>3. RolledUp(p)
    BY <1>1, <2>2 DEF IInv, Agrees, Settled, isTerminalRunStatus, RUN_TERMINAL_STATUSES
  <2>4. runs[p].status = RollupOf(p) \/ (runs[p].status = "cancelled" /\ Owed(p))
    BY <2>1, <2>3 DEF RolledUp, Agreed
  <2>5. \A q \in Requests : ~Owes(q, p)
    BY <1>1 DEF Quiet, Owes, IsCancelling
  <2>6. Owed(p) => lastState[p] = "cancelled"
    BY <2>5 DEF Owed
  <2>7. Summarises(RollupOf(p), Children(p))
    BY <1>1, <2>1, <2>2, RollupSummarises
  <2>8. CASE runs[p].status = RollupOf(p)
    BY <2>7, <2>8
  <2> QED
    BY <2>4, <2>6, <2>8
<1>2. IInv => ParentAgrees
  BY <1>1 DEF ParentAgrees
<1> QED
  BY <1>2, Inductive, PTL
-----------------------------------------------------------------------------
(* An outcome stands.  A job publishes its outcome once, when it is over, and
   a run without a job fails once, when its turn is past: so once a row has an
   outcome, or an update is to write one, what is still to be written behind it
   is cancelled.                                                              *)

Outcomes == {"succeeded", "failed"}
Over(r) == life[r] \in RUN_TERMINAL_STATUSES \/ (life[r] = "unknown" /\ ~Awaits(r))
Writes(c, r) == chains[c].run = r /\ chains[c].at = "update"
Withdrawn(r, c) == \A d \in Pending : d > c /\ Writes(d, r) => chains[d].status = "cancelled"
Final(r) ==
  /\ runs[r].status \in Outcomes => Over(r) /\ Withdrawn(r, 0)
  /\ \A c \in Pending : Writes(c, r) /\ chains[c].status \in Outcomes => Over(r) /\ Withdrawn(r, c)
Finals == \A r \in Rows : runs[r].leaf => Final(r)

OverStays == \A r \in Rows : Over(r) => Over(r)'
NoneWaitsAnew == \A r \in Rows : Awaits(r)' => Awaits(r)

LEMMA OverIf ==
  ASSUME NoneWaitsAnew,
         \A r \in Rows : life[r] \in RUN_TERMINAL_STATUSES => life'[r] = life[r],
         \A r \in Rows : life[r] = "unknown" /\ ~Awaits(r) => life'[r] = "unknown"
  PROVE  OverStays
BY DEF OverStays, NoneWaitsAnew, Over

(* One request moves and is to enqueue nothing it was not to enqueue before. *)
LEMMA NoneWaitsIf ==
  ASSUME NEW q \in Requests, Moved(q),
         \A r \in Rows : request'[q].at \in Enqueues /\ Listed(q, r)' => request[q].at \in Enqueues /\ Listed(q, r)
  PROVE  NoneWaitsAnew
<1> SUFFICES ASSUME NEW r \in Rows, NEW o \in Requests, request'[o].at \in Enqueues, Listed(o, r)' PROVE Awaits(r)
  BY DEF NoneWaitsAnew, Awaits
<1>1. CASE o = q
  BY <1>1 DEF Awaits
<1>2. CASE o # q
  BY <1>2 DEF Moved, Awaits, Listed
<1> QED
  BY <1>1, <1>2

(* What is left of a list was on it, behind the first. *)
LEMMA ListedBehind ==
  ASSUME Shape, NEW q \in Requests, Rest(q), request'[q].todo = Tail(request[q].todo), NEW x, Listed(q, x)'
  PROVE  /\ Listed(q, x)
         /\ \E k \in 2 .. Len(request[q].todo) : request[q].todo[k] = x
<1>1. PICK i \in 1 .. Len(request[q].todo) - 1 : Tail(request[q].todo)[i] = x
  BY TodoIs DEF Listed
<1>2. request[q].todo[i + 1] = x /\ Len(request[q].todo) \in Nat \ {0}
  BY <1>1, TodoIs
<1>3. i + 1 \in 2 .. Len(request[q].todo) /\ i + 1 \in 1 .. Len(request[q].todo)
  BY <1>1, <1>2
<1> QED
  BY <1>2, <1>3 DEF Listed

(* The updates that are to write r stay in their order, and what its row says is
   what it said, or what one before them had to write.                       *)
LEMMA FinalMoves ==
  ASSUME Shape, NEW r \in Rows, Final(r), Over(r) => Over(r)', Pending' \subseteq Nat, NEW f,
         \A d \in Pending' : Writes(d, r)' =>
           f[d] \in Pending /\ Writes(f[d], r) /\ chains'[d].status = chains[f[d]].status,
         \A d, e \in Pending' : d < e => f[d] < f[e],
         \/ runs'[r].status = runs[r].status
         \/ \E c \in Pending : /\ Writes(c, r) /\ runs'[r].status = chains[c].status
                               /\ \A d \in Pending' : Writes(d, r)' => f[d] > c
  PROVE  Final(r)'
<1>0. Pending \subseteq Nat \ {0}
  BY ChainsAre
<1>1. ASSUME runs'[r].status \in Outcomes PROVE Over(r)' /\ Withdrawn(r, 0)'
  <2>1. CASE runs'[r].status = runs[r].status
    <3>1. Over(r) /\ Withdrawn(r, 0)
      BY <1>1, <2>1 DEF Final
    <3>2. \A c \in Pending : c > 0
      BY <1>0
    <3> QED
      BY <3>1, <3>2 DEF Withdrawn
  <2>2. ASSUME NEW c \in Pending, Writes(c, r), runs'[r].status = chains[c].status,
               \A d \in Pending' : Writes(d, r)' => f[d] > c
        PROVE  Over(r)' /\ Withdrawn(r, 0)'
    <3>1. Over(r) /\ Withdrawn(r, c)
      BY <1>1, <2>2 DEF Final
    <3> QED
      BY <2>2, <3>1 DEF Withdrawn
  <2> QED
    BY <2>1, <2>2
<1>2. ASSUME NEW c \in Pending', Writes(c, r)', chains'[c].status \in Outcomes PROVE Over(r)' /\ Withdrawn(r, c)'
  <2>1. Over(r) /\ Withdrawn(r, f[c])
    BY <1>2 DEF Final
  <2> QED
    BY <2>1, <1>2 DEF Withdrawn
<1> QED
  BY <1>1, <1>2 DEF Final

(* An update is called: of a cancel, or of a run that was not over. *)
LEMMA FinalCall ==
  ASSUME Shape, Finals, OverStays, UNCHANGED runs, NEW by \in Requests \cup {None}, NEW r \in Rows,
         NEW status \in Statuses, Call(by, r, status),
         status = "cancelled" \/ (~Over(r) /\ (status \in Outcomes => Over(r)'))
  PROVE  Finals'
<1> DEFINE n == Len(chains)
<1>1. /\ n \in Nat /\ Pending = 1 .. n /\ Pending' = 1 .. n + 1
      /\ \A d \in Pending : chains'[d] = chains[d]
      /\ chains'[n + 1].run = r /\ chains'[n + 1].at = "update" /\ chains'[n + 1].status = status
  <2>1. r \in RunIds
    BY RowsAre
  <2>2. Chain(by, r, status).run = r /\ Chain(by, r, status).at = "update" /\ Chain(by, r, status).status = status
    BY DEF Chain
  <2>3. chains'[Len(chains) + 1] = Chain(by, r, status) /\ Pending' = 1 .. Len(chains) + 1
        /\ \A d \in Pending : chains'[d] = chains[d]
    BY <2>1, CallAdds
  <2> QED
    BY <2>2, <2>3, ChainsAre
<1> HIDE DEF n
<1>2. Rows' = Rows /\ \A x \in Rows : runs'[x] = runs[x]
  BY DEF Rows
<1>3. \A d \in Pending' : (d \in Pending /\ chains'[d] = chains[d]) \/ d = n + 1
  BY <1>1
<1> SUFFICES ASSUME NEW x \in Rows, runs[x].leaf PROVE Final(x)'
  BY <1>2 DEF Finals
<1>4. Final(x) /\ (Over(x) => Over(x)')
  BY DEF Finals, OverStays
<1>5. CASE x # r \/ status = "cancelled"
  <2>1. \A d \in Pending' : Writes(d, x)' => (d \in Pending /\ Writes(d, x) /\ chains'[d] = chains[d])
                                             \/ (chains'[d].status = "cancelled" /\ d = n + 1)
    BY <1>1, <1>3, <1>5 DEF Writes
  <2>2. \A d \in Pending : d \in Nat /\ d < n + 1
    BY <1>1
  <2>3. "cancelled" \notin Outcomes
    BY DEF Outcomes
  <2>4. ASSUME runs[x].status \in Outcomes PROVE Over(x)' /\ Withdrawn(x, 0)'
    BY <1>4, <2>1, <2>4 DEF Final, Withdrawn
  <2>5. ASSUME NEW c \in Pending', Writes(c, x)', chains'[c].status \in Outcomes PROVE Over(x)' /\ Withdrawn(x, c)'
    <3>1. c \in Pending /\ Writes(c, x) /\ chains[c].status \in Outcomes
      BY <2>1, <2>3, <2>5
    <3>2. Over(x) /\ Withdrawn(x, c)
      BY <1>4, <3>1 DEF Final
    <3> QED
      BY <1>4, <2>1, <3>2 DEF Withdrawn
  <2> QED
    BY <1>2, <2>4, <2>5 DEF Final
<1>6. CASE x = r /\ ~Over(r) /\ (status \in Outcomes => Over(r)')
  <2>1. runs[r].status \notin Outcomes /\ \A c \in Pending : Writes(c, r) => chains[c].status \notin Outcomes
    BY <1>4, <1>6 DEF Final
  <2>2. ASSUME NEW c \in Pending', Writes(c, r)', chains'[c].status \in Outcomes PROVE Over(r)' /\ Withdrawn(r, c)'
    <3>1. c = n + 1
      BY <1>3, <2>1, <2>2 DEF Writes
    <3>2. \A d \in Pending' : ~(d > c)
      BY <1>1, <3>1
    <3> QED
      BY <1>1, <1>6, <2>2, <3>1, <3>2 DEF Withdrawn
  <2> QED
    BY <1>2, <1>6, <2>1, <2>2 DEF Final
<1> QED
  BY <1>5, <1>6

(* No update is called or moves on, and rows are only added. *)
LEMMA FinalsSame ==
  ASSUME Shape, Line, Finals, OverStays, UNCHANGED chains,
         \A r \in Rows : runs'[r].leaf = runs[r].leaf /\ runs'[r].status = runs[r].status,
         \A r \in Rows' : r \notin Rows => runs'[r].status = "queued"
  PROVE  Finals'
<1>1. /\ Pending' = Pending
      /\ \A d \in Pending : chains'[d] = chains[d] /\ chains[d].run \in Rows
  BY DEF Pending, Line, Placed
<1> SUFFICES ASSUME NEW r \in Rows', runs'[r].leaf PROVE Final(r)'
  BY DEF Finals
<1>2. CASE r \in Rows
  <2>1. Final(r) /\ (Over(r) => Over(r)') /\ runs'[r].status = runs[r].status
    BY <1>2 DEF Finals, OverStays
  <2> QED
    BY <1>1, <2>1 DEF Final, Withdrawn, Writes
<1>3. CASE r \notin Rows
  <2>1. runs'[r].status \notin Outcomes
    BY <1>3 DEF Outcomes
  <2>2. \A d \in Pending' : ~Writes(d, r)'
    BY <1>1, <1>3 DEF Writes
  <2> QED
    BY <2>1, <2>2 DEF Final
<1> QED
  BY <1>2, <1>3

(* A roll-up goes on to its next stage. *)
LEMMA FinalsAdvance ==
  ASSUME Shape, Finals, OverStays, UNCHANGED runs, NEW c \in Pending, chains[c].at \in {"read", "list"},
         NEW seen \in Statuses \cup {"none"}, Advance(c, seen)
  PROVE  Finals'
<1> DEFINE f == [d \in Pending |-> d]
<1>1. /\ Pending' = Pending /\ Pending \subseteq Nat
      /\ \A d \in Pending : chains'[d].run = chains[d].run /\ chains'[d].status = chains[d].status
      /\ \A d \in Pending : chains'[d].at = "update" => chains[d].at = "update"
  <2>1. chains'[c].at \in {"list", "write"}
    BY AdvanceMoves
  <2> QED
    BY <2>1, AdvanceMoves, ChainsAre
<1>2. Rows' = Rows
  BY DEF Rows
<1> SUFFICES ASSUME NEW r \in Rows, runs[r].leaf PROVE Final(r)'
  BY <1>2 DEF Finals
<1>3. Final(r) /\ (Over(r) => Over(r)')
  BY DEF Finals, OverStays
<1>4. \A d \in Pending' : Writes(d, r)' => f[d] \in Pending /\ Writes(f[d], r) /\ chains'[d].status = chains[f[d]].status
  BY <1>1 DEF Writes
<1>5. \A d, e \in Pending' : d < e => f[d] < f[e]
  BY <1>1
<1>6. runs'[r].status = runs[r].status /\ Pending' \subseteq Nat
  BY <1>1
<1> HIDE DEF f
<1> QED
  BY <1>3, <1>4, <1>5, <1>6, FinalMoves

(* An update returns; only a parent's row may have been written. *)
LEMMA FinalsReturn ==
  ASSUME Shape, Finals, OverStays, SameTree, NEW c \in Pending, Return(c),
         \A r \in Rows : runs[r].leaf => runs'[r].status = runs[r].status
  PROVE  Finals'
<1> DEFINE n == Len(chains)
           f == [d \in 1 .. n - 1 |-> Left(c, d)]
<1>1. /\ Pending' = 1 .. n - 1 /\ Pending' \subseteq Nat
      /\ \A d \in Pending' : Left(c, d) \in Pending /\ chains'[d] = chains[Left(c, d)]
      /\ \A d, e \in Pending' : d < e => Left(c, d) < Left(c, e)
  <2>0. n \in Nat
    BY ChainsAre
  <2>1. Pending' = 1 .. n - 1
    BY ReturnRemoves
  <2>2. \A d \in 1 .. n - 1 : Left(c, d) \in Pending /\ chains'[d] = chains[Left(c, d)]
    BY ReturnRemoves
  <2>3. \A d, e \in 1 .. n - 1 : d < e => Left(c, d) < Left(c, e)
    BY ReturnRemoves
  <2> QED
    BY <2>0, <2>1, <2>2, <2>3
<1>2. \A d \in Pending' : f[d] = Left(c, d)
  BY <1>1
<1> HIDE DEF f
<1> SUFFICES ASSUME NEW r \in Rows, runs[r].leaf PROVE Final(r)'
  BY SameTreeIs DEF Finals, SameTree
<1>3. Final(r) /\ (Over(r) => Over(r)')
  BY DEF Finals, OverStays
<1>4. \A d \in Pending' : Writes(d, r)' => f[d] \in Pending /\ Writes(f[d], r) /\ chains'[d].status = chains[f[d]].status
  BY <1>1, <1>2 DEF Writes
<1>5. \A d, e \in Pending' : d < e => f[d] < f[e]
  BY <1>1, <1>2
<1>6. runs'[r].status = runs[r].status /\ Pending' \subseteq Nat
  BY <1>1
<1> QED
  BY <1>3, <1>4, <1>5, <1>6, FinalMoves

(* The oldest of the updates that are not made yet writes its row. *)
LEMMA FinalsUpdate ==
  ASSUME Shape, Line, Finals, OverStays, NEW c \in Pending, MayStep(c), UpdateStep(c)
  PROVE  Finals'
<1> DEFINE f == [d \in Pending |-> d]
           r == chains[c].run
<1>1. /\ r \in Rows /\ chains[c].status \in Statuses /\ chains[c].at = "update"
      /\ Advance(c, "none") /\ SetStatus(r, chains[c].status) /\ Pending \subseteq Nat /\ Pending = 1 .. Len(chains)
      /\ Len(chains) \in Nat
  BY ChainsAre DEF Line, Placed, UpdateStep
<1>2. /\ Pending' = Pending
      /\ \A d \in Pending : d # c => chains'[d] = chains[d]
      /\ chains'[c].at # "update"
  BY <1>1, AdvanceMoves
<1>3. SameTree /\ runs'[r].status = chains[c].status /\ \A x \in Rows : x # r => runs'[x] = runs[x]
  BY <1>1, SetStatusKeeps
<1>4. \A d \in Pending : chains[d].at = "update" => d >= c
  <2> SUFFICES ASSUME NEW d \in 1 .. c - 1, d \in Pending PROVE chains[d].at # "update"
    BY <1>1
  <2>1. Stage(d) > Stage(c)
    BY DEF MayStep
  <2> QED
    BY <1>1, <2>1, StageIs
<1> HIDE DEF r
<1> SUFFICES ASSUME NEW x \in Rows, runs[x].leaf PROVE Final(x)'
  BY <1>3, SameTreeIs DEF Finals, SameTree
<1>5. Final(x) /\ (Over(x) => Over(x)')
  BY DEF Finals, OverStays
<1>6. \A d \in Pending' : Writes(d, x)' => /\ f[d] \in Pending /\ Writes(f[d], x) /\ chains'[d].status = chains[f[d]].status
                                          /\ f[d] > c
  <2> SUFFICES ASSUME NEW d \in Pending, Writes(d, x)'
               PROVE  Writes(d, x) /\ chains'[d].status = chains[d].status /\ d > c
    BY <1>2
  <2>1. d # c
    BY <1>2 DEF Writes
  <2>2. chains'[d] = chains[d] /\ Writes(d, x)
    BY <1>2, <2>1 DEF Writes
  <2> QED
    BY <1>1, <1>4, <2>1, <2>2 DEF Writes
<1>7. \A d, e \in Pending' : d < e => f[d] < f[e]
  BY <1>2
<1>8. \/ runs'[x].status = runs[x].status
      \/ Writes(c, x) /\ runs'[x].status = chains[c].status
  BY <1>1, <1>3 DEF Writes, r
<1>9. Pending' \subseteq Nat
  BY <1>1, <1>2
<1> HIDE DEF f
<1> QED
  BY <1>5, <1>6, <1>7, <1>8, <1>9, FinalMoves

(* Whoever waited for an update is to enqueue what it was to enqueue. *)
LEMMA ReturnWaits ==
  ASSUME Shape, Line, NEW c \in Pending, Return(c), UNCHANGED life PROVE OverStays
<1>1. NoneWaitsAnew
  BY ReturnGoes DEF NoneWaitsAnew, Awaits
<1> QED
  BY <1>1, OverIf

LEMMA ChainStepFinal == ASSUME IInv, Finals, ChainStep PROVE Finals'
<1>1. Shape /\ Tree /\ Line
  BY DEF IInv
<1>2. PICK c \in Pending : /\ MayStep(c)
                           /\ UpdateStep(c) \/ ReadStep(c) \/ ListStep(c) \/ WriteStep(c)
                           /\ UNCHANGED <<life, lastState, asked, faults>>
  BY <1>1, ChainsAre DEF ChainStep
<1> DEFINE p == runs[chains[c].run].parent
<1>3. chains[c].run \in Rows
  BY <1>1 DEF Line, Placed
<1>4. ASSUME request' = request PROVE OverStays
  BY <1>2, <1>4 DEF OverStays, Over, Awaits, Listed
<1>5. CASE UpdateStep(c)
  BY <1>1, <1>2, <1>4, <1>5, FinalsUpdate DEF UpdateStep, Advance
<1>6. CASE ReadStep(c) \/ ListStep(c)
  <2>1. UNCHANGED runs /\ chains[c].at \in {"read", "list"} /\ SameTree
    BY <1>6 DEF ReadStep, ListStep, SameTree
  <2>2. CASE Return(c)
    BY <1>1, <1>2, <2>1, <2>2, ReturnWaits, FinalsReturn
  <2>3. ASSUME NEW seen \in Statuses, Advance(c, seen) PROVE Finals'
    BY <1>1, <1>4, <2>1, <2>3, FinalsAdvance DEF Advance
  <2>4. \/ Return(c)
        \/ p # None /\ (Advance(c, runs[p].status) \/ (chains[c].at = "list" /\ Advance(c, RollupOf(p))))
    <3>1. CASE ReadStep(c)
      BY <3>1 DEF ReadStep
    <3>2. CASE ListStep(c)
      BY <1>1, <3>2 DEF ListStep, Line, Placed
    <3> QED
      BY <1>6, <3>1, <3>2
  <2>5. p # None => p \in Parents /\ p \in Rows
    BY <1>1, <1>3 DEF Tree, Parents, Children
  <2>6. p # None => runs[p].status \in Statuses /\ RollupOf(p) \in Statuses
    <3>1. p # None => runs[p].status \in Statuses
      BY <1>1, <2>5, RowsAre
    <3>2. p # None => RollupOf(p) \in Statuses
      BY <1>1, <2>5, StatusesOf, RollupIs DEF RollupOf
    <3> QED
      BY <3>1, <3>2
  <2> QED
    BY <2>2, <2>3, <2>4, <2>6
<1>7. CASE WriteStep(c)
  <2>1. /\ p \in Rows /\ ~runs[p].leaf /\ chains[c].seen \in Statuses
        /\ Return(c) /\ SetStatus(p, chains[c].seen)
    BY <1>1, <1>3, <1>7 DEF Line, Placed, Tree, WriteStep
  <2> HIDE DEF p
  <2>2. SameTree /\ \A r \in Rows : runs[r].leaf => runs'[r].status = runs[r].status
    BY <1>1, <2>1, SetStatusKeeps
  <2> QED
    BY <1>1, <1>2, <2>1, <2>2, ReturnWaits, FinalsReturn
<1> QED
  BY <1>2, <1>5, <1>6, <1>7

(* A job publishes while it is not over, and its outcome when it is. *)
LEMMA JobStepFinal == ASSUME IInv, Finals, JobStep PROVE Finals'
<1>1. Shape /\ Tree /\ Line
  BY DEF IInv
<1>2. PICK r \in Rows, state \in JobStates \ {"queued"} :
        /\ runs[r].leaf /\ life[r] \in {"queued", "running"}
        /\ life' = [life EXCEPT ![r] = state]
        /\ Publish(None, r, state)
        /\ UNCHANGED <<runs, request, asked, faults>>
  BY <1>1, JobStepDoes
<1>3. life'[r] = state /\ \A x \in RunIds : x # r => life'[x] = life[x]
  BY <1>1, <1>2, RowsAre DEF Shape
<1>4. Rows \subseteq RunIds /\ Rows' = Rows
  BY <1>1, <1>2, RowsAre DEF Rows
<1>5. ~Over(r) /\ (state \in Outcomes => Over(r)')
  BY <1>2, <1>3 DEF Over, Outcomes, RUN_TERMINAL_STATUSES
<1>6. OverStays
  <2>1. NoneWaitsAnew
    BY <1>2 DEF NoneWaitsAnew, Awaits, Listed
  <2>2. \A x \in Rows : life[x] \in RUN_TERMINAL_STATUSES \/ life[x] = "unknown" => life'[x] = life[x]
    BY <1>2, <1>3, <1>4 DEF RUN_TERMINAL_STATUSES
  <2> QED
    BY <2>1, <2>2, OverIf
<1>7. chains' = chains \/ Call(None, r, state)
  BY <1>1, <1>2, PublishDoes
<1>8. CASE chains' = chains
  BY <1>1, <1>2, <1>4, <1>6, <1>8, FinalsSame
<1>9. CASE Call(None, r, state)
  <2>1. state \in Statuses
    BY <1>2 DEF JobStates, Statuses
  <2> QED
    BY <1>1, <1>2, <1>5, <1>6, <1>9, <2>1, FinalCall
<1> QED
  BY <1>7, <1>8, <1>9

(* A request goes on, calls nothing, and is to enqueue no other run than before. *)
LEMMA RequestFinal ==
  ASSUME IInv, Finals, UNCHANGED <<runs, life, chains>>, NEW q \in Requests, Moved(q),
         \A r \in Rows : request'[q].at \in Enqueues /\ Listed(q, r)' => request[q].at \in Enqueues /\ Listed(q, r)
  PROVE  Finals'
<1>1. OverStays
  BY NoneWaitsIf, OverIf
<1>2. Rows' = Rows
  BY DEF Rows
<1> QED
  BY <1>1, <1>2, FinalsSame DEF IInv

(* The rows a request adds are queued, and nobody had waited for them before. *)
LEMMA EnrolsFinal == ASSUME IInv, Finals, NEW q \in Requests, Enrols(q) PROVE Finals'
<1>1. Shape /\ Line /\ Rows \subseteq RunIds
  BY RowsAre DEF IInv
<1>2. \A r \in Rows : ~Listed(q, r)'
  BY <1>1 DEF Enrols
<1>3. NoneWaitsAnew
  BY <1>2, NoneWaitsIf DEF Enrols
<1>4. OverStays
  BY <1>3, OverIf DEF Enrols
<1>5. /\ \A r \in Rows : runs'[r].leaf = runs[r].leaf /\ runs'[r].status = runs[r].status
      /\ \A r \in Rows' : r \notin Rows => runs'[r].status = "queued"
  BY DEF Enrols, Grown
<1> QED
  BY <1>1, <1>4, <1>5, FinalsSame DEF Enrols

(* The job of a run is announced when its turn comes: the run was not over. *)
LEMMA EnqueueFinal == ASSUME IInv, Finals, NEW q \in Requests, Enqueue(q) PROVE Finals'
<1> DEFINE r == Current(q)
<1>1. /\ request[q].at = "enqueue" /\ Rest(q) /\ Shape /\ Line
      /\ life[r] = "unknown" /\ life' = [life EXCEPT ![r] = "queued"]
      /\ Publish(None, r, "queued")
      /\ request' = [request EXCEPT ![q].todo = Tail(@)]
      /\ UNCHANGED <<runs, asked, faults>>
  BY DEF Enqueue, Queue!Announce, Queue!Become, IInv
<1>2. r \in RunIds /\ Listed(q, r) /\ "enqueue" \in Enqueues
  BY <1>1, TodoIs DEF Enqueues
<1>3. chains' = chains
  BY <1>1 DEF Publish
<1>4. Moved(q) /\ request'[q].todo = Tail(request[q].todo)
  <2>1. request' = [request EXCEPT ![q].at = request[q].at, ![q].todo = Tail(@)]
    BY <1>1 DEF Shape, Doing
  <2>2. request[q].at \in RequestAt
    BY <1>1, RequestsAre
  <2> QED
    BY <1>1, <2>1, <2>2, TailMoves
<1>5. OverStays
  <2>1. \A x \in Rows : Listed(q, x)' => request[q].at \in Enqueues /\ Listed(q, x)
    BY <1>1, <1>2, <1>4, ListedBehind
  <2>2. NoneWaitsAnew
    BY <1>4, <2>1, NoneWaitsIf
  <2>3. Awaits(r)
    BY <1>1, <1>2 DEF Awaits
  <2>4. \A x \in Rows : x # r => life'[x] = life[x]
    BY <1>1, RowsAre DEF Shape
  <2> HIDE DEF r
  <2>5. life[r] \notin RUN_TERMINAL_STATUSES
    BY <1>1 DEF RUN_TERMINAL_STATUSES
  <2> QED
    BY <2>2, <2>3, <2>4, <2>5, OverIf
<1>6. Rows' = Rows
  BY <1>1 DEF Rows
<1> QED
  BY <1>1, <1>3, <1>5, <1>6, FinalsSame

(* A run fails when its turn comes, and nobody else is to enqueue it. *)
LEMMA FailRunFinal == ASSUME IInv, Finals, NEW q \in Requests, FailRun(q) PROVE Finals'
<1>1. /\ request[q].at = "enqueue" /\ Rest(q) /\ Call(q, Current(q), "failed") /\ Shape /\ Holds
      /\ request' = [request EXCEPT ![q].at = "failing", ![q].todo = Tail(@)]
      /\ UNCHANGED <<runs, life, lastState, asked>>
  BY DEF FailRun, IInv
<1>2. /\ "failing" \in RequestAt /\ "enqueue" \in Enqueues /\ "failing" \in Enqueues
      /\ "failed" \in Statuses
  BY DEF RequestAt, Enqueues, Statuses, RUN_TERMINAL_STATUSES
<1>3. Moved(q) /\ request'[q].at = "failing" /\ request'[q].todo = Tail(request[q].todo)
  BY <1>1, <1>2, TailMoves
<1>4. PICK r \in Rows :
        /\ r = Current(q) /\ life[r] = "unknown" /\ Listed(q, r) /\ r = request[q].todo[1]
        /\ 1 \in 1 .. Len(request[q].todo)
  BY <1>1, <1>2, TodoIs DEF Holds, HoldsOf
<1>5. \A x : Listed(q, x)' => Listed(q, x) /\ \E k \in 2 .. Len(request[q].todo) : request[q].todo[k] = x
  BY <1>1, <1>3, ListedBehind
<1>6. OverStays
  <2>1. NoneWaitsAnew
    BY <1>1, <1>2, <1>3, <1>5, NoneWaitsIf
  <2> QED
    BY <1>1, <2>1, OverIf
<1>7. ~Over(r)
  <2>1. Awaits(r)
    BY <1>1, <1>2, <1>4 DEF Awaits
  <2> QED
    BY <1>4, <2>1 DEF Over, RUN_TERMINAL_STATUSES
<1>8. Over(r)'
  <2> SUFFICES ASSUME NEW o \in Requests, request'[o].at \in Enqueues, Listed(o, r)' PROVE FALSE
    BY <1>1, <1>4 DEF Over, Awaits
  <2>1. CASE o = q
    <3>1. PICK k \in 2 .. Len(request[q].todo) : request[q].todo[k] = request[q].todo[1]
      BY <1>4, <1>5, <2>1
    <3>2. k \in 1 .. Len(request[q].todo) /\ k # 1
      BY <3>1, <1>1, RequestsAre
    <3> QED
      BY <1>1, <1>2, <1>4, <3>1, <3>2 DEF Holds, Apart
  <2>2. CASE o # q
    <3>1. request[o].at \in Enqueues /\ Listed(o, r)
      BY <1>3, <2>2 DEF Moved, Listed
    <3>2. PICK k \in 1 .. Len(request[o].todo) : request[o].todo[k] = request[q].todo[1]
      BY <1>4, <3>1 DEF Listed
    <3> QED
      BY <1>1, <1>2, <1>4, <2>2, <3>1, <3>2 DEF Holds, Apart
  <2> QED
    BY <2>1, <2>2
<1> QED
  BY <1>1, <1>2, <1>4, <1>6, <1>7, <1>8, FinalCall

(* A request calls an update to cancelled, or finds it is no news. *)
LEMMA CancelFinal ==
  ASSUME IInv, Finals, UNCHANGED <<runs, life>>, NEW q \in Requests, Moved(q), NEW r \in Rows,
         Call(q, r, "cancelled") \/ chains' = chains, request'[q].at \notin Enqueues
  PROVE  Finals'
<1>1. CASE chains' = chains
  BY <1>1, RequestFinal
<1>2. CASE Call(q, r, "cancelled")
  <2>1. OverStays
    BY NoneWaitsIf, OverIf
  <2>2. "cancelled" \in Statuses
    BY DEF Statuses, RUN_TERMINAL_STATUSES
  <2> QED
    BY <1>2, <2>1, <2>2, FinalCall DEF IInv
<1> QED
  BY <1>1, <1>2

LEMMA CancelPersistsFinal == ASSUME IInv, Finals, NEW q \in Requests, CancelPersists(q) PROVE Finals'
<1>1. /\ request[q].at = "persist" /\ Call(q, Current(q), "cancelled") /\ Goto(q, "persisting")
      /\ UNCHANGED <<runs, life>> /\ Shape /\ Holds
  BY DEF CancelPersists, IInv
<1>2. "persisting" \in RequestAt /\ "persisting" \notin Enqueues
  BY DEF RequestAt, Enqueues, Cancels
<1>3. Current(q) \in Rows
  BY <1>1, TodoIs DEF Holds, HoldsOf
<1>4. Moved(q) /\ request'[q].at = "persisting"
  BY <1>1, <1>2, GotoMoves
<1> QED
  BY <1>1, <1>2, <1>3, <1>4, CancelFinal

LEMMA CancelRootFinal == ASSUME IInv, Finals, NEW q \in Requests, CancelRoot(q) PROVE Finals'
<1>1. /\ request[q].at = "cancel" /\ Call(q, request[q].root, "cancelled") /\ Goto(q, "rootWrite")
      /\ UNCHANGED <<runs, life>> /\ Shape /\ Holds
  BY DEF CancelRoot, IInv
<1>2. "rootWrite" \in RequestAt /\ "rootWrite" \notin Enqueues /\ "cancel" \in Cancels
  BY DEF RequestAt, Enqueues, Cancels
<1>3. request[q].root \in Rows
  BY <1>1, <1>2 DEF Holds, HoldsOf
<1>4. Moved(q) /\ request'[q].at = "rootWrite"
  BY <1>1, <1>2, GotoMoves
<1> QED
  BY <1>1, <1>2, <1>3, <1>4, CancelFinal

LEMMA PublishCancelledFinal ==
  ASSUME IInv, Finals, NEW q \in Requests, NEW r \in Rows, NEW waiting \in {"publishing", "rootEvent"},
         PublishCancelled(q, r, waiting)
  PROVE  Finals'
<1> DEFINE at == IF chains' = chains THEN After[waiting] ELSE waiting
<1>1. /\ Publish(q, r, "cancelled") /\ UNCHANGED <<runs, life, asked, faults>> /\ Shape
      /\ request' = [request EXCEPT ![q].at = at, ![q].todo = IF Rest(q) THEN Tail(@) ELSE @]
  BY DEF PublishCancelled, IInv
<1>2. at \in RequestAt /\ at \notin Enqueues
  BY AfterIs DEF RequestAt, Cancels, Enqueues
<1> HIDE DEF at
<1>3. Moved(q) /\ request'[q].at = at
  <2>1. CASE Rest(q)
    <3>1. request' = [request EXCEPT ![q].at = at, ![q].todo = Tail(@)]
      BY <1>1, <2>1
    <3> QED
      BY <1>1, <1>2, <2>1, <3>1, TailMoves
  <2>2. CASE ~Rest(q)
    <3>1. Goto(q, at)
      BY <1>1, <2>2 DEF Goto, Shape, Doing
    <3> QED
      BY <1>1, <1>2, <3>1, GotoMoves
  <2> QED
    BY <2>1, <2>2
<1>4. Call(q, r, "cancelled") \/ chains' = chains
  BY <1>1 DEF Publish
<1> QED
  BY <1>1, <1>2, <1>3, <1>4, CancelFinal

LEMMA RequestStepFinal ==
  ASSUME IInv, Finals, NEW q \in Requests, RequestStep(q), ~(Decides(q) \/ Refuse(q)) PROVE Finals'
<1>1. Shape /\ Holds
  BY DEF IInv
<1>2. CASE EnqueueThrows(q)
  <2>1. Goto(q, "error") /\ request[q].at = "enqueue" /\ UNCHANGED <<runs, life, chains>>
    BY <1>2 DEF EnqueueThrows
  <2>2. "error" \in RequestAt /\ "enqueue" \in Enqueues
    BY DEF RequestAt, Enqueues
  <2>3. Moved(q) /\ request'[q].todo = request[q].todo
    BY <1>1, <2>1, <2>2, GotoMoves
  <2> QED
    BY <2>1, <2>2, <2>3, RequestFinal DEF Listed
<1>3. CASE Answer(q) \/ CancelJob(q)
  <2>1. PICK at \in {"answered", "persist"} : Goto(q, at) /\ UNCHANGED <<runs, life, chains>>
    BY <1>3 DEF Answer, CancelJob
  <2>2. at \in RequestAt /\ at \notin Enqueues
    BY DEF RequestAt, Enqueues, Cancels
  <2>3. Moved(q) /\ request'[q].at = at
    BY <1>1, <2>1, <2>2, GotoMoves
  <2> QED
    BY <2>1, <2>2, <2>3, RequestFinal
<1>4. CASE CancelPublishes(q)
  <2>1. request[q].at = "publish" /\ PublishCancelled(q, Current(q), "publishing")
    BY <1>4 DEF CancelPublishes
  <2>2. Current(q) \in Rows
    BY <1>1, <2>1, TodoIs DEF Holds, HoldsOf
  <2> QED
    BY <2>1, <2>2, PublishCancelledFinal
<1>5. CASE CancelRootPublishes(q)
  <2>1. request[q].at = "rootPublish" /\ PublishCancelled(q, request[q].root, "rootEvent")
    BY <1>5 DEF CancelRootPublishes
  <2>2. request[q].root \in Rows
    BY <1>1, <2>1 DEF Holds, HoldsOf, Cancels
  <2> QED
    BY <2>1, <2>2, PublishCancelledFinal
<1> QED
  BY <1>2, <1>3, <1>4, <1>5, EnqueueFinal, FailRunFinal, CancelPersistsFinal, CancelRootFinal DEF RequestStep

LEMMA CancelParentFinal ==
  ASSUME IInv, Finals, NEW q \in Requests, NEW p \in Parents, CancelParent(q, p) PROVE Finals'
<1>1. /\ UNCHANGED <<runs, life, chains>> /\ request \in [Requests -> Doing]
      /\ \E todo : request' = [request EXCEPT ![q] = [at |-> "cancel", root |-> p, todo |-> todo]]
  BY DEF CancelParent, IInv, Shape
<1>2. /\ request'[q].at \notin Enqueues
      /\ \A o \in Requests : o # q => request'[o] = request[o]
  BY <1>1 DEF Enqueues
<1>3. request' \in [Requests -> Doing]
  BY CancelParentKeeps DEF IInv, Shape
<1> QED
  BY <1>1, <1>2, <1>3, RequestFinal DEF Moved

LEMMA DecidesFinal == ASSUME IInv, Finals, NEW q \in Requests, Decides(q) PROVE Finals'
BY EnrolsFinal, CancelParentFinal, RetryParentEnrols, RetrySingleEnrols DEF Decides

LEMMA AsideFinal ==
  ASSUME IInv, Finals, NEW q \in Requests,
         Refuse(q) \/ (\E p \in Parents : AskCancel(q, p)) \/ (\E r \in Rows : AskRetry(q, r))
  PROVE  Finals'
<1>1. /\ Moved(q) /\ request'[q].at \in {"retry", "stop", "refused"}
      /\ UNCHANGED <<runs, life, chains>>
  BY AsideMoves
<1>2. request'[q].at \notin Enqueues
  BY <1>1 DEF Enqueues
<1> QED
  BY <1>1, <1>2, RequestFinal

LEMMA NextFinal == IInv /\ Finals /\ [Next]_vars => Finals'
<1> SUFFICES ASSUME IInv, Finals, [Next]_vars PROVE Finals'
  OBVIOUS
<1>1. ASSUME NEW q \in Requests, RequestArrives(q) PROVE Finals'
  BY <1>1, EnrolsFinal, CreateEnrols, AsideFinal DEF RequestArrives
<1>3. ASSUME NEW q \in Requests, RequestStep(q) PROVE Finals'
  <2>1. CASE Decides(q) \/ Refuse(q)
    BY <2>1, DecidesFinal, AsideFinal
  <2>2. CASE ~(Decides(q) \/ Refuse(q))
    BY <1>3, <2>2, RequestStepFinal
  <2> QED
    BY <2>1, <2>2
<1>2. ASSUME UNCHANGED vars PROVE Finals'
  <2>1. OverStays /\ Rows' = Rows /\ UNCHANGED <<runs, chains>>
    BY <1>2 DEF vars, OverStays, Over, Awaits, Listed, Rows
  <2> QED
    BY <2>1, FinalsSame DEF IInv
<1> QED
  BY <1>1, <1>2, <1>3, JobStepFinal, ChainStepFinal DEF Next

(* A row with an outcome is written by an update that was told to cancel it, or
   not at all: roll-ups write parents, and new rows come behind the others.  *)
LEMMA RowKeepsOutcome ==
  ASSUME IInv, Finals, [Next]_vars, NEW r \in Rows, runs[r].leaf, runs[r].status \in Outcomes
  PROVE  runs'[r].status \in {runs[r].status, "cancelled"}
<1>1. Shape /\ Tree /\ Line /\ Withdrawn(r, 0)
  BY DEF IInv, Finals, Final
<1>2. ASSUME ChainStep PROVE runs'[r].status \in {runs[r].status, "cancelled"}
  <2>1. PICK c \in Pending : UpdateStep(c) \/ ReadStep(c) \/ ListStep(c) \/ WriteStep(c)
    BY <1>1, <1>2, ChainsAre DEF ChainStep
  <2>2. /\ chains[c].run \in Rows /\ chains[c].status \in Statuses /\ c > 0
    BY <1>1, ChainsAre DEF Line, Placed
  <2>3. CASE UpdateStep(c)
    <3>1. SetStatus(chains[c].run, chains[c].status) /\ chains[c].at = "update"
      BY <2>3 DEF UpdateStep
    <3>2. CASE r = chains[c].run
      <4>1. runs'[r].status = chains[c].status
        BY <1>1, <2>2, <3>1, <3>2, SetStatusKeeps
      <4> QED
        BY <1>1, <2>2, <3>1, <3>2, <4>1 DEF Withdrawn, Writes
    <3>3. CASE r # chains[c].run
      <4>1. runs'[r] = runs[r]
        BY <1>1, <2>2, <3>1, <3>3, SetStatusKeeps
      <4> QED
        BY <4>1
    <3> QED
      BY <3>2, <3>3
  <2>4. CASE WriteStep(c)
    <3> DEFINE p == runs[chains[c].run].parent
    <3>1. p \in Rows /\ ~runs[p].leaf /\ chains[c].seen \in Statuses /\ SetStatus(p, chains[c].seen)
      BY <1>1, <2>2, <2>4 DEF Line, Placed, Tree, WriteStep
    <3> HIDE DEF p
    <3>2. r # p
      BY <3>1
    <3>3. runs'[r] = runs[r]
      BY <1>1, <3>1, <3>2, SetStatusKeeps
    <3> QED
      BY <3>3
  <2>5. CASE ReadStep(c) \/ ListStep(c)
    BY <2>5 DEF ReadStep, ListStep
  <2> QED
    BY <2>1, <2>3, <2>4, <2>5
<1>3. ASSUME NEW q \in Requests, RequestArrives(q) \/ Decides(q) PROVE runs'[r].status \in {runs[r].status, "cancelled"}
  <2>1. CASE Enrols(q)
    BY <2>1 DEF Enrols, Grown
  <2>2. ASSUME NEW p \in Rows, CancelParent(q, p) \/ AskCancel(q, p) \/ AskRetry(q, p) PROVE runs' = runs
    BY <2>2 DEF CancelParent, AskCancel, AskRetry, Await
  <2>3. Parents \subseteq Rows
    BY DEF Parents
  <2>4. CASE RequestArrives(q)
    BY <2>1, <2>2, <2>3, <2>4, CreateEnrols DEF RequestArrives
  <2>5. CASE Decides(q)
    BY <2>1, <2>2, <2>3, <2>5, RetryParentEnrols, RetrySingleEnrols DEF Decides
  <2> QED
    BY <1>3, <2>4, <2>5
<1>4. ASSUME NEW q \in Requests, RequestStep(q), ~Decides(q) PROVE runs' = runs
  BY <1>4 DEF RequestStep, Refuse, Enqueue, FailRun, EnqueueThrows, Answer, CancelJob, CancelPersists, CancelPublishes,
     CancelRoot, CancelRootPublishes, PublishCancelled
<1>5. ASSUME JobStep \/ UNCHANGED vars PROVE runs' = runs
  BY <1>5 DEF JobStep, vars
<1> QED
  BY <1>2, <1>3, <1>4, <1>5 DEF Next

(* Whatever cancels, retries and updates overlapped, and a late line of its worker
   aside (see RunStream), a run that has an outcome keeps it, unless a cancel of
   its parent writes cancelled over it (startJob, failRun, updateRun).        *)
THEOREM OutcomesStand == Spec => OutcomeStands
<1>1. Init => Finals
  BY DEF Init, Finals, Rows
<1>2. IInv /\ Finals /\ [Next]_vars =>
        [\A r \in Rows : runs[r].leaf /\ runs[r].status \in {"succeeded", "failed"}
           => runs'[r].status \in {runs[r].status, "cancelled"}]_vars
  BY RowKeepsOutcome DEF Outcomes
<1>3. Spec => []Finals
  BY <1>1, Inductive, NextFinal, PTL DEF Spec
<1> QED
  BY <1>2, <1>3, Inductive, PTL DEF Spec, OutcomeStands
=============================================================================
