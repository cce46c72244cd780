------------------------------ MODULE RunTree ------------------------------
(***************************************************************************)
(* Runs over several tenants: one parent run with a child run and a job    *)
(* per tenant.  The routes that create (routes/runs-create.ts), cancel and *)
(* retry them (routes/runs-actions.ts, domain/run-retry.ts), the adapter   *)
(* that enqueues their jobs, the hub that records what the jobs publish,   *)
(* and the roll-up of a parent from its children (adapters/runs.ts), which *)
(* reads the parent, the children and then writes, with an await between.  *)
(* Of the events of a run, those of its queue and of the requests: the     *)
(* lines of a worker, one of which can come when the job is over and take  *)
(* the row back to "running", are in RunStream.                            *)
(***************************************************************************)
EXTENDS Naturals, Sequences, FiniteSets

CONSTANTS MaxRequests,\* how many requests may be made
          Targets,    \* how many tenants a new run has
          PoolSize,   \* of the job queue
          MaxRuns,    \* how many rows the runs table may have
          MaxChains,  \* how many updates may be under way at once
          MaxFaults   \* how often an enqueue throws or finds no usable credential

ASSUME RunTreeAssumption ==
  /\ {MaxRequests, Targets, PoolSize, MaxChains, MaxRuns} \subseteq Nat \ {0}
  /\ MaxFaults \in Nat

VARIABLES
  runs,       \* the runs table, in order of creation
  life,       \* the job of each run that has one, as JobLifecycle sees it
  lastState,  \* the hub's runStates
  chains,     \* calls of updateRun() and the roll-ups that follow, oldest first
  request,    \* where each request is
  asked,      \* the runs whose job the queue was told to cancel
  faults      \* how many faults have been met

vars == <<runs, life, lastState, chains, request, asked, faults>>

RunIds   == 1 .. MaxRuns
Requests == 1 .. MaxRequests   \* numbered as they arrive
Queue  == INSTANCE JobLifecycle WITH Jobs <- RunIds, MayLose <- FALSE

None     == 0
Rows     == 1 .. Len(runs)
Children(p) == {r \in Rows : runs[r].parent = p}
Parents  == {r \in Rows : Children(r) # {}}

RUN_TERMINAL_STATUSES == {"succeeded", "failed", "cancelled"}
isTerminalRunStatus(status) == status \in RUN_TERMINAL_STATUSES

(* A row: a leaf has a job id in its provenance, a parent has none.          *)
Run(parent, leaf) == [parent |-> parent, leaf |-> leaf, status |-> "queued"]

Idle == [at |-> "idle", root |-> None, todo |-> <<>>]

Init ==
  /\ Queue!Init
  /\ runs = <<>> /\ chains = <<>>
  /\ lastState = [r \in RunIds |-> "none"]
  /\ request = [q \in Requests |-> Idle]
  /\ asked = {} /\ faults = 0

Goto(q, at) == request' = [request EXCEPT ![q].at = at]

-----------------------------------------------------------------------------
(* Updates and roll-ups *)

rollupRunStatus(statuses) ==
  IF statuses \subseteq RUN_TERMINAL_STATUSES \cup {"partial"}
  THEN IF Cardinality(statuses) = 1 THEN CHOOSE s \in statuses : TRUE ELSE "partial"
  ELSE IF statuses = {"queued"} THEN "queued" ELSE "running"

RollupOf(p) == rollupRunStatus({runs[r].status : r \in Children(p)})

(* A call of updateRun(), made for the hub (None) or for a request.          *)
Chain(by, r, status) ==
  [by |-> by, run |-> r, status |-> status, at |-> "update", seen |-> "none"]

Call(by, r, status) ==
  /\ Len(chains) < MaxChains
  /\ chains' = Append(chains, Chain(by, r, status))

(* All calls await alike, so none overtakes an older one.                    *)
Stages == <<"update", "read", "list", "write">>
Stage(c) == CHOOSE n \in 1 .. 4 : Stages[n] = chains[c].at
MayStep(c) == \A older \in 1 .. c - 1 : Stage(older) > Stage(c)

(* Whoever called goes on to its next step.                                  *)
After == [failing    |-> "enqueue",  persisting |-> "publish", publishing |-> "cancel",
          rootWrite  |-> "rootPublish", rootEvent  |-> "answered"]

Return(c) ==
  /\ chains' = SubSeq(chains, 1, c - 1) \o SubSeq(chains, c + 1, Len(chains))
  /\ IF chains[c].by = None THEN UNCHANGED request
     ELSE LET q == chains[c].by IN Goto(q, After[request[q].at])

(* Mutant: the roll-up is computed and not carried to the write. *)
AdvanceForgets(c, seen) ==
  /\ chains' = [chains EXCEPT ![c].at = Stages[Stage(c) + 1]]
  /\ UNCHANGED request

Advance(c, seen) ==
  /\ chains' = [chains EXCEPT ![c].at = Stages[Stage(c) + 1], ![c].seen = seen]
  /\ UNCHANGED request

SetStatus(r, status) == runs' = [runs EXCEPT ![r].status = status]

(* Mutant: a parent that is over is not rolled up any more. *)
UnchangedOnceOver(p, seen) == RollupOf(p) = seen \/ seen \notin {"queued", "running"}

(* Nothing is written if the parent, as it was read, has the status and the
   finishedAt already.  finishedAt is null unless the status is terminal; then
   it is the last child's, and taken for news: two updates of one millisecond
   are told apart here, which the code cannot, and what is on record already
   is written again.                                                         *)
Unchanged(p, seen) == RollupOf(p) = seen /\ seen \in {"queued", "running"}

UpdateStep(c) ==
  LET r == chains[c].run IN
  /\ chains[c].at = "update"
  /\ SetStatus(r, chains[c].status)
  /\ Advance(c, "none")

ReadStep(c) ==
  LET p == runs[chains[c].run].parent IN
  /\ chains[c].at = "read"
  /\ IF p = None THEN Return(c) ELSE Advance(c, runs[p].status)
  /\ UNCHANGED runs

ListStep(c) ==
  LET p == runs[chains[c].run].parent IN
  /\ chains[c].at = "list"
  /\ IF Unchanged(p, chains[c].seen) THEN Return(c) ELSE Advance(c, RollupOf(p))
  /\ UNCHANGED runs

WriteStep(c) ==
  LET p == runs[chains[c].run].parent IN
  /\ chains[c].at = "write"
  /\ SetStatus(p, chains[c].seen)
  /\ Return(c)

ChainStep ==
  \E c \in DOMAIN chains :
    /\ MayStep(c)
    /\ UpdateStep(c) \/ ReadStep(c) \/ ListStep(c) \/ WriteStep(c)
    /\ UNCHANGED <<life, lastState, asked, faults>>

-----------------------------------------------------------------------------
(* Events *)

(* Mutant: the run's row decides what is news, as it is when the event comes. *)
PublishUnlessInRow(by, r, state) ==
  /\ lastState' = [lastState EXCEPT ![r] = state]
  /\ IF state # "queued" /\ runs[r].status # state
     THEN Call(by, r, state)
     ELSE UNCHANGED chains

(* publish(), as far as the run's row is concerned: of a queued event only
   updatedAt is written, and a status only if it is news to the hub.         *)
Publish(by, r, state) ==
  /\ lastState' = [lastState EXCEPT ![r] = state]
  /\ IF state # "queued" /\ lastState[r] # state
     THEN Call(by, r, state)
     ELSE UNCHANGED chains

(* The worker's outcome; an abort by the queue is cancelled.                 *)
JobEnds(r) == Queue!End(r) /\ (life'[r] = "cancelled" => r \in asked)

JobStep ==
  \E r \in RunIds :
    /\ Queue!Start(r) \/ (r \in asked /\ Queue!Withdraw(r)) \/ JobEnds(r)
    /\ Publish(None, r, life'[r])
    /\ UNCHANGED <<runs, request, asked, faults>>

-----------------------------------------------------------------------------
(* Creating a run *)

(* createRunWithChildren(): one transaction, or nothing.                     *)
Insert(q, parent, count) ==
  LET root == Len(runs) + 1 IN
  /\ root + count <= MaxRuns
  /\ runs' = runs \o <<Run(parent, FALSE)>> \o [i \in 1 .. count |-> Run(root, TRUE)]
  /\ request' = [request EXCEPT ![q] =
       [at |-> "enqueue", root |-> root, todo |-> [i \in 1 .. count |-> root + i]]]

Create(q) ==
  /\ request[q].at = "idle"
  /\ Insert(q, None, Targets)
  /\ UNCHANGED <<life, lastState, chains, asked, faults>>

Rest(q) == request[q].todo # <<>>
Current(q) == Head(request[q].todo)
Fault == faults < MaxFaults /\ faults' = faults + 1

(* enqueue() of the next target: the queue announces the job.                *)
Enqueue(q) ==
  /\ request[q].at = "enqueue" /\ Rest(q)
  /\ Queue!Announce(Current(q))
  /\ Publish(None, Current(q), "queued")
  /\ request' = [request EXCEPT ![q].todo = Tail(@)]
  /\ UNCHANGED <<runs, asked, faults>>

(* Mutant: the run fails and its parent is not rolled up. *)
FailRunAlone(q) ==
  /\ request[q].at = "enqueue" /\ Rest(q)
  /\ Fault
  /\ SetStatus(Current(q), "failed")
  /\ request' = [request EXCEPT ![q].todo = Tail(@)]
  /\ UNCHANGED <<life, lastState, chains, asked>>

(* Mutant: enqueue() does not return after failRun(). *)
FailRunGoesOn(q) ==
  /\ request[q].at = "enqueue" /\ Rest(q)
  /\ Fault
  /\ Call(q, Current(q), "failed")
  /\ Goto(q, "failing")
  /\ UNCHANGED <<runs, life, lastState, asked>>

(* failRun(): no usable credential, so the run fails and no job exists.      *)
FailRun(q) ==
  /\ request[q].at = "enqueue" /\ Rest(q)
  /\ Fault
  /\ Call(q, Current(q), "failed")
  /\ request' = [request EXCEPT ![q].at = "failing", ![q].todo = Tail(@)]
  /\ UNCHANGED <<runs, life, lastState, asked>>

(* Mutant: a target whose enqueue throws is passed over. *)
EnqueuePassesOver(q) ==
  /\ request[q].at = "enqueue" /\ Rest(q)
  /\ Fault
  /\ request' = [request EXCEPT ![q].todo = Tail(@)]
  /\ UNCHANGED <<runs, life, lastState, chains, asked>>

(* The context file or the job's row cannot be written: the request answers
   with an error and the remaining targets are not enqueued.                 *)
EnqueueThrows(q) ==
  /\ request[q].at = "enqueue" /\ Rest(q)
  /\ Fault
  /\ Goto(q, "error")
  /\ UNCHANGED <<runs, life, lastState, chains, asked>>

Answer(q) ==
  /\ request[q].at = "enqueue" /\ ~Rest(q)
  /\ Goto(q, "answered")
  /\ UNCHANGED <<runs, life, lastState, chains, asked, faults>>

-----------------------------------------------------------------------------
(* Cancel and retry first read the run, whose status decides whether they go on;
   the children are listed after an await, as they are by then.              *)
Await(q, at, r) ==
  /\ request[q].at = "idle"
  /\ request' = [request EXCEPT ![q].at = at, ![q].root = r]
  /\ UNCHANGED <<runs, life, lastState, chains, asked, faults>>

AskCancel(q, p) == ~isTerminalRunStatus(runs[p].status) /\ Await(q, "stop", p)
AskRetry(q, r) == runs[r].status \notin {"queued", "running"} /\ Await(q, "retry", r)

-----------------------------------------------------------------------------
(* Retrying a run *)

(* Which children are retried is up to the request, which may name tenants, and
   to the sections on record: a child without any is retried by its status, one
   that has some if they did not all succeed, even if the child did.  Sections
   and body are read after more awaits, in which a run only gains children.  *)
selectFailedTargets(p) == (SUBSET Children(p)) \ {{}}

(* A run with children is retried under a new parent, itself a child of the run. *)
RetryParent(q, p) ==
  /\ request[q].at = "retry"
  /\ \E failed \in selectFailedTargets(p) : Insert(q, p, Cardinality(failed))
  /\ UNCHANGED <<life, lastState, chains, asked, faults>>

(* A run without children is retried beside it, under the same parent, if it has
   sections that did not succeed, or none on record and did not succeed itself. *)
RetrySingle(q, r) ==
  /\ request[q].at = "retry"
  /\ Len(runs) < MaxRuns
  /\ runs' = Append(runs, Run(IF runs[r].parent = None THEN r ELSE runs[r].parent, TRUE))
  /\ request' = [request EXCEPT ![q] =
       [at |-> "enqueue", root |-> None, todo |-> <<Len(runs) + 1>>]]
  /\ UNCHANGED <<life, lastState, chains, asked, faults>>

-----------------------------------------------------------------------------
(* Cancelling a run that has children *)

Active(p) == {r \in Children(p) : ~isTerminalRunStatus(runs[r].status)}

(* The children are listed in the order of their creation. *)
Ascending(list) == \A i, k \in DOMAIN list : i < k => list[i] < list[k]

CancelParent(q, p) ==
  /\ request[q].at = "stop"
  /\ Active(p) # {}
  /\ \E todo \in [1 .. Cardinality(Active(p)) -> Active(p)] :
       /\ Ascending(todo)
       /\ request' = [request EXCEPT ![q] = [at |-> "cancel", root |-> p, todo |-> todo]]
  /\ UNCHANGED <<runs, life, lastState, chains, asked, faults>>

(* queue.cancel(), whose answer is ignored: a job in line is withdrawn and a
   running one is told to stop; a job not enqueued yet is not known.  A child
   without a job, the parent of a retry, is marked all the same.             *)
CancelJob(q) ==
  /\ request[q].at = "cancel" /\ Rest(q)
  /\ asked' = IF runs[Current(q)].leaf /\ life[Current(q)] # "unknown"
              THEN asked \cup {Current(q)} ELSE asked
  /\ Goto(q, "persist")
  /\ UNCHANGED <<runs, life, lastState, chains, faults>>

(* updateRunById() has read the run and calls the update.                    *)
CancelPersists(q) ==
  /\ request[q].at = "persist"
  /\ Call(q, Current(q), "cancelled")
  /\ Goto(q, "persisting")
  /\ UNCHANGED <<runs, life, lastState, asked, faults>>

(* An event that is no news is published without an update.                  *)
PublishCancelled(q, r, waiting) ==
  /\ Publish(q, r, "cancelled")
  /\ request' = [request EXCEPT ![q].at = IF chains' = chains THEN After[waiting] ELSE waiting,
                                ![q].todo = IF Rest(q) THEN Tail(@) ELSE @]
  /\ UNCHANGED <<runs, life, asked, faults>>

CancelPublishes(q) ==
  request[q].at = "publish" /\ PublishCancelled(q, Current(q), "publishing")

CancelRoot(q) ==
  /\ request[q].at = "cancel" /\ ~Rest(q)
  /\ Call(q, request[q].root, "cancelled")
  /\ Goto(q, "rootWrite")
  /\ UNCHANGED <<runs, life, lastState, asked, faults>>

CancelRootPublishes(q) ==
  request[q].at = "rootPublish" /\ PublishCancelled(q, request[q].root, "rootEvent")

(* Nothing is left to cancel, or there is nothing to retry. *)
Refuse(q) ==
  /\ request[q].at = "retry" \/ (request[q].at = "stop" /\ Active(request[q].root) = {})
  /\ Goto(q, "refused")
  /\ UNCHANGED <<runs, life, lastState, chains, asked, faults>>

-----------------------------------------------------------------------------
RequestArrives(q) ==
  /\ \A earlier \in 1 .. q - 1 : request[earlier].at # "idle"
  /\ \/ Create(q)
     \/ \E p \in Parents : AskCancel(q, p)
     \/ \E r \in Rows : AskRetry(q, r)

Decides(q) ==
  \E r \in Rows :
    /\ request[q].root = r
    /\ \/ r \in Parents /\ (CancelParent(q, r) \/ RetryParent(q, r))
       \/ r \notin Parents /\ RetrySingle(q, r)

RequestStep(q) ==
  \/ Decides(q) \/ Refuse(q)
  \/ Enqueue(q) \/ FailRun(q) \/ EnqueueThrows(q) \/ Answer(q)
  \/ CancelJob(q) \/ CancelPersists(q) \/ CancelPublishes(q)
  \/ CancelRoot(q) \/ CancelRootPublishes(q)

Next == \/ JobStep \/ ChainStep
        \/ \E q \in Requests : RequestArrives(q) \/ RequestStep(q)

Fairness == /\ WF_vars(JobStep) /\ WF_vars(ChainStep)
            /\ \A q \in Requests : WF_vars(RequestStep(q))

Spec == Init /\ [][Next]_vars
FairSpec == Spec /\ Fairness

-----------------------------------------------------------------------------
(* Properties *)

Stuck(r) == \E q \in Requests :
              request[q].at = "error" /\ \E i \in DOMAIN request[q].todo : request[q].todo[i] = r

(* Nothing is under way: no update, no request, no job in line or at work.   *)
Quiet == /\ chains = <<>>
         /\ \A q \in Requests : request[q].at \in {"idle", "answered", "refused", "error"}
         /\ \A r \in RunIds : life[r] \notin {"queued", "running"}

Statuses == {"queued", "running", "partial"} \cup RUN_TERMINAL_STATUSES

(* Every variable holds what its declaration says. *)
TypeOK ==
  /\ runs \in Seq([parent : RunIds \cup {None}, leaf : BOOLEAN, status : Statuses])
  /\ life \in [RunIds -> {"unknown", "queued", "running"} \cup RUN_TERMINAL_STATUSES]
  /\ lastState \in [RunIds -> {"none", "queued", "running"} \cup RUN_TERMINAL_STATUSES]
  /\ Len(chains) <= MaxChains /\ Len(runs) <= MaxRuns
  /\ \A c \in DOMAIN chains :
       chains[c].run \in Rows /\ chains[c].status \in Statuses /\ chains[c].at \in {Stages[n] : n \in 1 .. 4}
  /\ \A q \in Requests :
       /\ request[q].at \in {"idle", "retry", "stop", "refused", "answered", "error",
                             "enqueue", "cancel", "persist"} \cup DOMAIN After
                            \cup {After[a] : a \in DOMAIN After}
       /\ \A i \in DOMAIN request[q].todo : request[q].todo[i] \in Rows
  /\ asked \subseteq Rows /\ faults \in 0 .. MaxFaults

(* A parent is queued until a child starts, running until every child is over,
   then what all of them are, and partial if they differ (run-rollup.ts 2-4). *)
Summarises(status, children) ==
  LET all(s) == \A r \in children : runs[r].status = s
      over   == \A r \in children : runs[r].status \notin {"queued", "running"}
  IN  /\ status = "queued" <=> all("queued")
      /\ status = "running" <=> ~all("queued") /\ ~over
      /\ \A s \in RUN_TERMINAL_STATUSES : status = s <=> all(s)

(* Once nothing is under way a parent tells what its children add up to, however
   the roll-ups of its children overlapped and whatever was retried beside
   them, unless the cancel route wrote it last.  Left out are parents with a
   child that was never enqueued, or with a retry's parent among the children:
   neither is rolled up when it is inserted.                                 *)
ParentAgrees ==
  Quiet => \A p \in Parents :
    (\A r \in Children(p) : runs[r].leaf /\ ~Stuck(r)) =>
      \/ Summarises(runs[p].status, Children(p))
      \/ runs[p].status = "cancelled" /\ lastState[p] = "cancelled"

(* A run is left queued without a job only if its request answered with an error
   before it came to it: enqueue loops of runs-create.ts and run-retry.ts.   *)
NoRunForgotten ==
  Quiet => \A r \in Rows : runs[r].leaf /\ ~isTerminalRunStatus(runs[r].status) => Stuck(r)

(* Whatever a cancel of the parent and the queue made of a job between them, its
   run's row ends up telling the job's outcome, or cancelled if that is what
   was published last: a child marked cancelled whose worker went on, because
   the queue's answer is ignored, tells the worker's outcome in the end.     *)
RowTellsOutcome ==
  Quiet => \A r \in Rows : runs[r].leaf /\ life[r] # "unknown" =>
      runs[r].status = life[r] \/ (runs[r].status = "cancelled" /\ lastState[r] = "cancelled")

(* A run that has an outcome keeps it, whatever cancels, retries and updates under
   way overlap (a late line of its worker aside, see RunStream), unless a cancel of its parent writes cancelled over it: no late
   update of the job makes it run again, and enqueue() of adapters/runs.ts, which
   returns once failRun() has failed a run, gives it no job afterwards.       *)
OutcomeStands ==
  [][\A r \in Rows : runs[r].leaf /\ runs[r].status \in {"succeeded", "failed"}
       => runs'[r].status \in {runs[r].status, "cancelled"}]_vars

(* A parent whose request was answered ends, unless a child of it is stuck or
   it has been retried as a whole: then the retry's parent counts as a child
   of it, and nothing rolls that one up any further.                         *)
Retried(p) == \E r \in Children(p) : ~runs[r].leaf
AnsweredRunsEnd ==
  \A q \in Requests :
    request[q].at = "answered" /\ request[q].root # None ~>
      LET p == request[q].root IN
      \/ p \in Rows /\ runs[p].status \notin {"queued", "running"}
      \/ Retried(p) \/ \E r \in Rows : Stuck(r)
=============================================================================
