---------------------------- MODULE Remediation ----------------------------
(***************************************************************************)
(* One remediation plan of one tenant: the plan job that stores it, the    *)
(* jobs that apply it (for real or as a dry run) and the jobs that verify  *)
(* one of its actions.  The routes (routes/remediation.ts) and the adapter *)
(* that enqueues the jobs (adapters/automation.ts), the workers that act   *)
(* on the tenant (workers/), and the wrappers round the worker that store  *)
(* a job's results, one action at a time, before the queue is told that    *)
(* the job is over.  The process may restart in the middle of any of it.   *)
(***************************************************************************)
EXTENDS Naturals, Sequences, SequencesExt, FiniteSets

CONSTANTS MaxRequests, \* how many requests may be made
          Actions,     \* how many actions the plan has
          Selections,  \* the sets of actions that a caller may ask to have applied
          Gated,       \* the sets of actions that the plan's gates may refuse or leave undetermined
          Keys,        \* the Idempotency-Keys the callers use
          PoolSize,    \* of the job queue
          MaxRestarts  \* how often the process may restart

ASSUME RemediationAssumption ==
  /\ {MaxRequests, Actions, PoolSize} \subseteq Nat \ {0} /\ MaxRestarts \in Nat
  /\ Selections \subseteq (SUBSET (1 .. Actions)) \ {{}} /\ Gated \subseteq SUBSET (1 .. Actions)

VARIABLES
  ask,      \* what each request asks for, and which it met that used the same key
  at,       \* where each request is
  life,     \* the job of each request that got one, as JobLifecycle sees it
  work,     \* the worker of each job and the storing of its results
  stored,   \* whether the plan is in the database
  state,    \* the recorded state of each action, "absent" before the plan is stored
  changed,  \* the actions that some job has carried out in the tenant
  passed,   \* the actions that some verify found in order
  wrote,    \* the jobs that recorded something of an action, in order
  after,    \* the jobs with something to record that were over when each job started
  restarts

vars == <<ask, at, life, work, stored, state, changed, passed, wrote, after, restarts>>

Requests == 1 .. MaxRequests        \* numbered as they arrive; a job has its request's number
Acts     == 1 .. Actions            \* in the plan's order
Queue    == INSTANCE JobLifecycle WITH Jobs <- Requests, MayLose <- TRUE

Nothing == [op |-> "none"]
Worker(place) == [at |-> place, results |-> <<>>, stopped |-> FALSE, told |-> 0]
Off     == Worker("off")
Op(q)   == ask[q].op
Live(q) == Op(q) = "apply" /\ ~ask[q].dry
Earnest(q) == Live(q) \/ Op(q) = "verify"     \* a job that is to leave something on record
Over    == {q \in Requests : Earnest(q) /\ life[q] \in Queue!Terminal}

Init ==
  /\ Queue!Init
  /\ ask = [q \in Requests |-> Nothing] /\ at = [q \in Requests |-> "idle"]
  /\ work = [q \in Requests |-> Off]
  /\ stored = FALSE /\ state = [a \in Acts |-> "absent"]
  /\ changed = {} /\ passed = {}
  /\ wrote = [a \in Acts |-> <<>>] /\ after = [q \in Requests |-> {}]
  /\ restarts = 0

tenant  == <<changed, passed>>
records == <<stored, state, wrote>>

-----------------------------------------------------------------------------
(* The routes *)

Asks(q, key) == Op(q) = "apply" /\ ask[q].key = key

(* Mutant: jobs that are over, or that a restart has lost, are not searched. *)
FoundAlive(key) == \E j \in Requests : Asks(j, key) /\ life[j] \in {"queued", "running"}

(* The jobs table is searched for the key, whatever the job's state.         *)
Found(key) == \E j \in Requests : Asks(j, key) /\ life[j] # "unknown"

Goto(q, place) == at' = [at EXCEPT ![q] = place]
Arrives(q) == /\ at[q] = "idle"
              /\ \A earlier \in 1 .. q - 1 : at[earlier] # "idle"

PostPlan(q) ==
  /\ Arrives(q)
  /\ \A other \in Requests : Op(other) # "plan"
  /\ ask' = [ask EXCEPT ![q] = [op |-> "plan"]]
  /\ Goto(q, "prepare")
  /\ UNCHANGED <<life, work, after, restarts, tenant, records>>

(* A key that is found answers with its job.  Otherwise find() is followed by the
   adapter's awaits before the job has a row.                                *)
Replay(q) ==
  /\ Arrives(q) /\ stored
  /\ \E key \in Keys : Found(key)
  /\ Goto(q, "replayed")
  /\ UNCHANGED <<ask, life, work, after, restarts, tenant, records>>

PostApply(q) ==
  /\ Arrives(q) /\ stored
  /\ \E select \in Selections, key \in Keys, dry, go \in BOOLEAN :
       /\ ~Found(key)
       /\ ask' = [ask EXCEPT ![q] =
            [op |-> "apply", select |-> select, key |-> key, dry |-> dry, go |-> go,
             met |-> {other \in Requests : at[other] = "prepare" /\ Asks(other, key)}]]
  /\ Goto(q, "prepare")
  /\ UNCHANGED <<life, work, after, restarts, tenant, records>>

PostVerify(q) ==
  /\ Arrives(q) /\ stored
  /\ \E a \in Acts : ask' = [ask EXCEPT ![q] = [op |-> "verify", select |-> {a}]]
  /\ Goto(q, "prepare")
  /\ UNCHANGED <<life, work, after, restarts, tenant, records>>

Enqueue(q) ==
  /\ at[q] = "prepare"
  /\ Queue!Announce(q)
  /\ Goto(q, "answered")
  /\ UNCHANGED <<ask, work, after, restarts, tenant, records>>

(* No credential, or a file or the row cannot be written.                    *)
Refuse(q) ==
  /\ at[q] = "prepare"
  /\ Goto(q, "error")
  /\ ask' = [ask EXCEPT ![q] = Nothing]
  /\ UNCHANGED <<life, work, after, restarts, tenant, records>>

-----------------------------------------------------------------------------
(* The workers *)

Start(q) ==
  /\ Queue!Start(q)
  /\ work' = [work EXCEPT ![q] = Worker("acting")]
  /\ after' = [after EXCEPT ![q] = Over]
  /\ UNCHANGED <<ask, at, restarts, tenant, records>>

Result(a, outcome, dry) == [action |-> a, state |-> outcome, dry |-> dry]

AddResult(q, result, stops) ==
  work' = [work EXCEPT ![q].results = Append(@, result),
                       ![q].stopped = @ \/ (stops /\ ~ask[q].go)]

Acting(q, op) == work[q].at = "acting" /\ Op(q) = op

(* The plan's actions are gone through in order, and those not selected are left
   out; a result stands for an action that is done with.                     *)
DoneWith(q)     == {work[q].results[i].action : i \in DOMAIN work[q].results}
Remains(q)      == ask[q].select \ DoneWith(q)
NextIs(q, a)    == a \in Remains(q) /\ \A b \in Remains(q) : a <= b

(* Mutant: a rejection is handed on as what it is. *)
LeaveAsGiven(q, a) == AddResult(q, Result(a, "rejected", ask[q].dry), TRUE)

(* Not approved, no typed command, or refused by a gate; a rejection, unlike a
   skip, stops the batch.                                                    *)
Leave(q, a) == \E rejected \in BOOLEAN : AddResult(q, Result(a, "skipped", ask[q].dry), rejected)

(* The state cannot be read or the credential not resolved.                  *)
Throw(q, a) == AddResult(q, Result(a, "failed", ask[q].dry), TRUE)

Apply(q, a) ==
  /\ Acting(q, "apply") /\ NextIs(q, a)
  /\ \/ /\ work[q].stopped
        /\ AddResult(q, Result(a, "skipped", ask[q].dry), FALSE)
        /\ UNCHANGED changed
     \/ ~work[q].stopped /\ (Leave(q, a) \/ Throw(q, a)) /\ UNCHANGED changed
     \/ /\ ~work[q].stopped /\ ask[q].dry
        /\ AddResult(q, Result(a, "dryrun", TRUE), FALSE)
        /\ UNCHANGED changed
     \/ /\ ~work[q].stopped /\ ~ask[q].dry
        /\ \/ AddResult(q, Result(a, "applied", FALSE), FALSE) /\ changed' = changed \cup {a}
           \* The command throws, or the change is made and cannot be read back.
           \/ AddResult(q, Result(a, "failed", FALSE), TRUE) /\ changed' \in {changed, changed \cup {a}}
  /\ UNCHANGED <<ask, at, life, after, restarts, passed, records>>

(* The check is collected again: it passes, or it fails or is not found.     *)
Verify(q, a) ==
  /\ Acting(q, "verify") /\ work[q].results = <<>> /\ a \in ask[q].select
  /\ \E pass \in BOOLEAN :
       /\ AddResult(q, Result(a, IF pass THEN "applied" ELSE "failed", FALSE), FALSE)
       /\ passed' = IF pass THEN passed \cup {a} ELSE passed
  /\ UNCHANGED <<ask, at, life, after, restarts, changed, records>>

Done(q) == \/ Acting(q, "plan")
           \/ Acting(q, "verify") /\ work[q].results # <<>>
           \/ Acting(q, "apply") /\ Remains(q) = {}

AnyFailed(q) == \E i \in DOMAIN work[q].results : work[q].results[i].state = "failed"

EndAs(q, outcome) == Queue!End(q) /\ life'[q] = outcome

(* A batch with a failed action is a failed job, whose results nobody reads.  *)
Finish(q) ==
  /\ Done(q) /\ life[q] = "running"
  /\ IF Op(q) = "apply" /\ AnyFailed(q)
     THEN EndAs(q, "failed") /\ work' = [work EXCEPT ![q] = Off]
     ELSE work' = [work EXCEPT ![q].at = "recording"] /\ UNCHANGED life
  /\ UNCHANGED <<ask, at, after, restarts, tenant, records>>

(* Timed out or crashed in the middle of the batch.  Nobody tells it to stop: only
   the jobs of runs are cancelled (routes/runs-actions.ts 204-275).          *)
Killed(q) ==
  /\ work[q].at = "acting"
  /\ EndAs(q, "failed")
  /\ work' = [work EXCEPT ![q] = Off]
  /\ UNCHANGED <<ask, at, after, restarts, tenant, records>>

-----------------------------------------------------------------------------
(* The wrappers that store a succeeded job's results *)

Unrecorded(q) == work[q].told < Len(work[q].results)
NextResult(q) == work[q].results[work[q].told + 1]

Write(q, a, new) ==
  /\ state' = [state EXCEPT ![a] = new]
  /\ wrote' = [wrote EXCEPT ![a] = Append(@, q)]

(* Mutant: results are matched with the plan's actions by position. *)
StoreByPosition(q, result) ==
  IF result.dry THEN UNCHANGED <<state, wrote>> ELSE Write(q, work[q].told + 1, result.state)

(* Mutant: dry runs are recorded like any other. *)
StoreDryRunsToo(q, result) == Write(q, result.action, result.state)

(* Mutant: what was skipped is left out. *)
StoreUnlessSkipped(q, result) ==
  IF result.dry \/ result.state = "skipped" THEN UNCHANGED <<state, wrote>>
  ELSE Write(q, result.action, result.state)

(* Results of a dry run change no state. *)
Store(q, result) ==
  IF result.dry THEN UNCHANGED <<state, wrote>> ELSE Write(q, result.action, result.state)

RecordResult(q) ==
  /\ work[q].at = "recording" /\ Unrecorded(q)
  /\ Store(q, NextResult(q))
  /\ work' = [work EXCEPT ![q].told = @ + 1]
  /\ UNCHANGED <<ask, at, life, after, restarts, tenant, stored>>

(* What the worker makes of the actions: an action that a gate refuses, or whose
   remediation cannot be determined, is skipped from the start.              *)
Planned(gated) == [a \in Acts |-> IF a \in gated THEN "skipped" ELSE "planned"]

(* The plan is imported as the worker gives it. *)
StorePlan(q) ==
  /\ work[q].at = "recording" /\ Op(q) = "plan" /\ ~stored
  /\ stored' = TRUE
  /\ \E gated \in Gated : state' = Planned(gated)
  /\ UNCHANGED <<ask, at, life, work, after, restarts, tenant, wrote>>

(* The output is missing or malformed, or the database throws part way.      *)
RecordThrows(q) ==
  /\ work[q].at = "recording"
  /\ EndAs(q, "failed")
  /\ work' = [work EXCEPT ![q] = Off]
  /\ UNCHANGED <<ask, at, after, restarts, tenant, records>>

(* Mutant: the queue is told before the results are stored. *)
SettleEarly(q) ==
  /\ work[q].at = "recording"
  /\ Op(q) = "plan" => stored
  /\ EndAs(q, "succeeded")
  /\ UNCHANGED <<ask, at, work, after, restarts, tenant, records>>

Settle(q) ==
  /\ work[q].at = "recording" /\ ~Unrecorded(q)
  /\ Op(q) = "plan" => stored
  /\ EndAs(q, "succeeded")
  /\ work' = [work EXCEPT ![q] = Off]
  /\ UNCHANGED <<ask, at, after, restarts, tenant, records>>

-----------------------------------------------------------------------------
(* The process restarts: requests and the queue's memory are gone, while a
   worker may go on acting on the tenant with nobody to read its results.    *)
Restart ==
  /\ restarts < MaxRestarts
  /\ restarts' = restarts + 1
  /\ at' = [q \in Requests |-> IF at[q] = "prepare" THEN "gone" ELSE at[q]]
  /\ life' = [q \in Requests |-> IF life[q] \in {"queued", "running"} THEN "lost" ELSE life[q]]
  /\ work' = [q \in Requests |-> IF work[q].at = "recording" THEN Off ELSE work[q]]
  /\ UNCHANGED <<ask, after, tenant, records>>

Next ==
  \/ \E q \in Requests :
       \/ PostPlan(q) \/ Replay(q) \/ PostApply(q) \/ PostVerify(q) \/ Enqueue(q)
       \/ Refuse(q) \/ Start(q) \/ Finish(q) \/ Killed(q)
       \/ RecordResult(q) \/ StorePlan(q) \/ RecordThrows(q) \/ Settle(q)
       \/ \E a \in Acts : Apply(q, a) \/ Verify(q, a)
  \/ Restart

Spec == Init /\ [][Next]_vars

-----------------------------------------------------------------------------
(* Properties *)

States == {"absent", "planned", "applied", "failed", "skipped"}

(* Every variable holds what its declaration says; in particular a worker hands
   over no state that the actions table does not know.                       *)
TypeOK ==
  /\ at \in [Requests -> {"idle", "prepare", "answered", "replayed", "error", "gone"}]
  /\ life \in [Requests -> {"unknown", "queued", "running", "lost"} \cup Queue!Terminal]
  /\ \A q \in Requests : work[q].at \in {"off", "acting", "recording"}
  /\ stored \in BOOLEAN /\ state \in [Acts -> States]
  /\ changed \subseteq Acts /\ passed \subseteq Acts
  /\ after \in [Requests -> SUBSET Requests] /\ restarts \in 0 .. MaxRestarts

HasJob(q) == life[q] # "unknown"

(* Two apply jobs of one key exist only if the second request came before the
   first had its row; a request that comes later starts no second apply, be
   the first over, failed, or lost in a restart (automation.ts 928-934).     *)
OneApplyPerKey ==
  \A p, q \in Requests :
    p < q /\ HasJob(p) /\ HasJob(q) /\ (\E key \in Keys : Asks(p, key) /\ Asks(q, key))
      => p \in ask[q].met

(* An action on record as applied was carried out in the tenant by some job, or
   was found in order by a verify.                                           *)
AppliedMeansDone == \A a \in Acts : state[a] = "applied" => a \in changed \cup passed

(* The tenant is changed only where a live apply selected the action, and every
   job that wrote an action's record is a live apply that selected it or a verify
   that was asked for it; an action without such a job is as plans store them.
   So a dry run leaves no trace, also of what it skipped, failed on or stopped
   before.                                                                   *)
OnlyWhatWasAsked ==
  \A a \in Acts :
    /\ a \in changed => \E q \in Requests : Live(q) /\ HasJob(q) /\ a \in ask[q].select
    /\ \A q \in Range(wrote[a]) : Earnest(q) /\ HasJob(q) /\ a \in ask[q].select
    /\ wrote[a] = <<>> => state[a] \in {"absent", "planned", "skipped"}

(* When a live apply or a verify is reported as succeeded, something of every
   action it was about has been recorded.                                    *)
SucceededIsRecorded ==
  \A q \in Requests : life[q] = "succeeded" /\ Earnest(q) =>
    \A a \in ask[q].select : Contains(wrote[a], q)

(* Of two jobs that recorded the same action, one of which started when the other
   was over, the later one's record stands, however the storing of other jobs
   is interleaved with theirs.                                               *)
LatestWins ==
  \A a \in Acts : \A i, k \in DOMAIN wrote[a] : i < k => wrote[a][k] \notin after[wrote[a][i]]
=============================================================================
