---------------------------- MODULE JobLifecycle ----------------------------
(***************************************************************************)
(* What the job queue promises the people who watch its progress events:   *)
(* every job is announced as queued, then as running, then as exactly one  *)
(* of succeeded, failed and cancelled; a queued job may be withdrawn       *)
(* without ever running; no more than PoolSize jobs run at a time; and     *)
(* every announced job ends, or is lost when the store may reject a write. *)
(* JobQueue is shown to implement it.                                      *)
(***************************************************************************)
EXTENDS Naturals, FiniteSets

CONSTANTS Jobs,      \* the jobs that may be submitted
          PoolSize,  \* how many may run at a time
          MayLose    \* whether the store may reject a write

VARIABLE life        \* life[j]: what was last announced of job j

Terminal == {"succeeded", "failed", "cancelled"}

RunningJobs == {j \in Jobs : life[j] = "running"}

Become(j, state) == life' = [life EXCEPT ![j] = state]

Init == life = [j \in Jobs |-> "unknown"]

Announce(j) == life[j] = "unknown" /\ Become(j, "queued")

Start(j) == /\ life[j] = "queued"
            /\ Cardinality(RunningJobs) < PoolSize
            /\ Become(j, "running")

Withdraw(j) == life[j] = "queued" /\ Become(j, "cancelled")

End(j) == life[j] = "running" /\ \E t \in Terminal : Become(j, t)

Lose(j) == MayLose /\ life[j] \in {"queued", "running"} /\ Become(j, "lost")

Next == \E j \in Jobs : Announce(j) \/ Start(j) \/ Withdraw(j) \/ End(j) \/ Lose(j)

Fairness == /\ WF_life(\E j \in Jobs : Start(j))
            /\ \A j \in Jobs : WF_life(End(j) \/ (life[j] = "running" /\ Lose(j)))

Spec == Init /\ [][Next]_life /\ Fairness
=============================================================================
