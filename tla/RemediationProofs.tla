------------------------- MODULE RemediationProofs -------------------------
(***************************************************************************)
(* Theorems about Remediation for every number of requests and actions,    *)
(* every set of keys and selections, any pool size and any number of       *)
(* restarts.  The inductive invariant IInv ties a request to its job, the  *)
(* job to its worker and the worker's results to what was asked and done.  *)
(***************************************************************************)
EXTENDS Remediation, SequenceTheorems, TLAPS

-----------------------------------------------------------------------------
(* The inductive invariant. *)

Places  == {"idle", "prepare", "answered", "replayed", "error", "gone"}
Results == [action : Acts, state : States \cup {"dryrun"}, dry : BOOLEAN]
Workers == [at : {"off", "acting", "recording"}, results : Seq(Results), stopped : BOOLEAN, told : Nat]

WellFormed(new) ==
  /\ new.op = "apply" => new.select \subseteq Acts /\ new.dry \in BOOLEAN
  /\ new.op = "verify" => \E a \in Acts : new.select = {a}

Types ==
  /\ TypeOK
  /\ DOMAIN ask = Requests /\ \A q \in Requests : WellFormed(ask[q])
  /\ work \in [Requests -> Workers]
  /\ wrote \in [Acts -> Seq(Requests)]

(* A request arrives after the earlier ones and asks for something only then; a
   job is known from the answer on, and only a running job, or one that a
   restart has lost, has a worker.                                           *)
Phase(q) ==
  /\ at[q] = "idle" => Op(q) = "none" /\ \A p \in Requests : q < p => at[p] = "idle"
  /\ at[q] = "answered" <=> HasJob(q)
  /\ work[q].at = "acting" => life[q] \in {"running", "lost"}
  /\ work[q].at = "recording" => life[q] = "running"
  /\ work[q].at = "off" => work[q].results = <<>>
  /\ work[q].at # "recording" => work[q].told = 0

(* A worker's results are about what was asked and say what was done. *)
Honest(q, r) ==
  /\ Op(q) \in {"apply", "verify"} /\ r.action \in ask[q].select
  /\ r.dry <=> ~Earnest(q)
  /\ r.state = "dryrun" => r.dry
  /\ r.state = "applied" /\ ~r.dry => r.action \in changed \cup passed
Held(q) == \A i \in DOMAIN work[q].results : Honest(q, work[q].results[i])

(* The results told so far are on record, and there is one for every action. *)
Told(q) ==
  /\ work[q].told <= Len(work[q].results)
  /\ \A i \in 1 .. work[q].told :
       ~work[q].results[i].dry => Contains(wrote[work[q].results[i].action], q)
Complete(q) == work[q].at = "recording" /\ Earnest(q) => ask[q].select \subseteq DoneWith(q)

(* Of two applies of one key the later met the earlier before it had a job.  *)
Met ==
  \A p, q \in Requests :
    /\ p < q /\ at[p] \in {"prepare", "answered"}
    /\ Op(p) = "apply" /\ Op(q) = "apply" /\ ask[p].key = ask[q].key
    => p \in ask[q].met

(* Records are written by jobs that have started, and what was over when a job
   started stays so.                                                         *)
Written ==
  /\ \A a \in Acts : \A i \in DOMAIN wrote[a] : life[wrote[a][i]] \notin {"unknown", "queued"}
  /\ \A q \in Requests : after[q] \subseteq Over

Requesting == Met /\ \A q \in Requests : Phase(q)
Working    == \A q \in Requests : Held(q) /\ Told(q) /\ Complete(q)
Recorded   == Written /\ AppliedMeansDone /\ OnlyWhatWasAsked /\ SucceededIsRecorded /\ LatestWins

IInv == Types /\ Requesting /\ Working /\ Recorded

-----------------------------------------------------------------------------
(* Lemmas about sequences. *)

(* What Append does to a sequence's places and elements. *)
LEMMA Appended ==
  ASSUME NEW S, NEW s \in Seq(S), NEW e \in S
  PROVE  /\ Append(s, e) \in Seq(S)
         /\ Len(Append(s, e)) = Len(s) + 1
         /\ DOMAIN s = 1 .. Len(s) /\ DOMAIN Append(s, e) = 1 .. Len(s) + 1
         /\ \A i \in 1 .. Len(s) : Append(s, e)[i] = s[i]
         /\ Append(s, e)[Len(s) + 1] = e
  OBVIOUS

(* An appended sequence contains what it contained, and the new element. *)
LEMMA AppendedContains ==
  ASSUME NEW S, NEW s \in Seq(S), NEW e \in S
  PROVE  Contains(Append(s, e), e) /\ \A x : Contains(s, x) => Contains(Append(s, e), x)
<1>1. Len(s) \in Nat
  BY LenProperties
<1> QED
  BY <1>1, Appended DEF Contains

(* The writers of a sequence after one more wrote. *)
LEMMA AppendedRange ==
  ASSUME NEW S, NEW s \in Seq(S), NEW e \in S
  PROVE  Range(s) \subseteq S /\ Range(Append(s, e)) = Range(s) \cup {e}
<1>1. Len(s) \in Nat /\ DOMAIN s = 1 .. Len(s)
  BY LenProperties
<1>2. \A i \in DOMAIN s : s[i] \in S
  BY <1>1, ElementOfSeq
<1> QED
  BY <1>1, <1>2, Appended DEF Range

(* Records are written by requests that have a job. *)
LEMMA WritersAreRequests ==
  ASSUME IInv, NEW a \in Acts
  PROVE  \A q \in Range(wrote[a]) : q \in Requests /\ HasJob(q)
<1>1. wrote[a] \in Seq(Requests)
  BY DEF IInv, Types
<1>2. Range(wrote[a]) \subseteq Requests
  <2>1. \A i \in DOMAIN wrote[a] : wrote[a][i] \in Requests
    BY <1>1, ElementOfSeq, LenProperties
  <2> QED
    BY <2>1 DEF Range
<1> QED
  BY <1>2 DEF IInv, Recorded, OnlyWhatWasAsked

-----------------------------------------------------------------------------
(* Each action keeps IInv. *)

Others(q) == Requests \ {q}

(* The routes: a request that has no job changes what it asks for. *)
LEMMA AskKeeps ==
  ASSUME IInv, NEW q \in Requests, at[q] \in {"idle", "prepare"},
         \A p \in Requests : p < q => at[p] # "idle",
         NEW place \in Places \ {"idle", "answered"}, at' = [at EXCEPT ![q] = place],
         DOMAIN ask' = Requests, \A p \in Others(q) : ask'[p] = ask[p], WellFormed(ask'[q]),
         place = "prepare" /\ ask'[q].op = "apply" =>
           \A p \in Requests :
             p < q /\ at[p] \in {"prepare", "answered"} /\ Op(p) = "apply" /\ ask[p].key = ask'[q].key
               => p \in ask'[q].met,
         place # "prepare" => ask'[q].op # "apply",
         at[q] = "prepare" => place # "prepare",
         UNCHANGED <<life, work, after, restarts, tenant, records>>
  PROVE  IInv'
<1> USE DEF Others, tenant, records
<1>1. life[q] = "unknown" /\ work[q].at = "off" /\ work[q].results = <<>> /\ work[q].told = 0
  BY DEF IInv, Requesting, Phase, HasJob, Types, TypeOK
<1>2. Types'
  BY DEF IInv, Types, TypeOK, Places
<1>3. Met'
  BY DEF IInv, Requesting, Types, TypeOK, Met, Phase, Op, Requests
<1>4. \A p \in Requests : Phase(p)'
  BY <1>1 DEF IInv, Requesting, Types, TypeOK, Phase, Op, HasJob, Requests
<1>5. \A p \in Others(q) : Held(p)' /\ Told(p)' /\ Complete(p)'
  BY DEF IInv, Working, Held, Honest, Told, Complete, Earnest, Live, Op, DoneWith
<1>6. Held(q)' /\ Told(q)' /\ Complete(q)'
  BY <1>1 DEF Held, Told, Complete
<1>7. Recorded'
  <2>0. Over' = Over
    BY <1>1 DEF Over, Earnest, Live, Op, Queue!Terminal
  <2>1. Written' /\ AppliedMeansDone' /\ LatestWins'
    BY <2>0 DEF IInv, Recorded, Written, AppliedMeansDone, LatestWins
  <2>2. OnlyWhatWasAsked' /\ SucceededIsRecorded'
    BY <1>1, WritersAreRequests
       DEF IInv, Recorded, OnlyWhatWasAsked, SucceededIsRecorded, Earnest, Live, Op, HasJob
  <2> QED
    BY <2>1, <2>2 DEF Recorded
<1> QED
  BY <1>2, <1>3, <1>4, <1>5, <1>6, <1>7 DEF IInv, Requesting, Working

(* A request that arrives asks for something, or is answered with a job. *)
LEMMA ArrivalKeeps ==
  ASSUME IInv, NEW q \in Requests, PostPlan(q) \/ Replay(q) \/ PostApply(q) \/ PostVerify(q)
  PROVE  IInv'
<1> USE DEF Arrives, Goto
<1>1. \A p \in Requests : p < q => at[p] # "idle"
  BY DEF PostPlan, Replay, PostApply, PostVerify, Requests
<1>2. at[q] = "idle" /\ Op(q) = "none" /\ DOMAIN ask = Requests
  BY DEF PostPlan, Replay, PostApply, PostVerify, IInv, Requesting, Phase, Types
<1>3. CASE PostPlan(q)
  <2>1. ask'[q].op = "plan" /\ WellFormed(ask'[q])
    BY <1>2, <1>3 DEF PostPlan, WellFormed
  <2> QED
    BY <1>1, <1>2, <1>3, <2>1, AskKeeps DEF PostPlan, Places, Others
<1>4. CASE Replay(q)
  <2>1. ask' = ask /\ WellFormed(ask'[q])
    BY <1>4 DEF Replay, IInv, Types
  <2> QED
    BY <1>1, <1>2, <1>4, <2>1, AskKeeps DEF Replay, Places, Op, Others
<1>5. CASE PostApply(q)
  <2>1. PICK select \in Selections, key \in Keys, dry \in BOOLEAN, go \in BOOLEAN :
          /\ ~Found(key)
          /\ ask' = [ask EXCEPT ![q] =
               [op |-> "apply", select |-> select, key |-> key, dry |-> dry, go |-> go,
                met |-> {other \in Requests : at[other] = "prepare" /\ Asks(other, key)}]]
    BY <1>5 DEF PostApply
  <2>2. WellFormed(ask'[q])
    BY <1>2, <2>1, RemediationAssumption DEF WellFormed, Acts
  <2>3. ASSUME NEW p \in Requests, p < q, at[p] \in {"prepare", "answered"},
               Op(p) = "apply", ask[p].key = ask'[q].key
        PROVE  p \in ask'[q].met
    <3>1. Asks(p, key)
      BY <1>2, <2>1, <2>3 DEF Asks
    <3>2. at[p] = "prepare"
      BY <2>1, <2>3, <3>1 DEF Found, IInv, Requesting, Phase, HasJob
    <3> QED
      BY <1>2, <2>1, <3>1, <3>2
  <2> QED
    BY <1>1, <1>2, <1>5, <2>1, <2>2, <2>3, AskKeeps DEF PostApply, Places, Others
<1>6. CASE PostVerify(q)
  <2>1. ask'[q].op = "verify" /\ WellFormed(ask'[q])
    BY <1>2, <1>6 DEF PostVerify, WellFormed
  <2> QED
    BY <1>1, <1>2, <1>6, <2>1, AskKeeps DEF PostVerify, Places, Others
<1> QED
  BY <1>3, <1>4, <1>5, <1>6

(* A request that fails before it has a job is forgotten. *)
LEMMA RefuseKeeps ==
  ASSUME IInv, NEW q \in Requests, Refuse(q)
  PROVE  IInv'
<1>1. ask'[q] = Nothing /\ DOMAIN ask' = Requests /\ \A p \in Others(q) : ask'[p] = ask[p]
  BY DEF Refuse, IInv, Types, Others
<1>2. \A p \in Requests : p < q => at[p] # "idle"
  BY DEF Refuse, IInv, Requesting, Phase
<1> QED
  BY <1>1, <1>2, AskKeeps DEF Refuse, Goto, Places, WellFormed, Nothing

(* A request gets its job. *)
LEMMA EnqueueKeeps ==
  ASSUME IInv, NEW q \in Requests, Enqueue(q)
  PROVE  IInv'
<1> USE DEF Enqueue, Goto, Queue!Announce, Queue!Become, tenant, records
<1>1. life[q] = "unknown" /\ life' = [life EXCEPT ![q] = "queued"] /\ at[q] = "prepare"
  OBVIOUS
<1>2. Types'
  BY DEF IInv, Types, TypeOK
<1>3. Requesting'
  BY DEF IInv, Requesting, Types, TypeOK, Phase, Op, HasJob, Met
<1>4. Working'
  BY DEF IInv, Working, Held, Honest, Told, Complete, Earnest, Live, Op, DoneWith
<1>5. Over' = Over
  BY DEF IInv, Types, TypeOK, Over, Earnest, Live, Op, Queue!Terminal
<1>6. Recorded'
  <2>1. Written' /\ AppliedMeansDone' /\ LatestWins'
    BY <1>1, <1>5 DEF IInv, Types, TypeOK, Recorded, Written, AppliedMeansDone, LatestWins
  <2>2. OnlyWhatWasAsked' /\ SucceededIsRecorded'
    BY <1>1 DEF IInv, Types, TypeOK, Recorded, OnlyWhatWasAsked, SucceededIsRecorded, Earnest, Live, Op, HasJob
  <2> QED
    BY <2>1, <2>2 DEF Recorded
<1> QED
  BY <1>2, <1>3, <1>4, <1>6 DEF IInv

(* The queue starts a job, whose worker has done nothing yet. *)
LEMMA StartKeeps ==
  ASSUME IInv, NEW q \in Requests, Start(q)
  PROVE  IInv'
<1> USE DEF Start, Queue!Start, Queue!Become, tenant, records
<1>1. life[q] = "queued" /\ life' = [life EXCEPT ![q] = "running"]
      /\ work' = [work EXCEPT ![q] = Worker("acting")] /\ after' = [after EXCEPT ![q] = Over]
  OBVIOUS
<1>2. Types'
  BY <1>1 DEF IInv, Types, TypeOK, Worker, Workers, Over
<1>3. Requesting'
  BY <1>1 DEF IInv, Requesting, Types, TypeOK, Phase, Op, HasJob, Met, Worker
<1>4. Working'
  <2>1. ASSUME NEW p \in Others(q)
        PROVE  Held(p)' /\ Told(p)' /\ Complete(p)'
    BY <1>1, <2>1 DEF IInv, Types, Working, Held, Honest, Told, Complete, Earnest, Live, Op, DoneWith, Others
  <2>2. Held(q)' /\ Told(q)' /\ Complete(q)'
    BY <1>1 DEF IInv, Types, Held, Told, Complete, Worker
  <2> QED
    BY <2>1, <2>2 DEF Working, Others
<1>5. Over' = Over
  BY <1>1 DEF IInv, Types, TypeOK, Over, Earnest, Live, Op, Queue!Terminal
<1>6. Recorded'
  <2>1. Written'
    BY <1>1, <1>5 DEF IInv, Types, TypeOK, Recorded, Written
  <2>2. AppliedMeansDone' /\ OnlyWhatWasAsked' /\ SucceededIsRecorded'
    BY <1>1 DEF IInv, Types, TypeOK, Recorded, AppliedMeansDone, OnlyWhatWasAsked,
                SucceededIsRecorded, Earnest, Live, Op, HasJob
  <2>3. LatestWins'
    BY <1>1 DEF IInv, Types, TypeOK, Recorded, Written, LatestWins
  <2> QED
    BY <2>1, <2>2, <2>3 DEF Recorded
<1> QED
  BY <1>2, <1>3, <1>4, <1>6 DEF IInv

(* A worker adds a result that is true, having done what it says. *)
LEMMA ResultKeeps ==
  ASSUME IInv, NEW q \in Requests, work[q].at = "acting",
         NEW r \in Results, NEW stops \in BOOLEAN, AddResult(q, r, stops),
         changed \subseteq changed', changed' \subseteq Acts,
         passed \subseteq passed', passed' \subseteq Acts,
         Honest(q, r)',
         \A a \in changed' \ changed : Live(q) /\ a \in ask[q].select,
         UNCHANGED <<ask, at, life, after, restarts, records>>
  PROVE  IInv'
<1> USE DEF AddResult, records
<1>1. work[q] \in Workers /\ work[q].results \in Seq(Results) /\ DOMAIN work = Requests
  BY DEF IInv, Types, Workers
<1>2. /\ work'[q].at = "acting" /\ work'[q].told = work[q].told
      /\ work'[q].results = Append(work[q].results, r)
      /\ work'[q].stopped \in BOOLEAN
      /\ work'[q] \in Workers
      /\ \A p \in Others(q) : work'[p] = work[p]
      /\ DOMAIN work' = Requests
  BY <1>1, Appended DEF Others, Workers
<1>3. Types'
  <2>1. work' \in [Requests -> Workers]
    BY <1>2 DEF IInv, Types, Others
  <2>2. \A p \in Requests : work'[p].at \in {"off", "acting", "recording"}
    BY <2>1 DEF Workers
  <2> QED
    BY <2>1, <2>2 DEF IInv, Types, TypeOK
<1>4. Requesting'
  BY <1>2 DEF IInv, Requesting, Phase, Op, HasJob, Met, Others
<1>5. Working'
  <2>1. ASSUME NEW p \in Others(q)
        PROVE  Held(p)' /\ Told(p)' /\ Complete(p)'
    <3>1. work'[p] = work[p] /\ Held(p) /\ Told(p) /\ Complete(p)
      BY <1>2, <2>1 DEF IInv, Working, Others
    <3>2. Held(p)'
      BY <3>1 DEF Held, Honest, Earnest, Live, Op
    <3>3. Told(p)' /\ Complete(p)'
      BY <3>1 DEF Told, Complete, Earnest, Live, Op, DoneWith
    <3> QED
      BY <3>2, <3>3
  <2>2. Held(q)'
    <3>1. ASSUME NEW i \in DOMAIN work'[q].results
          PROVE  Honest(q, work[q].results[i])'
      <4>1. CASE i = Len(work[q].results) + 1
        BY <1>1, <1>2, <4>1, Appended DEF Honest, Earnest, Live, Op
      <4>2. CASE i # Len(work[q].results) + 1
        <5>1. i \in DOMAIN work[q].results /\ work'[q].results[i] = work[q].results[i]
          BY <1>1, <1>2, <3>1, <4>2, Appended, LenProperties
        <5>2. Honest(q, work[q].results[i])
          BY <5>1 DEF IInv, Working, Held
        <5> QED
          BY <5>1, <5>2 DEF Honest, Earnest, Live, Op
      <4> QED
        BY <4>1, <4>2
    <3> QED
      BY <3>1 DEF Held
  <2>3. Told(q)' /\ Complete(q)'
    <3>1. work[q].told = 0
      BY DEF IInv, Requesting, Phase
    <3>2. Len(work'[q].results) \in Nat
      BY <1>1, <1>2, Appended, LenProperties
    <3> QED
      BY <1>2, <3>1, <3>2 DEF Told, Complete
  <2> QED
    BY <2>1, <2>2, <2>3 DEF Working, Others
<1>6. Recorded'
  <2>1. Written' /\ LatestWins' /\ SucceededIsRecorded' /\ AppliedMeansDone'
    BY DEF IInv, Recorded, Written, LatestWins, SucceededIsRecorded, AppliedMeansDone,
           Over, Earnest, Live, Op
  <2>2. HasJob(q)
    BY DEF IInv, Requesting, Phase, HasJob
  <2>3. OnlyWhatWasAsked'
    BY <2>2 DEF IInv, Types, TypeOK, Recorded, OnlyWhatWasAsked, Earnest, Live, Op, HasJob
  <2> QED
    BY <2>1, <2>3 DEF Recorded
<1> QED
  BY <1>3, <1>4, <1>5, <1>6 DEF IInv

(* The apply worker is done with an action. *)
LEMMA ApplyKeeps ==
  ASSUME IInv, NEW q \in Requests, NEW a \in Acts, Apply(q, a)
  PROVE  IInv'
<1> USE DEF Apply, Acting, tenant
<1>1. /\ work[q].at = "acting" /\ Op(q) = "apply" /\ a \in ask[q].select
      /\ ask[q].dry \in BOOLEAN /\ (Live(q) <=> ~ask[q].dry)
      /\ Earnest(q) <=> Live(q)
  BY DEF NextIs, Remains, IInv, Types, WellFormed, Live, Earnest, Op
<1>2. changed \subseteq Acts /\ passed \subseteq Acts
  BY DEF IInv, Types, TypeOK
<1>3. ASSUME NEW outcome \in {"skipped", "failed"}, NEW stops \in BOOLEAN,
             AddResult(q, Result(a, outcome, ask[q].dry), stops),
             changed' = changed \/ (changed' = changed \cup {a} /\ Live(q))
      PROVE  IInv'
  <2> DEFINE r == Result(a, outcome, ask[q].dry)
  <2>1. r \in Results /\ Honest(q, r)'
    BY <1>1, <1>3 DEF Result, Results, States, Honest, Earnest, Live, Op
  <2> HIDE DEF r
  <2> QED
    BY <1>1, <1>2, <1>3, <2>1, ResultKeeps DEF r
<1>4. ASSUME ~ask[q].dry, AddResult(q, Result(a, "applied", FALSE), FALSE), changed' = changed \cup {a}
      PROVE  IInv'
  <2> DEFINE r == Result(a, "applied", FALSE)
  <2>1. r \in Results /\ Honest(q, r)'
    BY <1>1, <1>4 DEF Result, Results, States, Honest, Earnest, Live, Op
  <2> HIDE DEF r
  <2> QED
    BY <1>1, <1>2, <1>4, <2>1, ResultKeeps DEF r
<1>5. ASSUME ask[q].dry, AddResult(q, Result(a, "dryrun", TRUE), FALSE), changed' = changed
      PROVE  IInv'
  <2> DEFINE r == Result(a, "dryrun", TRUE)
  <2>1. r \in Results /\ Honest(q, r)'
    BY <1>1, <1>5 DEF Result, Results, States, Honest, Earnest, Live, Op
  <2> HIDE DEF r
  <2> QED
    BY <1>1, <1>2, <1>5, <2>1, ResultKeeps DEF r
<1>6. CASE ask[q].dry = TRUE
  BY <1>1, <1>3, <1>5, <1>6 DEF Leave, Throw
<1>7. CASE ask[q].dry = FALSE
  BY <1>1, <1>3, <1>4, <1>7 DEF Leave, Throw
<1> QED
  BY <1>1, <1>6, <1>7

(* The verify worker has looked at its action. *)
LEMMA VerifyKeeps ==
  ASSUME IInv, NEW q \in Requests, NEW a \in Acts, Verify(q, a)
  PROVE  IInv'
<1> USE DEF Verify, Acting
<1>1. PICK pass \in BOOLEAN :
        /\ AddResult(q, Result(a, IF pass THEN "applied" ELSE "failed", FALSE), FALSE)
        /\ passed' = IF pass THEN passed \cup {a} ELSE passed
  OBVIOUS
<1> DEFINE r == Result(a, IF pass THEN "applied" ELSE "failed", FALSE)
<1>2. r \in Results /\ Honest(q, r)'
  BY <1>1 DEF Result, Results, States, Honest, Earnest, Live, Op
<1>3. passed \subseteq passed' /\ passed' \subseteq Acts /\ changed' = changed /\ changed \subseteq Acts
  BY <1>1 DEF IInv, Types, TypeOK
<1> HIDE DEF r
<1> QED
  BY <1>1, <1>2, <1>3, ResultKeeps DEF r

(* A job ends and its worker is gone; as succeeded only with its records made. *)
LEMMA EndKeeps ==
  ASSUME IInv, NEW q \in Requests, NEW outcome \in Queue!Terminal,
         life[q] = "running", life' = [life EXCEPT ![q] = outcome], work' = [work EXCEPT ![q] = Off],
         outcome = "succeeded" /\ Earnest(q) => \A a \in ask[q].select : Contains(wrote[a], q),
         UNCHANGED <<ask, at, after, restarts, tenant, records>>
  PROVE  IInv'
<1> USE DEF tenant, records, Queue!Terminal
<1>1. Types'
  BY DEF IInv, Types, TypeOK, Off, Worker, Workers
<1>2. Requesting'
  BY DEF IInv, Requesting, Types, TypeOK, Phase, Op, HasJob, Met, Off, Worker
<1>3. Working'
  <2>1. ASSUME NEW p \in Others(q)
        PROVE  Held(p)' /\ Told(p)' /\ Complete(p)'
    BY <2>1 DEF IInv, Types, Working, Held, Honest, Told, Complete, Earnest, Live, Op, DoneWith, Others
  <2>2. Held(q)' /\ Told(q)' /\ Complete(q)'
    BY DEF IInv, Types, Held, Told, Complete, Off, Worker
  <2> QED
    BY <2>1, <2>2 DEF Working, Others
<1>4. Recorded'
  <2>1. Written' /\ LatestWins' /\ AppliedMeansDone'
    BY DEF IInv, Types, TypeOK, Recorded, Written, LatestWins, AppliedMeansDone, Over, Earnest, Live, Op
  <2>2. OnlyWhatWasAsked' /\ SucceededIsRecorded'
    BY DEF IInv, Types, TypeOK, Recorded, OnlyWhatWasAsked, SucceededIsRecorded, Earnest, Live, Op, HasJob
  <2> QED
    BY <2>1, <2>2 DEF Recorded
<1> QED
  BY <1>1, <1>2, <1>3, <1>4 DEF IInv

(* The worker exits, and its results are to be stored unless one failed. *)
LEMMA FinishKeeps ==
  ASSUME IInv, NEW q \in Requests, Finish(q)
  PROVE  IInv'
<1> USE DEF tenant, records
<1>1. CASE Op(q) = "apply" /\ AnyFailed(q)
  <2>1. life[q] = "running" /\ life' = [life EXCEPT ![q] = "failed"]
    BY <1>1 DEF Finish, EndAs, Queue!End, Queue!Become, Queue!Terminal, IInv, Types, TypeOK
  <2> QED
    BY <1>1, <2>1, EndKeeps DEF Finish, Queue!Terminal
<1>2. CASE ~(Op(q) = "apply" /\ AnyFailed(q))
  <2>1. /\ Done(q) /\ life[q] = "running" /\ work' = [work EXCEPT ![q].at = "recording"]
        /\ UNCHANGED <<life, ask, at, after, restarts, tenant, records>>
    BY <1>2 DEF Finish
  <2>2. /\ work[q] \in Workers /\ work[q].results \in Seq(Results) /\ work[q].at = "acting"
        /\ work[q].told = 0
    BY <2>1 DEF IInv, Types, Workers, Done, Acting, Requesting, Phase
  <2>3. /\ work'[q].at = "recording" /\ work'[q].told = 0
        /\ work'[q].results = work[q].results /\ work'[q] \in Workers
        /\ \A p \in Others(q) : work'[p] = work[p]
        /\ DOMAIN work' = Requests
    BY <2>1, <2>2 DEF IInv, Types, Workers, Others
  <2>4. Types'
    <3>1. work' \in [Requests -> Workers]
      BY <2>1, <2>3 DEF IInv, Types, Others
    <3>2. \A p \in Requests : work'[p].at \in {"off", "acting", "recording"}
      BY <3>1 DEF Workers
    <3> QED
      BY <2>1, <3>1, <3>2 DEF IInv, Types, TypeOK
  <2>5. Requesting'
    BY <2>1, <2>3 DEF IInv, Requesting, Phase, Op, HasJob, Met, Others
  <2>6. Working'
    <3>1. ASSUME NEW p \in Others(q)
          PROVE  Held(p)' /\ Told(p)' /\ Complete(p)'
      BY <2>1, <2>3, <3>1 DEF IInv, Working, Held, Honest, Told, Complete, Earnest, Live, Op, DoneWith, Others
    <3>2. Held(q)'
      BY <2>1, <2>3 DEF IInv, Working, Held, Honest, Earnest, Live, Op
    <3>3. Len(work[q].results) \in Nat
      BY <2>2, LenProperties
    <3>4. Told(q)'
      BY <2>3, <3>3 DEF Told
    <3>5. Earnest(q) => ask[q].select \subseteq DoneWith(q)
      <4>1. CASE Op(q) = "apply"
        BY <2>1, <4>1 DEF Done, Acting, Remains
      <4>2. CASE Op(q) = "verify"
        <5>1. PICK a \in Acts : ask[q].select = {a}
          BY <4>2 DEF IInv, Types, WellFormed, Op
        <5>2. 1 \in DOMAIN work[q].results
          BY <2>1, <2>2, <3>3, <4>2, EmptySeq, LenProperties DEF Done, Acting
        <5>3. work[q].results[1].action = a
          BY <5>1, <5>2 DEF IInv, Working, Held, Honest
        <5> QED
          BY <5>1, <5>2, <5>3 DEF DoneWith
      <4> QED
        BY <4>1, <4>2 DEF Earnest, Live
    <3>6. Complete(q)'
      BY <2>1, <2>3, <3>5 DEF Complete, Earnest, Live, Op, DoneWith
    <3> QED
      BY <3>1, <3>2, <3>4, <3>6 DEF Working, Others
  <2>7. Recorded'
    BY <2>1 DEF IInv, Recorded, Written, LatestWins, SucceededIsRecorded, AppliedMeansDone,
                OnlyWhatWasAsked, Over, Earnest, Live, Op, HasJob
  <2> QED
    BY <2>4, <2>5, <2>6, <2>7 DEF IInv
<1> QED
  BY <1>1, <1>2

(* The worker is killed, or its results cannot be stored. *)
LEMMA FailKeeps ==
  ASSUME IInv, NEW q \in Requests, Killed(q) \/ RecordThrows(q)
  PROVE  IInv'
<1>1. life[q] = "running" /\ life' = [life EXCEPT ![q] = "failed"]
  BY DEF Killed, RecordThrows, EndAs, Queue!End, Queue!Become, Queue!Terminal, IInv, Types, TypeOK
<1> QED
  BY <1>1, EndKeeps DEF Killed, RecordThrows, Queue!Terminal

(* The queue is told of a success when everything is stored. *)
LEMMA SettleKeeps ==
  ASSUME IInv, NEW q \in Requests, Settle(q)
  PROVE  IInv'
<1>1. life[q] = "running" /\ life' = [life EXCEPT ![q] = "succeeded"]
  BY DEF Settle, EndAs, Queue!End, Queue!Become, Queue!Terminal, IInv, Types, TypeOK
<1>2. ASSUME Earnest(q), NEW a \in ask[q].select
      PROVE  Contains(wrote[a], q)
  <2>1. work[q].told = Len(work[q].results) /\ Len(work[q].results) \in Nat
        /\ DOMAIN work[q].results = 1 .. Len(work[q].results)
    BY LenProperties DEF Settle, Unrecorded, IInv, Types, Workers, Working, Told
  <2>2. PICK i \in DOMAIN work[q].results : work[q].results[i].action = a
    BY <1>2 DEF Settle, IInv, Working, Complete, DoneWith
  <2>3. ~work[q].results[i].dry
    BY <1>2, <2>2 DEF IInv, Working, Held, Honest
  <2> QED
    BY <2>1, <2>2, <2>3 DEF IInv, Working, Told
<1> QED
  BY <1>1, <1>2, EndKeeps DEF Settle, Queue!Terminal

(* One result is stored. *)
LEMMA RecordResultKeeps ==
  ASSUME IInv, NEW q \in Requests, RecordResult(q)
  PROVE  IInv'
<1> DEFINE n == work[q].told + 1
           r == work[q].results[n]
           a == r.action
<1> USE DEF RecordResult, NextResult, tenant, records
<1>1. /\ work[q] \in Workers /\ work[q].results \in Seq(Results) /\ work[q].told \in Nat
      /\ Len(work[q].results) \in Nat /\ DOMAIN work[q].results = 1 .. Len(work[q].results)
  BY LenProperties DEF IInv, Types, Workers
<1>2. n \in DOMAIN work[q].results /\ r \in Results
  BY <1>1, ElementOfSeq DEF Unrecorded
<1>3. Honest(q, r) /\ a \in Acts
  BY <1>2 DEF IInv, Working, Held, Results
<1>4. work[q].at = "recording" /\ life[q] = "running" /\ HasJob(q)
  BY DEF IInv, Requesting, Phase, HasJob
<1>5. /\ work'[q].at = "recording" /\ work'[q].told = n
      /\ work'[q].results = work[q].results /\ work'[q] \in Workers
      /\ \A p \in Others(q) : work'[p] = work[p]
      /\ DOMAIN work' = Requests
  <2>1. work' = [work EXCEPT ![q].told = n] /\ DOMAIN work = Requests
    BY DEF IInv, Types
  <2>2. n \in Nat
    BY <1>1
  <2> HIDE DEF n
  <2> QED
    BY <1>1, <1>4, <2>1, <2>2 DEF Workers, Others
<1>6. work' \in [Requests -> Workers] /\ \A p \in Requests : work'[p].at \in {"off", "acting", "recording"}
  <2>1. work' \in [Requests -> Workers]
    BY <1>5 DEF IInv, Types, Others
  <2> QED
    BY <2>1 DEF Workers
<1> HIDE DEF n, r, a
(* What the store did, in terms of the invariant. *)
<1>7. /\ state' \in [Acts -> States] /\ wrote' \in [Acts -> Seq(Requests)]
      /\ ~r.dry => Contains(wrote'[a], q)
      /\ \A b \in Acts, p \in Requests : Contains(wrote[b], p) => Contains(wrote'[b], p)
      /\ \A b \in Acts : state'[b] = state[b] \/ (b = a /\ ~r.dry /\ state'[b] = r.state)
      /\ \A b \in Acts : /\ wrote'[b] = wrote[b] \/ wrote'[b] = Append(wrote[b], q)
                         /\ wrote'[b] = wrote[b] => state'[b] = state[b]
                         /\ wrote'[b] # wrote[b] => b = a /\ ~r.dry
  <2>1. state \in [Acts -> States] /\ wrote \in [Acts -> Seq(Requests)]
    BY DEF IInv, Types, TypeOK
  <2>2. CASE r.dry
    BY <1>3, <2>1, <2>2 DEF Store, r, n
  <2>3. CASE ~r.dry
    <3>1. state' = [state EXCEPT ![a] = r.state] /\ wrote' = [wrote EXCEPT ![a] = Append(@, q)]
      BY <2>3 DEF Store, Write, r, n, a
    <3>2. r.state \in States
      BY <1>2, <1>3, <2>3 DEF Results, Honest
    <3>3. /\ Append(wrote[a], q) \in Seq(Requests) /\ Contains(Append(wrote[a], q), q)
          /\ \A p : Contains(wrote[a], p) => Contains(Append(wrote[a], q), p)
      BY <1>3, <2>1, Appended, AppendedContains
    <3> QED
      <4>1. \A b \in Acts : b # a => wrote'[b] = wrote[b] /\ state'[b] = state[b]
        BY <2>1, <3>1
      <4>2. wrote'[a] = Append(wrote[a], q) /\ state'[a] = r.state /\ wrote'[a] # wrote[a]
        BY <1>3, <2>1, <3>1, Appended, LenProperties
      <4> QED
        BY <1>3, <2>1, <2>3, <3>1, <3>2, <3>3, <4>1, <4>2
  <2> QED
    BY <2>2, <2>3
<1>8. Types'
  BY <1>6, <1>7 DEF IInv, Types, TypeOK
<1>9. Requesting'
  BY <1>4, <1>5 DEF IInv, Requesting, Phase, Op, HasJob, Met, Others
<1>10. Working'
  <2>1. ASSUME NEW p \in Requests
        PROVE  Held(p)' /\ Complete(p)'
    BY <1>4, <1>5 DEF IInv, Working, Held, Honest, Complete, Earnest, Live, Op, DoneWith, Others
  <2>2. ASSUME NEW p \in Requests, NEW i \in 1 .. work[p].told, ~work[p].results[i].dry
        PROVE  Contains(wrote'[work[p].results[i].action], p)
    <3>1. work[p] \in Workers /\ work[p].results \in Seq(Results) /\ i \in DOMAIN work[p].results
      BY LenProperties DEF IInv, Types, Workers, Working, Told
    <3>2. work[p].results[i] \in Results
      BY <3>1, ElementOfSeq, LenProperties
    <3>3. Contains(wrote[work[p].results[i].action], p) /\ work[p].results[i].action \in Acts
      BY <2>2, <3>2 DEF IInv, Working, Told, Results
    <3> QED
      BY <1>7, <3>3
  <2>3. ASSUME NEW p \in Others(q)
        PROVE  Told(p)'
    BY <1>5, <2>2, <2>3 DEF IInv, Working, Told, Others
  <2>4. Told(q)'
    <3>1. work'[q].told <= Len(work'[q].results)
      BY <1>1, <1>2, <1>5
    <3>2. ASSUME NEW i \in 1 .. n, ~work'[q].results[i].dry
          PROVE  Contains(wrote'[work'[q].results[i].action], q)
      <4>1. CASE i = n
        BY <1>5, <1>7, <3>2, <4>1 DEF r, a
      <4>2. CASE i # n
        <5>1. i \in 1 .. work[q].told
          BY <1>1, <4>2 DEF n
        <5> QED
          BY <1>5, <2>2, <3>2, <5>1
      <4> QED
        BY <4>1, <4>2
    <3> QED
      BY <1>5, <3>1, <3>2 DEF Told
  <2> QED
    BY <2>1, <2>3, <2>4 DEF Working, Others
<1>11. Recorded'
  <2>1. ASSUME NEW b \in Acts
        PROVE  \A i \in DOMAIN wrote'[b] :
                 \/ i \in DOMAIN wrote[b] /\ wrote'[b][i] = wrote[b][i]
                 \/ wrote'[b][i] = q /\ \A k \in DOMAIN wrote[b] : k < i
    <3>1. wrote[b] \in Seq(Requests)
      BY DEF IInv, Types
    <3>2. CASE wrote'[b] = wrote[b]
      BY <3>2
    <3>3. CASE wrote'[b] = Append(wrote[b], q)
      BY <3>1, <3>3, Appended, LenProperties
    <3> QED
      BY <1>7, <3>2, <3>3
  <2>2. \A p \in Requests : q \notin after[p]
    BY <1>4 DEF IInv, Recorded, Written, Over, Queue!Terminal
  <2>3. Written'
    BY <1>4, <2>1 DEF IInv, Recorded, Written, Over, Earnest, Live, Op
  <2>4. LatestWins'
    <3>1. ASSUME NEW b \in Acts, NEW i \in DOMAIN wrote'[b], NEW k \in DOMAIN wrote'[b], i < k
          PROVE  wrote'[b][k] \notin after[wrote'[b][i]]
      <4>1. wrote'[b] \in Seq(Requests) /\ wrote[b] \in Seq(Requests)
        BY <1>7 DEF IInv, Types
      <4>2. wrote'[b][i] \in Requests /\ i \in Nat /\ k \in Nat
        BY <4>1, ElementOfSeq, LenProperties
      <4>3. CASE wrote'[b][k] = q
        BY <2>2, <4>2, <4>3
      <4>4. CASE wrote'[b][k] # q
        <5>1. k \in DOMAIN wrote[b] /\ wrote'[b][k] = wrote[b][k]
          BY <2>1, <4>4
        <5>2. i \in DOMAIN wrote[b] /\ wrote'[b][i] = wrote[b][i]
          BY <2>1, <3>1, <4>2, <5>1
        <5> QED
          BY <3>1, <5>1, <5>2 DEF IInv, Recorded, LatestWins
      <4> QED
        BY <4>3, <4>4
    <3> QED
      BY <3>1 DEF LatestWins
  <2>5. AppliedMeansDone'
    BY <1>3, <1>7 DEF a, IInv, Recorded, AppliedMeansDone, Honest
  <2>6. OnlyWhatWasAsked'
    <3>1. Earnest(q) <=> ~r.dry
      BY <1>3 DEF Honest
    <3>2. ASSUME NEW b \in Acts, NEW p \in Range(wrote'[b])
          PROVE  Earnest(p) /\ HasJob(p) /\ b \in ask[p].select
      <4>1. wrote[b] \in Seq(Requests)
        BY DEF IInv, Types
      <4>2. CASE p \in Range(wrote[b])
        BY <4>2 DEF IInv, Recorded, OnlyWhatWasAsked
      <4>3. CASE p \notin Range(wrote[b])
        <5>1. p = q /\ b = a /\ ~r.dry
          <6>1. wrote'[b] # wrote[b]
            BY <3>2, <4>3
          <6>2. Range(Append(wrote[b], q)) = Range(wrote[b]) \cup {q}
            BY <4>1, AppendedRange
          <6> QED
            BY <1>7, <3>2, <4>3, <6>1, <6>2
        <5> QED
          BY <1>3, <1>4, <3>1, <5>1 DEF Honest, a
      <4> QED
        BY <4>2, <4>3
    <3>3. ASSUME NEW b \in Acts, wrote'[b] = <<>>
          PROVE  state'[b] \in {"absent", "planned", "skipped"}
      <4>1. wrote[b] \in Seq(Requests) /\ Len(wrote[b]) \in Nat
        BY LenProperties DEF IInv, Types
      <4>2. Append(wrote[b], q) # <<>>
        BY <4>1, Appended, EmptySeq
      <4>3. wrote[b] = <<>> /\ state'[b] = state[b]
        BY <1>7, <3>3, <4>2
      <4> QED
        BY <4>3 DEF IInv, Recorded, OnlyWhatWasAsked
    <3>4. \A b \in Acts : b \in changed => \E p \in Requests : Live(p) /\ HasJob(p) /\ b \in ask[p].select
      BY DEF IInv, Recorded, OnlyWhatWasAsked
    <3> QED
      BY <3>2, <3>3, <3>4 DEF OnlyWhatWasAsked, Earnest, Live, Op, HasJob
  <2>7. SucceededIsRecorded'
    <3>1. ASSUME NEW p \in Requests, life[p] = "succeeded", Earnest(p), NEW b \in ask[p].select
          PROVE  Contains(wrote'[b], p)
      <4>1. Contains(wrote[b], p)
        BY <3>1 DEF IInv, Recorded, SucceededIsRecorded, Earnest
      <4>2. b \in Acts
        BY <3>1 DEF IInv, Types, WellFormed, Earnest, Live, Op
      <4> QED
        BY <1>7, <4>1, <4>2
    <3> QED
      BY <3>1 DEF SucceededIsRecorded, Earnest, Live, Op
  <2> QED
    BY <2>3, <2>4, <2>5, <2>6, <2>7 DEF Recorded
<1> QED
  BY <1>8, <1>9, <1>10, <1>11 DEF IInv

(* The plan is stored. *)
LEMMA StorePlanKeeps ==
  ASSUME IInv, NEW q \in Requests, StorePlan(q)
  PROVE  IInv'
<1> USE DEF StorePlan, tenant
<1>0. state' \in [Acts -> {"planned", "skipped"}]
  BY DEF Planned
<1>1. Types' /\ Requesting'
  BY <1>0 DEF IInv, Types, TypeOK, States, Requesting, Phase, Op, HasJob, Met
<1>2. Working'
  BY DEF IInv, Working, Held, Honest, Told, Complete, Earnest, Live, Op, DoneWith
<1>3. Recorded'
  <2>1. Written' /\ LatestWins' /\ SucceededIsRecorded'
    BY DEF IInv, Recorded, Written, LatestWins, SucceededIsRecorded, Over, Earnest, Live, Op
  <2>2. AppliedMeansDone' /\ OnlyWhatWasAsked'
    BY <1>0 DEF IInv, Recorded, AppliedMeansDone, OnlyWhatWasAsked, Earnest, Live, Op, HasJob
  <2> QED
    BY <2>1, <2>2 DEF Recorded
<1> QED
  BY <1>1, <1>2, <1>3 DEF IInv

(* The process restarts. *)
LEMMA RestartKeeps ==
  ASSUME IInv, Restart
  PROVE  IInv'
<1> USE DEF Restart, tenant, records
<1>1. Types'
  BY RemediationAssumption DEF IInv, Types, TypeOK, Off, Worker, Workers
<1>2. Requesting'
  <2>1. Met'
    BY DEF IInv, Requesting, Types, TypeOK, Met, Op
  <2>2. ASSUME NEW q \in Requests
        PROVE  Phase(q)'
    BY DEF IInv, Requesting, Types, TypeOK, Phase, Op, HasJob, Off, Worker
  <2> QED
    BY <2>1, <2>2 DEF Requesting
<1>3. Working'
  <2>1. ASSUME NEW q \in Requests, work'[q] = work[q]
        PROVE  Held(q)' /\ Told(q)' /\ Complete(q)'
    BY <2>1 DEF IInv, Working, Held, Honest, Told, Complete, Earnest, Live, Op, DoneWith
  <2>2. ASSUME NEW q \in Requests, work'[q] = Off
        PROVE  Held(q)' /\ Told(q)' /\ Complete(q)'
    BY <2>2 DEF Held, Told, Complete, Off, Worker
  <2> QED
    BY <2>1, <2>2 DEF Working
<1>4. Recorded'
  <2>1. \A q \in Requests : life'[q] = life[q] \/ (life[q] \in {"queued", "running"} /\ life'[q] = "lost")
    OBVIOUS
  <2>2. Over' = Over
    BY <2>1 DEF Over, Earnest, Live, Op, Queue!Terminal
  <2>3. Written'
    BY <2>1, <2>2 DEF IInv, Types, Recorded, Written
  <2>4. LatestWins' /\ AppliedMeansDone'
    BY DEF IInv, Recorded, LatestWins, AppliedMeansDone
  <2>5. OnlyWhatWasAsked' /\ SucceededIsRecorded'
    BY <2>1, WritersAreRequests
       DEF IInv, Recorded, OnlyWhatWasAsked, SucceededIsRecorded, Earnest, Live, Op, HasJob
  <2> QED
    BY <2>3, <2>4, <2>5 DEF Recorded
<1> QED
  BY <1>1, <1>2, <1>3, <1>4 DEF IInv

-----------------------------------------------------------------------------
(* The theorems. *)

(* The initial states satisfy the invariant. *)
LEMMA InitHolds == Init => IInv
<1> SUFFICES ASSUME Init PROVE IInv
  OBVIOUS
<1> USE RemediationAssumption DEF Init, Queue!Init
<1>1. Types
  <2>1. <<>> \in Seq(Results) /\ <<>> \in Seq(Requests)
    BY EmptySeq
  <2>2. TypeOK
    <3>1. \A q \in Requests : work[q].at \in {"off", "acting", "recording"}
      BY DEF Off, Worker
    <3>2. restarts \in 0 .. MaxRestarts
      OBVIOUS
    <3>3. at \in [Requests -> Places] /\ state \in [Acts -> States]
      BY DEF Places, States
    <3>4. life \in [Requests -> {"unknown", "queued", "running", "lost"} \cup Queue!Terminal]
      OBVIOUS
    <3> QED
      BY <3>1, <3>2, <3>3, <3>4 DEF TypeOK, Places
  <2>3. work \in [Requests -> Workers] /\ wrote \in [Acts -> Seq(Requests)]
    BY <2>1 DEF Off, Worker, Workers
  <2> QED
    BY <2>2, <2>3 DEF Types, WellFormed, Nothing
<1>2. Requesting
  BY DEF Requesting, Phase, Met, Op, HasJob, Nothing, Off, Worker
<1>3. Working
  BY DEF Working, Held, Told, Complete, Off, Worker
<1>4. Recorded
  BY DEF Recorded, Written, AppliedMeansDone, OnlyWhatWasAsked, SucceededIsRecorded, LatestWins, Range
<1> QED
  BY <1>1, <1>2, <1>3, <1>4 DEF IInv

(* Every step keeps it. *)
LEMMA NextKeeps == IInv /\ [Next]_vars => IInv'
<1> SUFFICES ASSUME IInv, [Next]_vars PROVE IInv'
  OBVIOUS
<1>1. ASSUME NEW q \in Requests, PostPlan(q) \/ Replay(q) \/ PostApply(q) \/ PostVerify(q)
      PROVE  IInv'
  BY <1>1, ArrivalKeeps
<1>2. ASSUME NEW q \in Requests, Enqueue(q) \/ Refuse(q) \/ Start(q)
      PROVE  IInv'
  BY <1>2, EnqueueKeeps, RefuseKeeps, StartKeeps
<1>3. ASSUME NEW q \in Requests, NEW a \in Acts, Apply(q, a) \/ Verify(q, a)
      PROVE  IInv'
  BY <1>3, ApplyKeeps, VerifyKeeps
<1>4. ASSUME NEW q \in Requests, Finish(q) \/ Killed(q) \/ RecordThrows(q) \/ Settle(q)
      PROVE  IInv'
  BY <1>4, FinishKeeps, FailKeeps, SettleKeeps
<1>5. ASSUME NEW q \in Requests, RecordResult(q) \/ StorePlan(q)
      PROVE  IInv'
  BY <1>5, RecordResultKeeps, StorePlanKeeps
<1>6. CASE Restart
  BY <1>6, RestartKeeps
<1>7. CASE UNCHANGED vars
  <2> USE <1>7 DEF vars
  <2>1. Types' /\ Requesting'
    BY DEF IInv, Types, TypeOK, Requesting, Phase, Op, HasJob, Met
  <2>2. Working'
    BY DEF IInv, Working, Held, Honest, Told, Complete, Earnest, Live, Op, DoneWith
  <2>3. Recorded'
    BY DEF IInv, Recorded, Written, LatestWins, SucceededIsRecorded, AppliedMeansDone,
           OnlyWhatWasAsked, Over, Earnest, Live, Op, HasJob
  <2> QED
    BY <2>1, <2>2, <2>3 DEF IInv
<1> QED
  BY <1>1, <1>2, <1>3, <1>4, <1>5, <1>6, <1>7 DEF Next

(* The inductive invariant holds in every state: requests, jobs, workers,    *)
(* results and records fit together.                                         *)
THEOREM Inductive == Spec => []IInv
BY InitHolds, NextKeeps, PTL DEF Spec

(* Every variable of Remediation holds what its declaration says.            *)
THEOREM TypeCorrect == Spec => []TypeOK
<1>1. IInv => TypeOK
  BY DEF IInv, Types
<1> QED
  BY <1>1, Inductive, PTL

(* No key has two apply jobs, but those whose requests overlapped: the job-backed
   idempotency survives restarts, failures and any number of retries.        *)
THEOREM KeysApplyOnce == Spec => []OneApplyPerKey
<1>1. IInv => OneApplyPerKey
  BY DEF IInv, Requesting, Met, Phase, OneApplyPerKey, Asks, Op
<1> QED
  BY <1>1, Inductive, PTL

(* What is on record as applied was done, or found in order by a verify.     *)
THEOREM RecordsAreTrue == Spec => []AppliedMeansDone
<1>1. IInv => AppliedMeansDone
  BY DEF IInv, Recorded
<1> QED
  BY <1>1, Inductive, PTL

(* The tenant is changed only where a live apply selected the action, only live
   applies and verifies that were asked for an action write its record, and an
   action without such a writer stands as the plan had it, planned or skipped.
   So a dry run leaves no trace.                                             *)
THEOREM NothingUnasked == Spec => []OnlyWhatWasAsked
<1>1. IInv => OnlyWhatWasAsked
  BY DEF IInv, Recorded
<1> QED
  BY <1>1, Inductive, PTL

(* A job reported as succeeded has something on record of all it was about.  *)
THEOREM RecordsAreComplete == Spec => []SucceededIsRecorded
<1>1. IInv => SucceededIsRecorded
  BY DEF IInv, Recorded
<1> QED
  BY <1>1, Inductive, PTL

(* The record of a later job stands, whatever is interleaved with it.        *)
THEOREM LaterRecordStands == Spec => []LatestWins
<1>1. IInv => LatestWins
  BY DEF IInv, Recorded
<1> QED
  BY <1>1, Inductive, PTL
=============================================================================
