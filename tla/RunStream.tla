----------------------------- MODULE RunStream -----------------------------
(***************************************************************************)
(* The progress events of one run: the hub (sse/hub.ts), those who read    *)
(* its stream (routes/runs-events.ts), the job and the worker that publish *)
(* (jobs/queue.ts, jobs/supervisor.ts), the route that cancels the run     *)
(* (routes/runs-actions.ts) and the run's rows.  publish() gives an event  *)
(* its sequence and its place in the history at once, awaits the store and *)
(* only then fans it out, so the calls of one run overlap.  All maps of    *)
(* the hub are keyed by the run: one run is the whole of what they do.     *)
(***************************************************************************)
EXTENDS Naturals, Sequences, FiniteSets

CONSTANTS Subscribers,  \* clients that may open the stream, once each
          Outcomes,     \* how the job may end
          MaxOpen,      \* how many calls of publish() may overlap
          MaxTurns      \* how many progress lines the worker prints and writes
                        \* of the store reject, together

ASSUME RunStreamAssumption ==
  /\ Outcomes \subseteq {"succeeded", "failed", "cancelled"} /\ Outcomes # {}
  /\ MaxOpen \in Nat \ {0} /\ MaxTurns \in Nat

VARIABLES
  history,     \* the events, in the order of their sequence numbers
  call,        \* call[k]: where publish() of event k is
  lastState,   \* runStates: the state of the newest event
  terminal,    \* terminalRuns: whether a terminal event has been fanned out
  subscribers, \* the registered ones
  phase,       \* phase[s]: what s knows of its stream
  seen,        \* seen[s]: the events s was given, in the order it got them
  writes,      \* updates of the run's row that were called and not yet made
  row,         \* the run's status
  section,     \* the event the section's row shows, 0 while there is no row
  route,       \* where the cancel request is
  life,        \* the job, as JobLifecycle sees it
  lines,       \* how many lines the worker has printed
  faults,      \* how many writes have rejected
  missed,      \* whether the newest update that settled rejected
  openAt,      \* openAt[k]: the calls not yet done when event k was published
  joinedOver   \* joinedOver[s]: the calls not yet done when s subscribed

hub     == <<history, call, lastState, terminal, openAt>>
clients == <<subscribers, phase, seen, joinedOver>>
store   == <<writes, row, section, faults, missed>>
vars    == <<hub, clients, store, route, life, lines>>

Job   == "job"
Queue == INSTANCE JobLifecycle WITH Jobs <- {Job}, PoolSize <- 1, MayLose <- FALSE

TERMINAL_RUN_STATES == {"succeeded", "failed", "cancelled"}
RunStates == {"queued", "running"} \cup TERMINAL_RUN_STATES

isTerminalRunState(state) == state \in TERMINAL_RUN_STATES

(* An event: the run's state, and whether it tells of the worker's section.  *)
Event(state, hasSection) == [state |-> state, section |-> hasSection]

Calls   == 1 .. Len(history)
Open    == {k \in Calls : call[k] # "done"}
Goto(k, at) == call' = [call EXCEPT ![k] = at]

Init ==
  /\ Queue!Init
  /\ history = <<>> /\ call = <<>> /\ openAt = <<>>
  /\ lastState = "none" /\ terminal = FALSE
  /\ subscribers = {}
  /\ phase = [s \in Subscribers |-> "new"]
  /\ seen = [s \in Subscribers |-> <<>>]
  /\ joinedOver = [s \in Subscribers |-> {}]
  /\ writes = <<>> /\ row = "queued" /\ section = 0
  /\ route = "idle" /\ lines = 0 /\ faults = 0 /\ missed = FALSE

-----------------------------------------------------------------------------
(* The store *)

Reject == lines + faults < MaxTurns /\ faults' = faults + 1

(* Mutant: the section's row is inserted and never updated. *)
RecordSectionOnce(k) == section' = (IF section = 0 THEN k ELSE section) /\ UNCHANGED faults

(* recordRunSection(): the row is read and written in one turn.              *)
RecordSection(k) == \/ section' = k /\ UNCHANGED faults
                    \/ Reject /\ UNCHANGED section

(* Updates are called by publish() of an event, or by the cancel route.      *)
Route == 0

(* A repository awaits one read before it updates, in every call alike, so
   that updates are made in the order they were called.                      *)
Update(by, status) == writes' = Append(writes, [by |-> by, status |-> status])

NextWrite == Head(writes)

(* Whoever waits for the update goes on: publish() with the section, the route
   with its event, or, rejected, publish() with the fan-out and the route
   with an error.                                                            *)
Settle(by, ok) ==
  IF by = Route
  THEN route' = (IF ok THEN "persisted" ELSE "failed") /\ UNCHANGED call
  ELSE Goto(by, IF ok THEN "written" ELSE "fanOut") /\ UNCHANGED route

(* Of a "queued" event only updatedAt is written.                            *)
StatusAfter(status) == IF status = "queued" THEN row ELSE status

(* An update rejects before its row is written, or because the roll-up of the
   parent that follows it throws.                                            *)
MakeWrite ==
  /\ writes # <<>>
  /\ writes' = Tail(writes)
  /\ \/ row' = StatusAfter(NextWrite.status) /\ missed' = FALSE
        /\ Settle(NextWrite.by, TRUE) /\ UNCHANGED faults
     \/ Reject /\ missed' = TRUE /\ Settle(NextWrite.by, FALSE)
        /\ row' \in {row, StatusAfter(NextWrite.status)}
  /\ UNCHANGED <<history, lastState, terminal, openAt, clients, section, life, lines>>

-----------------------------------------------------------------------------
(* The hub *)

(* Mutant: the run's last state is taken from its row, as read. *)
StateChangedInRow(event) == row # event.state

(* updateStore() compares with the newest event, not with what was written.  *)
StateChanged(event) == lastState # event.state

(* publish() up to its first await.  Without a change of state the update is
   skipped and the section is written in the same turn.                      *)
Publish(event) ==
  LET k == Len(history) + 1
  IN  /\ Cardinality(Open) < MaxOpen
      /\ history' = Append(history, event)
      /\ openAt' = Append(openAt, Open)
      /\ lastState' = event.state
      /\ IF StateChanged(event)
         THEN /\ Update(k, event.state)
              /\ call' = Append(call, "write")
              /\ UNCHANGED <<section, faults>>
         ELSE /\ call' = Append(call, "fanOut")
              /\ IF event.section THEN RecordSection(k) ELSE UNCHANGED <<section, faults>>
              /\ UNCHANGED writes
      /\ UNCHANGED <<terminal, row, missed, clients>>

(* Mutant: an event with a section goes out for the run and for the section. *)
AfterWriteDelivers(k) ==
  /\ call[k] = "written"
  /\ Goto(k, "fanOut")
  /\ IF history[k].section THEN RecordSection(k) ELSE UNCHANGED <<section, faults>>
  /\ seen' = [s \in Subscribers |-> IF s \in subscribers THEN Append(seen[s], k) ELSE seen[s]]
  /\ UNCHANGED <<history, lastState, terminal, openAt, subscribers, phase, joinedOver,
                 writes, row, missed, route, life, lines>>

(* updateStore() after the update and the parent's roll-up.                  *)
AfterWrite(k) ==
  /\ call[k] = "written"
  /\ Goto(k, "fanOut")
  /\ IF history[k].section THEN RecordSection(k) ELSE UNCHANGED <<section, faults>>
  /\ UNCHANGED <<history, lastState, terminal, openAt, clients, writes, row, missed, route, life, lines>>

(* Mutant: subscribers are completed and stay registered. *)
RemainingAll(k) == subscribers

(* A terminal event ends every stream.                                       *)
Remaining(k) == IF isTerminalRunState(history[k].state) THEN {} ELSE subscribers

(* publish() after its await.                                                *)
FanOut(k) ==
  LET over == isTerminalRunState(history[k].state)
  IN  /\ call[k] = "fanOut"
      /\ Goto(k, "done")
      /\ terminal' = (terminal \/ over)
      /\ seen' = [s \in Subscribers |-> IF s \in subscribers THEN Append(seen[s], k) ELSE seen[s]]
      /\ phase' = [s \in Subscribers |-> IF over /\ s \in subscribers THEN "complete" ELSE phase[s]]
      /\ subscribers' = Remaining(k)
      /\ UNCHANGED <<history, lastState, openAt, joinedOver, store, route, life, lines>>

(* Mutant: the sequence numbers, which count from 0, are used as places. *)
ReplayFromZero == [k \in Calls |-> k - 1]

(* Mutant: only the newest event is replayed. *)
ReplayNewest == IF history = <<>> THEN <<>> ELSE <<Len(history)>>

(* Mutant: the history is read newest first. *)
ReplayNewestFirst == [k \in Calls |-> Len(history) + 1 - k]

(* Mutant: nothing is replayed once the run is over. *)
ReplayWhileRunning == IF terminal THEN <<>> ELSE [k \in Calls |-> k]

(* The whole history, events whose publish() is still waiting included.      *)
Replay == [k \in Calls |-> k]

(* Mutant: a subscriber of a run that is over is registered. *)
RegisterAlways(s) ==
  /\ subscribers' = subscribers \cup {s}
  /\ phase' = [phase EXCEPT ![s] = "open"]

Register(s) ==
  IF terminal
  THEN phase' = [phase EXCEPT ![s] = "complete"] /\ UNCHANGED subscribers
  ELSE /\ subscribers' = subscribers \cup {s}
       /\ phase' = [phase EXCEPT ![s] = "open"]

Subscribe(s) ==
  /\ phase[s] = "new"
  /\ seen' = [seen EXCEPT ![s] = Replay]
  /\ joinedOver' = [joinedOver EXCEPT ![s] = Open]
  /\ Register(s)
  /\ UNCHANGED <<hub, store, route, life, lines>>

(* The connection closes, and the stream's close event unsubscribes.         *)
Disconnect(s) ==
  /\ phase[s] = "open"
  /\ phase' = [phase EXCEPT ![s] = "left"]
  /\ subscribers' = subscribers \ {s}
  /\ UNCHANGED <<hub, seen, joinedOver, store, route, life, lines>>

-----------------------------------------------------------------------------
(* Those who publish *)

(* emitLifecycle(): every step of the job's life is published.               *)
JobStep ==
  /\ \/ Queue!Announce(Job)
     \/ Queue!Start(Job)
     \/ route \notin {"idle", "refused"} /\ Queue!Withdraw(Job)
     \/ Queue!End(Job) /\ life'[Job] \in Outcomes
  /\ Publish(Event(life'[Job], FALSE))
  /\ UNCHANGED <<route, lines>>

WorkerStarted == \E k \in Calls : history[k].state = "running"

(* forwardProgressLines().  Nothing detaches it from the worker's output when
   the job settles: what the process printed before it died may be read after
   the job's terminal event.                                                 *)
Line ==
  /\ WorkerStarted
  /\ lines + faults < MaxTurns
  /\ lines' = lines + 1
  /\ Publish(Event("running", TRUE))
  /\ UNCHANGED <<route, life>>

(* The cancel route of a run without children, until queue.cancel() answers:
   what it awaits before changes nothing.  The queue knows no job before
   enqueue() has announced it; it may answer false for one that is about to
   run, and true for one that ends before its abort is seen.                 *)
CancelAsked ==
  /\ route = "idle"
  /\ \/ route' = "refused"
     \/ ~isTerminalRunState(row) /\ life[Job] # "unknown" /\ route' = "reading"
  /\ UNCHANGED <<hub, clients, store, life, lines>>

(* updateRunById() has read the run and calls the update.                    *)
CancelPersists ==
  /\ route = "reading"
  /\ route' = "persisting"
  /\ Update(Route, "cancelled")
  /\ UNCHANGED <<hub, clients, row, section, faults, missed, life, lines>>

CancelPublishes ==
  /\ route = "persisted"
  /\ route' = "answered"
  /\ Publish(Event("cancelled", FALSE))
  /\ UNCHANGED <<life, lines>>

-----------------------------------------------------------------------------
RouteStep == CancelPersists \/ CancelPublishes

Next == \/ JobStep \/ Line \/ CancelAsked \/ RouteStep \/ MakeWrite
        \/ \E k \in Calls : AfterWrite(k) \/ FanOut(k)
        \/ \E s \in Subscribers : Subscribe(s) \/ Disconnect(s)

(* Pending callbacks run, store calls settle, and the queue brings a job to
   its end, as JobQueue shows.  Nothing is assumed of users and of lines.    *)
Fairness == /\ WF_vars(MakeWrite)
            /\ WF_vars(\E k \in Calls : AfterWrite(k) \/ FanOut(k))
            /\ WF_vars(JobStep /\ life[Job] # "unknown")
            /\ WF_vars(RouteStep)

Spec == Init /\ [][Next]_vars
FairSpec == Spec /\ Fairness

-----------------------------------------------------------------------------
(* Properties *)

Given(s) == {seen[s][i] : i \in DOMAIN seen[s]}
Terminal(k) == isTerminalRunState(history[k].state)

(* Every variable holds what its declaration says. *)
TypeOK ==
  /\ history \in Seq([state : RunStates, section : BOOLEAN])
  /\ DOMAIN call = Calls /\ DOMAIN openAt = Calls
  /\ \A k \in Calls : call[k] \in {"write", "written", "fanOut", "done"} /\ openAt[k] \subseteq 1 .. k - 1
  /\ lastState \in RunStates \cup {"none"} /\ terminal \in BOOLEAN
  /\ subscribers \subseteq Subscribers
  /\ phase \in [Subscribers -> {"new", "open", "complete", "left"}]
  /\ seen \in [Subscribers -> Seq(Calls)]
  /\ joinedOver \in [Subscribers -> SUBSET Calls]
  /\ writes \in Seq([by : Calls \cup {Route}, status : RunStates])
  /\ row \in RunStates /\ section \in Calls \cup {0}
  /\ route \in {"idle", "refused", "reading", "persisting", "persisted", "failed", "answered"}
  /\ life \in [{Job} -> {"unknown", "queued", "running"} \cup TERMINAL_RUN_STATES]
  /\ lines \in 0 .. MaxTurns /\ faults \in 0 .. MaxTurns /\ missed \in BOOLEAN

(* The streams that are open are those of the registered subscribers, and once
   a terminal event has been fanned out there are none (hub.ts 227-244): what
   is published later, a line of a dying worker for one, reaches no ended
   stream and keeps none alive.                                              *)
StreamsEndTogether ==
  /\ subscribers = {s \in Subscribers : phase[s] = "open"}
  /\ terminal => subscribers = {}

(* Joining in the middle of publish() loses nothing: an event is in the
   history or is fanned out later, so an open stream lacks only events whose
   publish() still awaits the store.                                         *)
NothingMissed ==
  \A s \in subscribers, k \in Calls : call[k] = "done" => k \in Given(s)

(* A stream repeats an event at most once, and only one whose publish() was
   awaiting the store when the subscriber joined: it came with the history
   and again with the fan-out.                                               *)
RepeatsOnlyIfJoinedDuring ==
  \A s \in Subscribers : \A k \in Given(s) :
    LET times == {i \in DOMAIN seen[s] : seen[s][i] = k}
    IN  Cardinality(times) <= IF k \in joinedOver[s] THEN 2 ELSE 1

(* An event is given after a newer one only if its publish() was still awaiting
   the store when the newer one was published: apart from such overlaps a
   stream is ordered by sequence.                                            *)
OvertakenOnlyWhileOpen ==
  \A s \in Subscribers :
    \A i, j \in DOMAIN seen[s] :
      i < j /\ seen[s][j] < seen[s][i] => seen[s][j] \in openAt[seen[s][i]]

(* A stream that ended by itself has told the outcome, with everything
   published before it but calls that were awaiting the store at the time.   *)
EndsWithOutcome ==
  \A s \in Subscribers : phase[s] = "complete" =>
    \E t \in Given(s) :
      Terminal(t) /\ \A k \in 1 .. t - 1 : k \in Given(s) \/ k \in openAt[t]

(* Between publishes the run's row says what the newest event says, whoever wrote
   it, the cancel route that writes it directly included, unless the newest
   write rejected: updateStore() swallows that and has noted the state already,
   and the cancel route answers with an error before it publishes.
   In particular a late "running" line takes the row back from its terminal
   status, and nothing corrects it.                                          *)
Quiet == Open = {} /\ writes = <<>> /\ route \notin {"reading", "persisting", "persisted"}
RowFollowsHub == Quiet /\ history # <<>> /\ ~missed => row = lastState

(* The section's row shows the newest line, or one that was overtaken because
   its event changed the run's state and so awaited the run's update first.  *)
SectionIsRecent ==
  Open = {} /\ faults = 0 =>
    \A k \in Calls : history[k].section /\ k > section => section \in openAt[k]

(* The hub keeps the promise of ProgressStream, for all that routes, the queue
   and workers publish; and every stream ends, since every job does.         *)
Stream == INSTANCE ProgressStream
            WITH published <- Len(history), ended <- terminal, got <- [s \in Subscribers |-> Given(s)]
ImplementsStream == Stream!Spec
=============================================================================
