-------------------------- MODULE RunStreamProofs --------------------------
(***************************************************************************)
(* Theorems about RunStream for every set of subscribers, every bound on   *)
(* the overlap of publishes and every number of progress lines and of      *)
(* rejected writes: the properties of the streams and of the rows are      *)
(* parts of one inductive invariant, and every step is one that            *)
(* ProgressStream allows.                                                  *)
(***************************************************************************)
EXTENDS RunStream, FiniteSetTheorems, SequenceTheorems, TLAPS

-----------------------------------------------------------------------------
(* The inductive invariant. *)

CallAt == {"write", "written", "fanOut", "done"}
Events == [state : RunStates, section : BOOLEAN]

(* One publish() call per event, and who overlapped it.                    *)
Shape == /\ TypeOK
         /\ call \in Seq(CallAt) /\ Len(call) = Len(history)
         /\ openAt \in Seq(SUBSET Nat) /\ Len(openAt) = Len(history)

(* A call that is still under way was so whenever a later event came.      *)
Pending == \A m \in Calls : \A k \in 1 .. m - 1 : call[k] # "done" => k \in openAt[m]

(* A run that is over has told so.                                         *)
Over == terminal => \E t \in Calls : Terminal(t)

(* A section whose call has come to its write is the one the row shows, or *)
(* the row shows an older one that was under way when it was published.    *)
Sections ==
  faults = 0 => \A k \in Calls :
    history[k].section /\ call[k] \in {"fanOut", "done"} /\ k > section => section \in openAt[k]

(* A write that was called is waited for, by one call of publish() or by   *)
(* the cancel route.                                                       *)
Waiting ==
  /\ \A i \in 1 .. Len(writes) : IF writes[i].by = Route THEN route = "persisting"
                                 ELSE call[writes[i].by] = "write"
  /\ \A i, j \in 1 .. Len(writes) : writes[i].by = writes[j].by => i = j

(* What the last write will make of the row, or has made of it, is what the *)
(* newest event says, or what the cancel route is about to say.            *)
Agrees(status) == \/ status = lastState
                  \/ route \in {"persisting", "persisted"} /\ status = "cancelled"

Rows ==
  /\ life[Job] = "unknown" =>
       history = <<>> /\ writes = <<>> /\ row = "queued" /\ route \in {"idle", "refused"}
  /\ history = <<>> => lastState = "none"
  /\ \A i \in 1 .. Len(writes) : writes[i].status = "queued" => i = 1 /\ row = "queued"
  /\ writes # <<>> =>
       LET last == writes[Len(writes)]
       IN  Agrees(last.status) /\ (last.by # Route => last.status = lastState)
  /\ writes = <<>> /\ ~missed /\ history # <<>> => Agrees(row)

IInv == /\ Shape
        /\ Pending
        /\ Over
        /\ StreamsEndTogether
        /\ NothingMissed
        /\ OvertakenOnlyWhileOpen
        /\ EndsWithOutcome
        /\ Sections
        /\ Waiting
        /\ Rows

-----------------------------------------------------------------------------
(* Lemmas about the steps that several actions take. *)

LEMMA CallsCount == ASSUME IInv PROVE Len(history) \in Nat /\ Calls = 1 .. Len(history)
BY DEF IInv, Shape, TypeOK, Calls

(* The writes that are waited for. *)
Write == [by : Calls \cup {Route}, status : RunStates]

LEMMA WritesAre ==
  ASSUME IInv
  PROVE  /\ writes \in Seq(Write) /\ Len(writes) \in Nat
         /\ writes # <<>> => Len(writes) > 0
         /\ \A i \in 1 .. Len(writes) :
              writes[i] \in Write /\ writes[i].by \in Calls \cup {Route} /\ writes[i].status \in RunStates
<1>1. writes \in Seq(Write)
  BY DEF IInv, Shape, TypeOK, Write
<1>2. Len(writes) \in Nat /\ (writes # <<>> => Len(writes) > 0)
  BY <1>1
<1>3. \A i \in 1 .. Len(writes) : writes[i] \in Write
  BY <1>1, ElementOfSeq
<1> QED
  BY <1>1, <1>2, <1>3 DEF Write

(* A call moves on: the other calls stay where they are.                   *)
LEMMA GotoMoves ==
  ASSUME IInv, NEW k \in Calls, NEW at \in CallAt, Goto(k, at)
  PROVE  /\ call' \in Seq(CallAt) /\ Len(call') = Len(history)
         /\ call'[k] = at
         /\ \A i \in Calls : i # k => call'[i] = call[i]
<1>1. call \in Seq(CallAt) /\ Len(call) = Len(history) /\ call' = [call EXCEPT ![k] = at]
  BY DEF IInv, Shape, Goto
<1>2. k \in 1 .. Len(call)
  BY <1>1 DEF Calls
<1> QED
  BY <1>1, <1>2, ExceptSeq DEF Calls

(* publish() adds one event and one call, and touches no stream.           *)
LEMMA PublishAdds ==
  ASSUME IInv, NEW event \in Events, Publish(event)
  PROVE  /\ Len(history') = Len(history) + 1
         /\ history' \in Seq(Events) /\ call' \in Seq(CallAt) /\ openAt' \in Seq(SUBSET Nat)
         /\ Len(call') = Len(history') /\ Len(openAt') = Len(history')
         /\ \A i \in Calls : history'[i] = history[i] /\ call'[i] = call[i] /\ openAt'[i] = openAt[i]
         /\ history'[Len(history')] = event
         /\ call'[Len(history')] \in {"write", "fanOut"}
         /\ openAt'[Len(history')] = Open
         /\ UNCHANGED <<terminal, row, missed, subscribers, phase, seen, joinedOver>>
<1>1. /\ history \in Seq(Events) /\ call \in Seq(CallAt) /\ openAt \in Seq(SUBSET Nat)
      /\ Len(call) = Len(history) /\ Len(openAt) = Len(history) /\ Len(history) \in Nat
  BY DEF IInv, Shape, TypeOK, Events
<1>2. Open \in SUBSET Nat
  BY <1>1 DEF Open, Calls
<1>3. \E at \in {"write", "fanOut"} : call' = Append(call, at)
  BY DEF Publish
<1>4. history' = Append(history, event) /\ openAt' = Append(openAt, Open)
      /\ UNCHANGED <<terminal, row, missed, subscribers, phase, seen, joinedOver>>
  BY DEF Publish, clients
<1>5. {"write", "fanOut"} \subseteq CallAt
  BY DEF CallAt
<1> QED
  BY <1>1, <1>2, <1>3, <1>4, <1>5 DEF Calls

(* What publish() keeps, whoever calls it.                                 *)
LEMMA PublishKeeps ==
  ASSUME IInv, NEW event \in Events, Publish(event)
  PROVE  /\ Pending' /\ Over' /\ StreamsEndTogether' /\ NothingMissed'
         /\ OvertakenOnlyWhileOpen' /\ EndsWithOutcome'
<1> DEFINE n == Len(history)
<1>1. n \in Nat /\ Calls = 1 .. n /\ Calls' = 1 .. n + 1
  BY CallsCount, PublishAdds DEF Calls
<1>2. /\ \A i \in Calls : history'[i] = history[i] /\ call'[i] = call[i] /\ openAt'[i] = openAt[i]
      /\ call'[n + 1] # "done" /\ openAt'[n + 1] = Open
      /\ UNCHANGED <<terminal, subscribers, phase, seen>>
  BY PublishAdds
<1> HIDE DEF n
<1>3. \A s \in Subscribers : seen[s] \in Seq(Calls) /\ Given(s)' = Given(s) /\ Given(s) \subseteq Calls
  BY <1>2 DEF Given, IInv, Shape, TypeOK
<1>4. Pending'
  BY <1>1, <1>2 DEF Pending, IInv, Open
<1>5. Over'
  BY <1>1, <1>2 DEF Over, IInv, Terminal
<1>6. StreamsEndTogether'
  BY <1>2 DEF StreamsEndTogether, IInv
<1>7. NothingMissed'
  BY <1>1, <1>2, <1>3 DEF NothingMissed, IInv, StreamsEndTogether
<1>8. OvertakenOnlyWhileOpen'
  <2>1. \A s \in Subscribers : \A i \in DOMAIN seen[s] : seen[s][i] \in Calls
    BY <1>3
  <2> QED
    BY <1>2, <2>1 DEF OvertakenOnlyWhileOpen, IInv
<1>9. EndsWithOutcome'
  <2>1. \A s \in Subscribers : \A t \in Given(s) :
          t \in 1 .. n /\ Terminal(t)' = Terminal(t) /\ openAt'[t] = openAt[t]
    BY <1>1, <1>2, <1>3 DEF Terminal
  <2> QED
    BY <1>2, <1>3, <2>1 DEF EndsWithOutcome, IInv
<1> QED
  BY <1>4, <1>5, <1>6, <1>7, <1>8, <1>9

LEMMA PublishTyped ==
  ASSUME IInv, NEW event \in Events, Publish(event), lines' \in 0 .. MaxTurns,
         route' \in {"idle", "refused", "reading", "persisting", "persisted", "failed", "answered"},
         life' \in [{Job} -> {"unknown", "queued", "running"} \cup TERMINAL_RUN_STATES]
  PROVE  Shape'
<1> DEFINE n == Len(history)
<1>1. n \in Nat /\ Calls = 1 .. n /\ Calls' = 1 .. n + 1
  BY CallsCount, PublishAdds DEF Calls
<1>2. /\ history' \in Seq(Events) /\ call' \in Seq(CallAt) /\ openAt' \in Seq(SUBSET Nat)
      /\ Len(call') = n + 1 /\ Len(openAt') = n + 1
      /\ \A i \in 1 .. n : openAt'[i] = openAt[i]
      /\ openAt'[n + 1] = Open
      /\ UNCHANGED <<terminal, row, missed, subscribers, phase, seen, joinedOver>>
  BY <1>1, PublishAdds
<1>3. lastState' \in RunStates
  BY DEF Publish, Events
<1>4. section' \in Calls' \cup {0} /\ faults' \in 0 .. MaxTurns
  <2>1. \/ UNCHANGED <<section, faults>>
        \/ RecordSection(n + 1)
    BY DEF Publish
  <2>2. section \in Calls \cup {0} /\ faults \in 0 .. MaxTurns /\ lines \in 0 .. MaxTurns /\ MaxTurns \in Nat
    BY RunStreamAssumption DEF IInv, Shape, TypeOK
  <2> QED
    BY <1>1, <2>1, <2>2 DEF RecordSection, Reject
<1>5. writes' \in Seq([by : Calls' \cup {Route}, status : RunStates])
  <2> DEFINE W == [by : Calls' \cup {Route}, status : RunStates]
  <2>1. writes \in Seq(W)
    <3>1. [by : Calls \cup {Route}, status : RunStates] \subseteq W
      BY <1>1
    <3> QED
      BY <3>1, SeqMonotonic DEF IInv, Shape, TypeOK
  <2>2. [by |-> n + 1, status |-> event.state] \in W
    BY <1>1 DEF Events
  <2>3. \/ UNCHANGED writes
        \/ writes' = Append(writes, [by |-> n + 1, status |-> event.state])
    BY DEF Publish, Update
  <2> HIDE DEF W
  <2>4. writes' \in Seq(W)
    BY <2>1, <2>2, <2>3
  <2> QED
    BY <2>4 DEF W
<1>6. /\ seen' \in [Subscribers -> Seq(Calls')]
      /\ joinedOver' \in [Subscribers -> SUBSET Calls']
  <2>1. \A q \in Seq(Calls) : q \in Seq(Calls')
    BY <1>1, SeqMonotonic
  <2> QED
    BY <1>1, <1>2, <2>1 DEF IInv, Shape, TypeOK
<1>7. /\ DOMAIN call' = Calls' /\ DOMAIN openAt' = Calls'
      /\ \A k \in Calls' : call'[k] \in CallAt /\ openAt'[k] \subseteq 1 .. k - 1
  <2>1. \A k \in 1 .. n : openAt[k] \subseteq 1 .. k - 1
    BY <1>1 DEF IInv, Shape, TypeOK
  <2>2. Open \subseteq 1 .. n
    BY <1>1 DEF Open
  <2> QED
    BY <1>1, <1>2, <2>1, <2>2
<1>8. terminal' \in BOOLEAN /\ row' \in RunStates /\ missed' \in BOOLEAN
      /\ subscribers' \subseteq Subscribers
      /\ phase' \in [Subscribers -> {"new", "open", "complete", "left"}]
  BY <1>2 DEF IInv, Shape, TypeOK
<1>9. Len(history') = n + 1
  BY PublishAdds
<1> QED
  BY <1>1, <1>2, <1>3, <1>4, <1>5, <1>6, <1>7, <1>8, <1>9 DEF Shape, TypeOK, Events, CallAt

(* An event that needs no update of the run is recorded at once, so that no *)
(* newer one can have been.                                                *)
LEMMA PublishRecords ==
  ASSUME IInv, NEW event \in Events, Publish(event)
  PROVE  Sections'
<1> DEFINE n == Len(history)
<1>1. n \in Nat /\ Calls = 1 .. n /\ Calls' = 1 .. n + 1
  BY CallsCount, PublishAdds DEF Calls
<1>2. /\ \A i \in 1 .. n : history'[i] = history[i] /\ call'[i] = call[i] /\ openAt'[i] = openAt[i]
      /\ history'[n + 1] = event
  BY <1>1, PublishAdds
<1>3. faults \in Nat
  BY DEF IInv, Shape, TypeOK
<1>4. SUFFICES ASSUME faults' = 0, NEW k \in Calls', history'[k].section,
                      call'[k] \in {"fanOut", "done"}, k > section'
               PROVE  section' \in openAt'[k]
  BY DEF Sections
<1>5. CASE section' = n + 1
  BY <1>1, <1>4, <1>5
<1>6. CASE UNCHANGED section /\ k # n + 1
  <2>1. faults = 0
    BY <1>3, <1>4 DEF Publish, RecordSection, Reject
  <2> QED
    BY <1>1, <1>2, <1>4, <1>6, <2>1 DEF IInv, Sections
<1>7. CASE k = n + 1 /\ section' # n + 1
  <2>1. event.section
    BY <1>2, <1>4, <1>7
  <2>2. call'[n + 1] = "fanOut"
    <3>1. call'[n + 1] \in {"write", "fanOut"}
      BY PublishAdds
    <3> QED
      BY <1>4, <1>7, <3>1
  <2>3. call' # Append(call, "write")
    <3>1. call \in Seq(CallAt) /\ Len(call) = n
      BY DEF IInv, Shape
    <3>2. Append(call, "write")[n + 1] = "write"
      BY <1>1, <3>1
    <3> QED
      BY <2>2, <3>2
  <2>4. RecordSection(n + 1)
    BY <2>1, <2>3 DEF Publish
  <2> QED
    BY <1>3, <1>4, <1>7, <2>4 DEF RecordSection, Reject
<1>8. section' = section \/ section' = n + 1
  BY DEF Publish, RecordSection
<1> QED
  BY <1>5, <1>6, <1>7, <1>8

(* A changed state is written last, unless the row has it or will have it. *)
LEMMA PublishWrites ==
  ASSUME IInv, NEW event \in Events, Publish(event),
         event.state = "queued" => life[Job] = "unknown",
         life'[Job] # "unknown",
         \/ UNCHANGED route
         \/ route = "persisted" /\ route' = "answered" /\ event.state = "cancelled"
  PROVE  Waiting' /\ Rows'
<1> DEFINE n == Len(history)
           m == Len(writes)
<1>1. /\ n \in Nat /\ Calls = 1 .. n /\ m \in Nat
      /\ \A i \in 1 .. m : writes[i].by \in Calls \cup {0} /\ writes[i].status \in RunStates
  BY CallsCount, WritesAre DEF Route
<1>2. /\ \A i \in 1 .. n : call'[i] = call[i]
      /\ UNCHANGED <<row, missed>> /\ lastState' = event.state
      /\ history' # <<>> /\ Len(call') = n + 1
  <2>1. history' = Append(history, event)
    BY DEF Publish
  <2>2. Len(history') = n + 1 /\ n + 1 # 0
    BY <1>1, PublishAdds
  <2> QED
    BY <1>1, <2>2, PublishAdds DEF Publish
<1>3. CASE writes' = Append(writes, [by |-> n + 1, status |-> event.state]) /\ call' = Append(call, "write")
  <2>1. /\ Len(writes') = m + 1
        /\ \A i \in 1 .. m : writes'[i] = writes[i]
        /\ writes'[m + 1] = [by |-> n + 1, status |-> event.state]
        /\ writes' # <<>>
    <3>1. writes \in Seq(Write)
      BY WritesAre
    <3> QED
      BY <1>1, <1>3, <3>1
  <2>2. call'[n + 1] = "write"
    <3>1. call \in Seq(CallAt) /\ Len(call) = n
      BY DEF IInv, Shape
    <3>2. Append(call, "write")[Len(call) + 1] = "write"
      BY <3>1
    <3> QED
      BY <1>3, <3>1, <3>2
  <2>3. Waiting'
    <3> HIDE DEF n, m
    <3>1. \A i \in 1 .. m + 1 : i \in 1 .. m \/ i = m + 1
      BY <1>1
    <3>2. \A i \in 1 .. m : /\ writes'[i].by \in 0 .. n
                            /\ IF writes'[i].by = 0 THEN route = "persisting" ELSE call[writes'[i].by] = "write"
      BY <1>1, <2>1 DEF IInv, Waiting, Route, m
    <3>3. writes'[m + 1].by = n + 1
      BY <2>1
    <3>4. \A i \in 1 .. m + 1 :
            IF writes'[i].by = 0 THEN route' = "persisting" ELSE call'[writes'[i].by] = "write"
      BY <1>1, <1>2, <2>2, <3>1, <3>2, <3>3
    <3>5. \A i, j \in 1 .. m + 1 : writes'[i].by = writes'[j].by => i = j
      BY <1>1, <2>1, <3>1, <3>2, <3>3 DEF IInv, Waiting, m
    <3> QED
      BY <2>1, <3>4, <3>5 DEF Waiting, Route
  <2>4. m = 0 \/ event.state # "queued"
    BY <1>1 DEF IInv, Rows
  <2>5. event.state = "queued" => row = "queued"
    BY DEF IInv, Rows
  <2> QED
    BY <1>1, <1>2, <2>1, <2>3, <2>4, <2>5 DEF IInv, Rows, Agrees, Route
<1>4. CASE UNCHANGED writes /\ lastState = event.state
  <2>1. Waiting'
    BY <1>1, <1>2, <1>4 DEF IInv, Waiting, Route
  <2>2. history # <<>>
    BY <1>4 DEF IInv, Rows, Events, RunStates, TERMINAL_RUN_STATES
  <2>3. \A status : Agrees(status) => Agrees(status)'
    BY <1>2, <1>4 DEF Agrees
  <2> QED
    BY <1>2, <1>4, <2>1, <2>2, <2>3 DEF IInv, Rows
<1> QED
  BY <1>3, <1>4 DEF Publish, Update, StateChanged

-----------------------------------------------------------------------------
(* Each action keeps the invariant. *)

LEMMA PublishersKeep ==
  ASSUME IInv, JobStep \/ Line \/ CancelPublishes
  PROVE  IInv'
<1>1. \E event \in Events :
        /\ Publish(event)
        /\ lines' \in 0 .. MaxTurns
        /\ route' \in {"idle", "refused", "reading", "persisting", "persisted", "failed", "answered"}
        /\ life' \in [{Job} -> {"unknown", "queued", "running"} \cup TERMINAL_RUN_STATES]
        /\ event.state = "queued" => life[Job] = "unknown"
        /\ life'[Job] # "unknown"
        /\ \/ UNCHANGED route
           \/ route = "persisted" /\ route' = "answered" /\ event.state = "cancelled"
  <2> DEFINE LifeStates == {"unknown", "queued", "running"} \cup TERMINAL_RUN_STATES
  <2>1. /\ lines \in 0 .. MaxTurns /\ faults \in Nat /\ MaxTurns \in Nat
        /\ route \in {"idle", "refused", "reading", "persisting", "persisted", "failed", "answered"}
        /\ life \in [{Job} -> LifeStates]
    BY RunStreamAssumption DEF IInv, Shape, TypeOK
  <2>2. \A state \in RunStates, b \in BOOLEAN : Event(state, b) \in Events /\ Event(state, b).state = state
    BY DEF Event, Events
  <2>3. CASE JobStep
    <3>1. /\ life' \in [{Job} -> LifeStates] /\ life'[Job] \in RunStates
          /\ life'[Job] = "queued" => life[Job] = "unknown"
      <4>1. \E state \in RunStates : life' = [life EXCEPT ![Job] = state] /\ (state = "queued" => life[Job] = "unknown")
        BY <2>3 DEF JobStep, Queue!Announce, Queue!Start, Queue!Withdraw, Queue!End, Queue!Become,
                    Queue!Terminal, RunStates, TERMINAL_RUN_STATES
      <4> QED
        BY <2>1, <4>1 DEF RunStates
    <3>2. Publish(Event(life'[Job], FALSE)) /\ UNCHANGED <<route, lines>>
      BY <2>3 DEF JobStep
    <3>3. life'[Job] # "unknown"
      BY <3>1 DEF RunStates, TERMINAL_RUN_STATES
    <3> QED
      BY <2>1, <2>2, <3>1, <3>2, <3>3
  <2>4. CASE Line
    <3>1. lines' \in 0 .. MaxTurns /\ UNCHANGED <<route, life>>
      BY <2>1, <2>4 DEF Line
    <3>2. life[Job] # "unknown"
      BY <2>4, CallsCount DEF Line, WorkerStarted, IInv, Rows
    <3>3. "running" \in RunStates /\ "running" # "queued"
      BY DEF RunStates
    <3>4. Publish(Event("running", TRUE))
      BY <2>4 DEF Line
    <3> QED
      BY <2>1, <2>2, <3>1, <3>2, <3>3, <3>4
  <2>5. CASE CancelPublishes
    BY <2>1, <2>2, <2>5 DEF CancelPublishes, RunStates, TERMINAL_RUN_STATES, IInv, Rows
  <2> QED
    BY <2>3, <2>4, <2>5
<1> QED
  BY <1>1, PublishKeeps, PublishTyped, PublishRecords, PublishWrites DEF IInv

LEMMA MakeWriteKeeps ==
  ASSUME IInv, MakeWrite
  PROVE  IInv'
<1>0. PICK w, m : w = writes[1] /\ m = Len(writes)
  OBVIOUS
<1> USE DEF clients
<1>1. /\ m \in Nat /\ m > 0 /\ w \in Write /\ NextWrite = w
      /\ writes' \in Seq(Write) /\ Len(writes') = m - 1
      /\ \A i \in 1 .. m - 1 : writes'[i] = writes[i + 1]
  <2>1. writes \in Seq(Write) /\ writes # <<>> /\ writes' = Tail(writes)
    BY WritesAre DEF MakeWrite
  <2>2. Head(writes) = writes[1] /\ m > 0 /\ 1 \in 1 .. m
    BY <1>0, <2>1, WritesAre
  <2> QED
    BY <1>0, <2>1, <2>2, WritesAre DEF NextWrite
<1>2. /\ UNCHANGED <<history, lastState, terminal, openAt, subscribers, phase, seen, joinedOver, section, life, lines>>
      /\ \/ row' = StatusAfter(w.status) /\ missed' = FALSE /\ Settle(w.by, TRUE) /\ UNCHANGED faults
         \/ Reject /\ missed' = TRUE /\ Settle(w.by, FALSE) /\ row' \in {row, StatusAfter(w.status)}
  BY <1>1 DEF MakeWrite
<1>3. w.by \in Calls \cup {0} /\ w.status \in RunStates
  BY <1>1 DEF Write, Route
<1>4. IF w.by = Route THEN route = "persisting" ELSE call[w.by] = "write"
  BY <1>0, <1>1 DEF IInv, Waiting
<1>5. /\ call' \in Seq(CallAt) /\ Len(call') = Len(history)
      /\ \A k \in Calls : k # w.by => call'[k] = call[k]
      /\ w.by # Route => call'[w.by] \in {"written", "fanOut"} /\ (call'[w.by] = "fanOut" => faults' = faults + 1)
      /\ w.by # Route => UNCHANGED route
      /\ w.by = Route => call' = call /\ (route' = "persisted" \/ (route' = "failed" /\ missed'))
  <2>1. CASE w.by = Route
    BY <1>2, <2>1 DEF Settle, IInv, Shape
  <2>2. CASE w.by # Route
    <3>1. w.by \in Calls
      BY <1>3, <2>2 DEF Route
    <3>2. PICK at \in {"written", "fanOut"} :
            Goto(w.by, at) /\ UNCHANGED route /\ (at = "fanOut" => faults' = faults + 1)
      BY <1>2, <2>2 DEF Settle, Reject
    <3>3. at \in CallAt
      BY DEF CallAt
    <3> QED
      BY <2>2, <3>1, <3>2, <3>3, GotoMoves
  <2> QED
    BY <2>1, <2>2
<1>6. Calls' = Calls /\ Len(history) \in Nat /\ Calls = 1 .. Len(history)
  BY <1>2, CallsCount DEF Calls
<1>7. faults \in Nat /\ faults' \in 0 .. MaxTurns
  <2>1. faults \in 0 .. MaxTurns /\ lines \in 0 .. MaxTurns /\ MaxTurns \in Nat
    BY RunStreamAssumption DEF IInv, Shape, TypeOK
  <2>2. faults' = faults \/ (faults' = faults + 1 /\ lines + faults < MaxTurns)
    BY <1>2 DEF Reject
  <2> QED
    BY <2>1, <2>2
<1>8. Shape'
  <2>1. row' \in RunStates /\ missed' \in BOOLEAN
    BY <1>2, <1>3 DEF StatusAfter, IInv, Shape, TypeOK
  <2>2. DOMAIN call' = Calls' /\ \A k \in Calls : call'[k] \in CallAt
    BY <1>5, <1>6
  <2>3. route' \in {"idle", "refused", "reading", "persisting", "persisted", "failed", "answered"}
    BY <1>5 DEF IInv, Shape, TypeOK
  <2>4. writes' \in Seq([by : Calls' \cup {Route}, status : RunStates])
    BY <1>1, <1>6 DEF Write
  <2> QED
    BY <1>2, <1>5, <1>6, <1>7, <2>1, <2>2, <2>3, <2>4 DEF IInv, Shape, TypeOK, CallAt
<1>9. Pending' /\ NothingMissed' /\ Sections'
  <2>1. \A k \in Calls : (call'[k] = "done" <=> call[k] = "done")
    <3>1. ASSUME NEW k \in Calls, k = w.by
          PROVE  call'[k] # "done" /\ call[k] # "done"
      BY <1>4, <1>5, <1>6, <3>1 DEF Route
    <3> QED
      BY <1>5, <3>1
  <2>2. \A s : Given(s)' = Given(s)
    <3>1. seen' = seen
      BY <1>2
    <3> QED
      BY <3>1 DEF Given
  <2>3. faults' = 0 => faults = 0
    <3>1. faults' = faults \/ faults' = faults + 1
      BY <1>2 DEF Reject
    <3> QED
      BY <1>7, <3>1
  <2>4. \A k \in Calls : faults' = 0 /\ call'[k] \in {"fanOut", "done"} => call[k] \in {"fanOut", "done"}
    <3>1. ASSUME NEW k \in Calls, k = w.by, faults' = 0
          PROVE  call'[k] \notin {"fanOut", "done"}
      BY <1>5, <1>6, <1>7, <3>1 DEF Route
    <3> QED
      BY <1>5, <3>1
  <2> QED
    BY <1>2, <1>6, <2>1, <2>2, <2>3, <2>4 DEF IInv, Pending, NothingMissed, Sections
<1>10. Over' /\ StreamsEndTogether' /\ OvertakenOnlyWhileOpen' /\ EndsWithOutcome'
  BY <1>2, <1>6 DEF IInv, Over, StreamsEndTogether, OvertakenOnlyWhileOpen, EndsWithOutcome, Given, Terminal
<1>11. Waiting'
  <2>1. \A i \in 1 .. m - 1 : i + 1 \in 1 .. m /\ i + 1 # 1 /\ writes[i + 1].by # w.by
                              /\ writes[i + 1].by \in Calls \cup {0}
    <3>1. \A i \in 1 .. m - 1 : i + 1 \in 1 .. m /\ 1 \in 1 .. m /\ i + 1 # 1
      BY <1>1
    <3>2. \A i \in 1 .. m : writes[i].by \in Calls \cup {0}
      BY <1>0, WritesAre DEF Route
    <3> QED
      BY <1>0, <3>1, <3>2 DEF IInv, Waiting
  <2> QED
    BY <1>0, <1>1, <1>5, <2>1 DEF IInv, Waiting, Route
<1>12. Rows'
  <2>1. row' # row => row' = w.status
    BY <1>2 DEF StatusAfter
  <2>2. w.status = "queued" => row = "queued"
    BY <1>0, <1>1 DEF IInv, Rows
  <2>3. \A i \in 1 .. m - 1 : writes'[i].status # "queued"
    BY <1>0, <1>1 DEF IInv, Rows
  <2>4. life[Job] # "unknown"
    BY <1>1 DEF IInv, Rows, MakeWrite
  <2>5. \A status : Agrees(status) /\ w.by # Route => Agrees(status)'
    BY <1>2, <1>5 DEF Agrees
  <2>6. CASE m = 1
    <3>1. writes' = <<>>
      BY <1>1, <2>6, EmptySeq
    <3>2. Agrees(w.status) /\ (w.by # Route => w.status = lastState)
      <4>1. writes # <<>> /\ w = writes[Len(writes)]
        BY <1>0, <2>6 DEF MakeWrite
      <4> QED
        BY <4>1 DEF IInv, Rows
    <3>3. ~missed' => row' = w.status
      BY <1>2, <2>2 DEF StatusAfter
    <3>4. ~missed' => Agrees(w.status)'
      BY <1>2, <1>4, <1>5, <3>2 DEF Agrees
    <3> QED
      BY <1>1, <1>2, <2>3, <2>4, <2>6, <3>1, <3>3, <3>4 DEF IInv, Rows
  <2>7. CASE m > 1
    <3>1. /\ writes' # <<>> /\ Len(writes') = m - 1 /\ writes'[m - 1] = writes[m]
      BY <1>1, <2>7
    <3>2. writes[m].by # w.by
      BY <1>0, <1>1, <2>7 DEF IInv, Waiting
    <3>3. PICK last : last = writes[m] /\ Agrees(last.status) /\ (last.by # Route => last.status = lastState)
      BY <1>0, <1>1 DEF IInv, Rows
    <3>4. Agrees(last.status)'
      BY <1>2, <1>5, <2>5, <3>2, <3>3 DEF Agrees
    <3> QED
      BY <1>1, <1>2, <2>3, <2>4, <3>1, <3>3, <3>4 DEF IInv, Rows
  <2> QED
    BY <1>1, <2>6, <2>7
<1> QED
  BY <1>8, <1>9, <1>10, <1>11, <1>12 DEF IInv

LEMMA AfterWriteKeeps ==
  ASSUME IInv, NEW k \in Calls, AfterWrite(k)
  PROVE  IInv'
<1> USE DEF clients
<1>1. /\ call[k] = "written"
      /\ call' \in Seq(CallAt) /\ Len(call') = Len(history) /\ call'[k] = "fanOut"
      /\ \A i \in Calls : i # k => call'[i] = call[i]
  <2>1. "fanOut" \in CallAt
    BY DEF CallAt
  <2> QED
    BY <2>1, GotoMoves DEF AfterWrite
<1>2. UNCHANGED <<history, lastState, terminal, openAt, subscribers, phase, seen, joinedOver,
                  writes, row, missed, route, life, lines>>
  BY DEF AfterWrite
<1>3. Calls' = Calls /\ Len(history) \in Nat /\ Calls = 1 .. Len(history)
  BY <1>2, CallsCount DEF Calls
<1>4. /\ faults \in Nat /\ faults' \in 0 .. MaxTurns
      /\ faults' = 0 => faults = 0 /\ section' = IF history[k].section THEN k ELSE section
      /\ section' = section \/ section' = k
  <2>1. faults \in 0 .. MaxTurns /\ lines \in 0 .. MaxTurns /\ MaxTurns \in Nat
    BY RunStreamAssumption DEF IInv, Shape, TypeOK
  <2> QED
    BY <2>1 DEF AfterWrite, RecordSection, Reject
<1>5. Shape'
  <2>1. DOMAIN call' = Calls' /\ \A i \in Calls : call'[i] \in CallAt
    BY <1>1, <1>3
  <2> QED
    BY <1>1, <1>2, <1>3, <1>4, <2>1 DEF IInv, Shape, TypeOK, CallAt
<1>6. \A i \in Calls : (call'[i] = "done" <=> call[i] = "done") /\ (call[i] = "write" => call'[i] = "write")
  BY <1>1
<1>7. \A s : Given(s)' = Given(s)
  BY <1>2 DEF Given
<1>8. Pending' /\ NothingMissed' /\ Over' /\ StreamsEndTogether' /\ OvertakenOnlyWhileOpen' /\ EndsWithOutcome'
  BY <1>2, <1>3, <1>6, <1>7 DEF IInv, Pending, NothingMissed, Over, StreamsEndTogether,
                                OvertakenOnlyWhileOpen, EndsWithOutcome, Terminal
<1>9. Sections'
  <2>1. SUFFICES ASSUME faults' = 0, NEW i \in Calls, history[i].section,
                        call'[i] \in {"fanOut", "done"}, i > section'
                 PROVE  section' \in openAt[i]
    BY <1>2, <1>3 DEF Sections
  <2>2. CASE history[k].section
    <3>1. section' = k /\ k \in 1 .. i - 1
      BY <1>3, <1>4, <2>1, <2>2
    <3> QED
      BY <1>1, <3>1 DEF IInv, Pending
  <2>3. CASE ~history[k].section
    BY <1>1, <1>4, <2>1, <2>3 DEF IInv, Sections
  <2> QED
    BY <2>2, <2>3
<1>10. Waiting'
  <2>1. \A i \in 1 .. Len(writes) : writes[i].by # Route => writes[i].by \in Calls
    BY WritesAre
  <2> QED
    BY <1>2, <1>6, <2>1 DEF IInv, Waiting
<1>11. Rows'
  BY <1>2 DEF IInv, Rows, Agrees
<1> QED
  BY <1>5, <1>8, <1>9, <1>10, <1>11 DEF IInv

LEMMA FanOutKeeps ==
  ASSUME IInv, NEW k \in Calls, FanOut(k)
  PROVE  IInv'
<1> USE DEF store
<1> DEFINE over == isTerminalRunState(history[k].state)
<1>1. /\ call[k] = "fanOut"
      /\ call' \in Seq(CallAt) /\ Len(call') = Len(history) /\ call'[k] = "done"
      /\ \A i \in Calls : i # k => call'[i] = call[i]
  <2>1. "done" \in CallAt
    BY DEF CallAt
  <2> QED
    BY <2>1, GotoMoves DEF FanOut
<1>2. /\ UNCHANGED <<history, lastState, openAt, joinedOver, writes, row, section, faults, missed,
                     route, life, lines>>
      /\ terminal' = (terminal \/ over)
      /\ seen' = [s \in Subscribers |-> IF s \in subscribers THEN Append(seen[s], k) ELSE seen[s]]
      /\ phase' = [s \in Subscribers |-> IF over /\ s \in subscribers THEN "complete" ELSE phase[s]]
      /\ subscribers' = IF over THEN {} ELSE subscribers
  BY DEF FanOut, Remaining
<1> HIDE DEF over
<1>3. Calls' = Calls /\ Len(history) \in Nat /\ Calls = 1 .. Len(history)
  BY <1>2, CallsCount DEF Calls
<1>4. \A s \in Subscribers : /\ seen[s] \in Seq(Calls) /\ seen'[s] \in Seq(Calls)
                             /\ s \notin subscribers => seen'[s] = seen[s]
  BY <1>2 DEF IInv, Shape, TypeOK
<1>5. \A s \in subscribers :
        /\ DOMAIN seen[s] = 1 .. Len(seen[s]) /\ Len(seen[s]) \in Nat
        /\ DOMAIN seen'[s] = 1 .. Len(seen[s]) + 1
        /\ \A i \in 1 .. Len(seen[s]) : seen'[s][i] = seen[s][i] /\ seen[s][i] \in Calls
        /\ seen'[s][Len(seen[s]) + 1] = k
        /\ Given(s)' = Given(s) \cup {k}
  <2>1. TAKE s \in subscribers
  <2>2. seen'[s] = Append(seen[s], k) /\ seen[s] \in Seq(Calls)
    BY <1>2, <1>4 DEF IInv, Shape, TypeOK
  <2>3. /\ DOMAIN seen[s] = 1 .. Len(seen[s]) /\ Len(seen[s]) \in Nat
        /\ DOMAIN seen'[s] = 1 .. Len(seen[s]) + 1
        /\ \A i \in 1 .. Len(seen[s]) : seen'[s][i] = seen[s][i] /\ seen[s][i] \in Calls
        /\ seen'[s][Len(seen[s]) + 1] = k
    BY <2>2
  <2>4. Given(s)' = Given(s) \cup {k}
    BY <2>3 DEF Given
  <2> QED
    BY <2>3, <2>4
<1>6. \A s \in Subscribers : s \notin subscribers => Given(s)' = Given(s)
  BY <1>4 DEF Given
<1>7. Shape'
  <2>1. DOMAIN call' = Calls' /\ \A i \in Calls : call'[i] \in CallAt
    BY <1>1, <1>3
  <2>2. seen' \in [Subscribers -> Seq(Calls)]
    BY <1>2, <1>4
  <2>3. /\ phase' \in [Subscribers -> {"new", "open", "complete", "left"}]
        /\ terminal' \in BOOLEAN /\ subscribers' \subseteq Subscribers
    BY <1>2 DEF IInv, Shape, TypeOK, over, isTerminalRunState
  <2> QED
    BY <1>1, <1>2, <1>3, <2>1, <2>2, <2>3 DEF IInv, Shape, TypeOK, CallAt
<1>8. Pending' /\ Sections' /\ Over' /\ StreamsEndTogether'
  <2>1. Pending'
    BY <1>1, <1>2, <1>3 DEF IInv, Pending
  <2>2. Sections'
    BY <1>1, <1>2, <1>3 DEF IInv, Sections
  <2>3. Over'
    BY <1>2, <1>3 DEF IInv, Over, Terminal, over
  <2>4. StreamsEndTogether'
    BY <1>2 DEF IInv, StreamsEndTogether, Shape, TypeOK
  <2> QED
    BY <2>1, <2>2, <2>3, <2>4
<1>9. NothingMissed'
  <2>1. SUFFICES ASSUME NEW s \in subscribers', NEW i \in Calls, call'[i] = "done"
                 PROVE  i \in Given(s)'
    BY <1>3 DEF NothingMissed
  <2>2. s \in subscribers
    BY <1>2, <2>1
  <2>3. i = k \/ i \in Given(s)
    BY <1>1, <2>1, <2>2 DEF IInv, NothingMissed
  <2> QED
    BY <1>5, <2>2, <2>3
<1>10. OvertakenOnlyWhileOpen'
  <2>1. SUFFICES ASSUME NEW s \in Subscribers, NEW i \in DOMAIN seen'[s], NEW j \in DOMAIN seen'[s],
                        i < j, seen'[s][j] < seen'[s][i]
                 PROVE  seen'[s][j] \in openAt[seen'[s][i]]
    BY <1>2 DEF OvertakenOnlyWhileOpen
  <2>2. CASE s \notin subscribers
    BY <1>4, <2>1, <2>2 DEF IInv, OvertakenOnlyWhileOpen
  <2>3. CASE s \in subscribers /\ j \in 1 .. Len(seen[s])
    BY <1>5, <2>1, <2>3 DEF IInv, OvertakenOnlyWhileOpen
  <2>4. CASE s \in subscribers /\ j = Len(seen[s]) + 1
    <3>1. i \in 1 .. Len(seen[s])
      BY <1>5, <2>1, <2>4
    <3>2. seen'[s][i] \in Calls /\ seen'[s][j] = k
      BY <1>5, <2>4, <3>1
    <3>3. k \in 1 .. seen'[s][i] - 1
      BY <1>3, <2>1, <3>2
    <3> QED
      BY <1>1, <3>2, <3>3 DEF IInv, Pending
  <2> QED
    BY <1>5, <2>1, <2>2, <2>3, <2>4
<1>11. EndsWithOutcome'
  <2>1. SUFFICES ASSUME NEW s \in Subscribers, phase'[s] = "complete"
                 PROVE  \E t \in Given(s)' :
                          Terminal(t) /\ \A i \in 1 .. t - 1 : i \in Given(s)' \/ i \in openAt[t]
    BY <1>2 DEF EndsWithOutcome, Terminal
  <2>2. CASE s \in subscribers
    <3>1. phase[s] = "open"
      BY <2>2 DEF IInv, StreamsEndTogether
    <3>2. Terminal(k)
      BY <1>2, <2>1, <3>1 DEF Terminal, over
    <3>3. \A i \in 1 .. k - 1 : i \in Calls /\ (i \in Given(s) \/ call[i] # "done")
      BY <1>3, <2>2 DEF IInv, NothingMissed
    <3>4. \A i \in 1 .. k - 1 : i \in Given(s)' \/ i \in openAt[k]
      BY <1>5, <2>2, <3>3 DEF IInv, Pending
    <3> QED
      BY <1>5, <2>2, <3>2, <3>4
  <2>3. CASE s \notin subscribers
    BY <1>2, <1>6, <2>1, <2>3 DEF IInv, EndsWithOutcome
  <2> QED
    BY <2>2, <2>3
<1>12. Waiting'
  <2>1. \A i \in 1 .. Len(writes) : writes[i].by # Route => writes[i].by \in Calls
    BY WritesAre
  <2> QED
    BY <1>1, <1>2, <2>1 DEF IInv, Waiting
<1>13. Rows'
  BY <1>2 DEF IInv, Rows, Agrees
<1> QED
  BY <1>7, <1>8, <1>9, <1>10, <1>11, <1>12, <1>13 DEF IInv

LEMMA SubscribeKeeps ==
  ASSUME IInv, NEW s \in Subscribers, Subscribe(s)
  PROVE  IInv'
<1> USE DEF hub, store
<1>1. /\ UNCHANGED <<history, call, lastState, terminal, openAt, writes, row, section, faults, missed,
                     route, life, lines>>
      /\ phase[s] = "new"
      /\ seen' = [seen EXCEPT ![s] = Replay] /\ joinedOver' = [joinedOver EXCEPT ![s] = Open]
      /\ \/ terminal /\ phase' = [phase EXCEPT ![s] = "complete"] /\ UNCHANGED subscribers
         \/ ~terminal /\ phase' = [phase EXCEPT ![s] = "open"] /\ subscribers' = subscribers \cup {s}
  BY DEF Subscribe, Register
<1>2. Calls' = Calls /\ Len(history) \in Nat /\ Calls = 1 .. Len(history)
  BY <1>1, CallsCount DEF Calls
<1>3. Replay \in Seq(Calls) /\ DOMAIN Replay = Calls /\ \A i \in Calls : Replay[i] = i
  BY <1>2 DEF Replay
<1>4. /\ seen'[s] = Replay /\ \A d \in Subscribers : d # s => seen'[d] = seen[d] /\ phase'[d] = phase[d]
      /\ phase'[s] = IF terminal THEN "complete" ELSE "open"
  BY <1>1 DEF IInv, Shape, TypeOK
<1>5. /\ Given(s)' = Calls
      /\ \A d \in Subscribers : d # s => Given(d)' = Given(d)
  BY <1>3, <1>4 DEF Given
<1>6. Shape'
  <2>1. /\ seen' \in [Subscribers -> Seq(Calls)]
        /\ phase' \in [Subscribers -> {"new", "open", "complete", "left"}]
        /\ subscribers' \subseteq Subscribers
    BY <1>1, <1>3 DEF IInv, Shape, TypeOK
  <2>2. joinedOver' \in [Subscribers -> SUBSET Calls]
    BY <1>1 DEF IInv, Shape, TypeOK, Open
  <2> QED
    BY <1>1, <1>2, <2>1, <2>2 DEF IInv, Shape, TypeOK
<1>7. Pending' /\ Sections' /\ Over' /\ Waiting' /\ Rows'
  BY <1>1, <1>2 DEF IInv, Pending, Sections, Over, Terminal, Waiting, Rows, Agrees
<1>8. StreamsEndTogether' /\ NothingMissed'
  <2>1. StreamsEndTogether'
    BY <1>1, <1>4 DEF IInv, StreamsEndTogether, Shape, TypeOK
  <2>2. \A d \in subscribers' : d \in subscribers \/ d = s
    BY <1>1
  <2>3. s \notin subscribers
    BY <1>1 DEF IInv, StreamsEndTogether
  <2> QED
    BY <1>1, <1>2, <1>5, <2>1, <2>2, <2>3 DEF IInv, NothingMissed, StreamsEndTogether
<1>9. OvertakenOnlyWhileOpen'
  <2>1. \A i, j \in DOMAIN Replay : i < j => ~(Replay[j] < Replay[i])
    BY <1>2, <1>3
  <2> QED
    BY <1>1, <1>4, <2>1 DEF IInv, OvertakenOnlyWhileOpen
<1>10. EndsWithOutcome'
  <2>1. ASSUME terminal
        PROVE  \E t \in Calls : Terminal(t) /\ \A i \in 1 .. t - 1 : i \in Calls
    BY <1>2, <2>1 DEF IInv, Over
  <2> QED
    BY <1>1, <1>4, <1>5, <2>1 DEF IInv, EndsWithOutcome, Terminal
<1> QED
  BY <1>6, <1>7, <1>8, <1>9, <1>10 DEF IInv

LEMMA DisconnectKeeps ==
  ASSUME IInv, NEW s \in Subscribers, Disconnect(s)
  PROVE  IInv'
<1> USE DEF hub, store
<1>1. /\ UNCHANGED <<history, call, lastState, terminal, openAt, seen, joinedOver, writes, row, section,
                     faults, missed, route, life, lines>>
      /\ phase[s] = "open" /\ phase' = [phase EXCEPT ![s] = "left"] /\ subscribers' = subscribers \ {s}
  BY DEF Disconnect
<1>2. Calls' = Calls
  BY <1>1 DEF Calls
<1>3. \A d : Given(d)' = Given(d)
  BY <1>1 DEF Given
<1>4. Shape'
  <2>1. phase' \in [Subscribers -> {"new", "open", "complete", "left"}] /\ subscribers' \subseteq Subscribers
    BY <1>1 DEF IInv, Shape, TypeOK
  <2> QED
    BY <1>1, <1>2, <2>1 DEF IInv, Shape, TypeOK
<1>5. Pending' /\ Sections' /\ Over' /\ Waiting' /\ Rows'
  BY <1>1, <1>2 DEF IInv, Pending, Sections, Over, Terminal, Waiting, Rows, Agrees
<1>6. StreamsEndTogether'
  BY <1>1 DEF IInv, StreamsEndTogether, Shape, TypeOK
<1>7. NothingMissed' /\ OvertakenOnlyWhileOpen'
  BY <1>1, <1>2, <1>3 DEF IInv, NothingMissed, OvertakenOnlyWhileOpen
<1>8. EndsWithOutcome'
  <2>1. \A d \in Subscribers : phase'[d] = "complete" => phase[d] = "complete"
    BY <1>1 DEF IInv, Shape, TypeOK
  <2> QED
    BY <1>1, <1>3, <2>1 DEF IInv, EndsWithOutcome, Terminal
<1> QED
  BY <1>4, <1>5, <1>6, <1>7, <1>8 DEF IInv

(* The steps of the cancel route that publish nothing. *)
LEMMA RouteKeeps ==
  ASSUME IInv, CancelAsked \/ CancelPersists
  PROVE  IInv'
<1> USE DEF hub, clients, store
<1>1. /\ UNCHANGED <<history, call, lastState, terminal, openAt, subscribers, phase, seen, joinedOver,
                     row, section, faults, missed, life, lines>>
      /\ \/ /\ route = "idle" /\ UNCHANGED writes
            /\ route' = "refused" \/ (route' = "reading" /\ life[Job] # "unknown")
         \/ route = "reading" /\ route' = "persisting"
            /\ writes' = Append(writes, [by |-> Route, status |-> "cancelled"])
  BY DEF CancelAsked, CancelPersists, Update
<1>2. Calls' = Calls
  BY <1>1 DEF Calls
<1>3. [by |-> Route, status |-> "cancelled"] \in Write
  BY DEF Write, RunStates, TERMINAL_RUN_STATES
<1>4. writes' \in Seq(Write)
  BY <1>1, <1>3, WritesAre
<1>5. Shape'
  <2>1. writes' \in Seq([by : Calls' \cup {Route}, status : RunStates])
    BY <1>2, <1>4 DEF Write
  <2> QED
    BY <1>1, <1>2, <2>1 DEF IInv, Shape, TypeOK
<1>6. Pending' /\ Sections' /\ Over'
  BY <1>1, <1>2 DEF IInv, Pending, Sections, Over, Terminal
<1>7. StreamsEndTogether' /\ NothingMissed' /\ OvertakenOnlyWhileOpen' /\ EndsWithOutcome'
  BY <1>1, <1>2 DEF IInv, StreamsEndTogether, NothingMissed, OvertakenOnlyWhileOpen, EndsWithOutcome,
                    Given, Terminal
<1>8. CASE UNCHANGED writes /\ route = "idle"
  BY <1>1, <1>5, <1>6, <1>7, <1>8 DEF IInv, Waiting, Rows, Agrees
<1>9. CASE /\ route = "reading" /\ route' = "persisting"
           /\ writes' = Append(writes, [by |-> Route, status |-> "cancelled"])
  <2>1. PICK m \in Nat : m = Len(writes)
    BY WritesAre
  <2>2. /\ Len(writes') = m + 1 /\ writes' # <<>>
        /\ \A i \in 1 .. m : writes'[i] = writes[i]
        /\ writes'[m + 1].by = Route /\ writes'[m + 1].status = "cancelled"
    BY <1>9, <2>1, WritesAre
  <2>3. \A i \in 1 .. m : writes[i].by # Route /\ call[writes[i].by] = "write"
    BY <1>9, <2>1 DEF IInv, Waiting
  <2>4. Waiting'
    <3>1. \A i \in 1 .. m + 1 : i \in 1 .. m \/ i = m + 1
      OBVIOUS
    <3>2. \A i, j \in 1 .. m : writes[i].by = writes[j].by => i = j
      BY <2>1 DEF IInv, Waiting
    <3> QED
      BY <1>1, <1>9, <2>2, <2>3, <3>1, <3>2 DEF Waiting
  <2>5. Rows'
    <3>1. life[Job] # "unknown"
      BY <1>9 DEF IInv, Rows
    <3>2. Agrees("cancelled")'
      BY <1>9 DEF Agrees
    <3>3. \A i \in 1 .. m + 1 : writes'[i].status = "queued" => i = 1 /\ row = "queued"
      BY <2>1, <2>2 DEF IInv, Rows
    <3> QED
      BY <1>1, <2>2, <3>1, <3>2, <3>3 DEF IInv, Rows
  <2> QED
    BY <1>5, <1>6, <1>7, <2>4, <2>5 DEF IInv
<1> QED
  BY <1>1, <1>8, <1>9

LEMMA StutterKeeps == ASSUME IInv, UNCHANGED vars PROVE IInv'
<1>1. UNCHANGED <<history, call, lastState, terminal, openAt, subscribers, phase, seen, joinedOver,
                  writes, row, section, faults, missed, route, life, lines>>
  BY DEF vars, hub, clients, store
<1> QED
  BY <1>1 DEF IInv, Shape, TypeOK, Calls, Pending, Over, Terminal, StreamsEndTogether, NothingMissed, Given,
              OvertakenOnlyWhileOpen, EndsWithOutcome, Sections, Waiting, Rows, Agrees

LEMMA Kept == ASSUME IInv, [Next]_vars PROVE IInv'
<1>1. CASE JobStep \/ Line \/ CancelPublishes
  BY <1>1, PublishersKeep
<1>2. CASE CancelAsked \/ CancelPersists
  BY <1>2, RouteKeeps
<1>3. CASE MakeWrite
  BY <1>3, MakeWriteKeeps
<1>4. CASE \E k \in Calls : AfterWrite(k) \/ FanOut(k)
  BY <1>4, AfterWriteKeeps, FanOutKeeps
<1>5. CASE \E s \in Subscribers : Subscribe(s) \/ Disconnect(s)
  BY <1>5, SubscribeKeeps, DisconnectKeeps
<1>6. CASE UNCHANGED vars
  BY <1>6, StutterKeeps
<1> QED
  BY <1>1, <1>2, <1>3, <1>4, <1>5, <1>6 DEF Next, RouteStep

LEMMA Initially == Init => IInv
<1> SUFFICES ASSUME Init PROVE IInv
  OBVIOUS
<1>1. Calls = {} /\ Len(history) = 0
  BY DEF Init, Calls
<1>2. life = [j \in {Job} |-> "unknown"]
  BY DEF Init, Queue!Init
<1>3. Shape
  <2>1. \A S : <<>> \in Seq(S) /\ Len(<<>>) = 0
    BY EmptySeq
  <2>2. seen \in [Subscribers -> Seq(Calls)] /\ joinedOver \in [Subscribers -> SUBSET Calls]
    BY <2>1 DEF Init
  <2>3. DOMAIN call = Calls /\ DOMAIN openAt = Calls
    BY <1>1 DEF Init
  <2>4. lines \in 0 .. MaxTurns /\ faults \in 0 .. MaxTurns
    BY RunStreamAssumption DEF Init
  <2>5. /\ row \in RunStates /\ lastState = "none" /\ terminal \in BOOLEAN /\ missed \in BOOLEAN
        /\ phase \in [Subscribers -> {"new", "open", "complete", "left"}]
        /\ subscribers \subseteq Subscribers /\ section = 0 /\ route = "idle"
    BY DEF Init, RunStates
  <2>6. /\ history \in Seq([state : RunStates, section : BOOLEAN])
        /\ writes \in Seq([by : Calls \cup {Route}, status : RunStates])
        /\ call \in Seq(CallAt) /\ Len(call) = Len(history)
        /\ openAt \in Seq(SUBSET Nat) /\ Len(openAt) = Len(history)
    BY <2>1 DEF Init
  <2> QED
    BY <1>1, <1>2, <2>2, <2>3, <2>4, <2>5, <2>6 DEF Shape, TypeOK
<1>4. Pending /\ Over /\ StreamsEndTogether /\ NothingMissed /\ Sections
  BY <1>1 DEF Init, Pending, Over, StreamsEndTogether, NothingMissed, Sections
<1>5. OvertakenOnlyWhileOpen /\ EndsWithOutcome
  BY DEF Init, OvertakenOnlyWhileOpen, EndsWithOutcome
<1>6. Waiting /\ Rows
  <2>1. Len(writes) = 0
    BY DEF Init
  <2> QED
    BY <2>1 DEF Init, Waiting, Rows
<1> QED
  BY <1>3, <1>4, <1>5, <1>6 DEF IInv

-----------------------------------------------------------------------------
(* How often an event is given. *)

(* A stream begins with a replay of the history, and goes on with events,   *)
(* each once, whose calls are done; one of the replay comes again only if   *)
(* its call was under way at the time.                                     *)
OrderFrom(s, n) ==
  /\ \A i \in 1 .. n : seen[s][i] = i /\ (call[i] # "done" => i \in joinedOver[s])
  /\ \A i \in n + 1 .. Len(seen[s]) :
       /\ call[seen[s][i]] = "done"
       /\ seen[s][i] \in 1 .. n => seen[s][i] \in joinedOver[s]
  /\ \A i, j \in n + 1 .. Len(seen[s]) : seen[s][i] = seen[s][j] => i = j

Order(s) == \E n \in 0 .. Len(seen[s]) : OrderFrom(s, n)

Once == \A s \in Subscribers : Order(s)

(* The steps that give no event to anybody. *)
LEMMA OnceStays ==
  ASSUME IInv, Once, UNCHANGED <<seen, joinedOver>>,
         \A k \in Calls : call'[k] = "done" <=> call[k] = "done"
  PROVE  Once'
<1>1. \A s \in Subscribers : Len(seen[s]) \in Nat /\ \A i \in 1 .. Len(seen[s]) : seen[s][i] \in Calls
  <2>1. \A s \in Subscribers : seen[s] \in Seq(Calls)
    BY DEF IInv, Shape, TypeOK
  <2> QED
    BY <2>1
<1>2. ASSUME NEW s \in Subscribers
      PROVE  Order(s)'
  <2>1. PICK n \in 0 .. Len(seen[s]) : OrderFrom(s, n)
    BY DEF Once, Order
  <2>2. \A i \in 1 .. n : i \in 1 .. Len(seen[s]) /\ i \in Calls
    BY <1>1, <2>1 DEF OrderFrom
  <2>3. \A i \in n + 1 .. Len(seen[s]) : i \in 1 .. Len(seen[s])
    BY <1>1
  <2>4. OrderFrom(s, n)'
    BY <1>1, <2>1, <2>2, <2>3 DEF OrderFrom
  <2>5. n \in 0 .. Len(seen'[s])
    BY <2>1
  <2> QED
    BY <2>4, <2>5 DEF Order
<1> QED
  BY <1>2 DEF Once

LEMMA OnceFannedOut ==
  ASSUME IInv, Once, NEW k \in Calls, FanOut(k)
  PROVE  Once'
<1>1. /\ call[k] = "fanOut" /\ call'[k] = "done"
      /\ \A i \in Calls : i # k => call'[i] = call[i]
  <2>1. "done" \in CallAt
    BY DEF CallAt
  <2> QED
    BY <2>1, GotoMoves DEF FanOut
<1>2. joinedOver' = joinedOver
  BY DEF FanOut
<1>3. ASSUME NEW s \in Subscribers
      PROVE  Order(s)'
  <2>1. PICK n \in 0 .. Len(seen[s]) : OrderFrom(s, n)
    BY DEF Once, Order
  <2>2. PICK m \in Nat : m = Len(seen[s]) /\ \A i \in 1 .. m : seen[s][i] \in Calls
    <3>1. seen[s] \in Seq(Calls)
      BY DEF IInv, Shape, TypeOK
    <3> QED
      BY <3>1
  <2>3. /\ \A i \in 1 .. n : seen[s][i] = i /\ i \in Calls /\ (call'[i] # "done" => i \in joinedOver[s])
        /\ \A i \in n + 1 .. m : /\ seen[s][i] # k /\ call'[seen[s][i]] = "done"
                                 /\ seen[s][i] \in 1 .. n => seen[s][i] \in joinedOver[s]
        /\ k \in 1 .. n => k \in joinedOver[s]
    <3>1. \A i \in 1 .. n : i \in 1 .. m
      BY <2>1, <2>2
    <3>2. \A i \in n + 1 .. m : i \in 1 .. m
      BY <2>2
    <3> QED
      BY <1>1, <2>1, <2>2, <3>1, <3>2 DEF OrderFrom
  <2>4. CASE s \notin subscribers
    <3>1. seen'[s] = seen[s]
      BY <2>4 DEF FanOut
    <3>2. OrderFrom(s, n)'
      BY <1>2, <2>1, <2>2, <2>3, <3>1 DEF OrderFrom
    <3>3. n \in 0 .. Len(seen'[s])
      BY <2>1, <3>1
    <3> QED
      BY <3>2, <3>3 DEF Order
  <2>5. CASE s \in subscribers
    <3>1. seen'[s] = Append(seen[s], k) /\ seen[s] \in Seq(Calls)
      BY <2>5 DEF FanOut, IInv, Shape, TypeOK
    <3>2. /\ Len(seen'[s]) = m + 1 /\ seen'[s][m + 1] = k
          /\ \A i \in 1 .. m : seen'[s][i] = seen[s][i]
      BY <2>2, <3>1
    <3>3. \A i \in n + 1 .. m + 1 : i \in n + 1 .. m \/ i = m + 1
      BY <2>1, <2>2
    <3>4. n \in 0 .. m + 1 /\ n \in 0 .. m
      BY <2>1, <2>2
    <3>5. \A i \in 1 .. n : seen'[s][i] = i /\ (call'[i] # "done" => i \in joinedOver[s])
      BY <2>2, <2>3, <3>2, <3>4
    <3>6. \A i \in n + 1 .. m : seen'[s][i] = seen[s][i]
      BY <2>2, <3>2, <3>4
    <3>7. \A i \in n + 1 .. m + 1 :
            /\ call'[seen'[s][i]] = "done"
            /\ seen'[s][i] \in 1 .. n => seen'[s][i] \in joinedOver[s]
      BY <1>1, <2>3, <3>2, <3>3, <3>6
    <3>8. \A i, j \in n + 1 .. m + 1 : seen'[s][i] = seen'[s][j] => i = j
      <4>1. ASSUME NEW i \in n + 1 .. m, NEW j \in n + 1 .. m, seen'[s][i] = seen'[s][j]
            PROVE  i = j
        BY <2>1, <2>2, <3>6, <4>1 DEF OrderFrom
      <4>2. \A i \in n + 1 .. m : seen'[s][i] # seen'[s][m + 1]
        BY <2>3, <3>2, <3>6
      <4> QED
        BY <3>3, <4>1, <4>2
    <3>9. OrderFrom(s, n)'
      BY <1>2, <3>2, <3>5, <3>7, <3>8 DEF OrderFrom
    <3> QED
      BY <3>2, <3>4, <3>9 DEF Order
  <2> QED
    BY <2>4, <2>5
<1> QED
  BY <1>3 DEF Once

LEMMA OnceReplayed ==
  ASSUME IInv, Once, NEW s \in Subscribers, Subscribe(s)
  PROVE  Once'
<1>1. /\ call' = call
      /\ seen'[s] = Replay /\ joinedOver'[s] = Open
      /\ \A d \in Subscribers : d # s => seen'[d] = seen[d] /\ joinedOver'[d] = joinedOver[d]
  BY DEF Subscribe, hub, IInv, Shape, TypeOK
<1>2. Len(history) \in Nat /\ Calls = 1 .. Len(history)
  BY CallsCount
<1>3. Len(Replay) = Len(history) /\ \A i \in Calls : Replay[i] = i
  <2>1. Replay \in Seq(Calls) /\ DOMAIN Replay = Calls
    BY <1>2 DEF Replay
  <2> QED
    BY <1>2, <2>1 DEF Replay
<1>4. Order(s)'
  <2>1. PICK n \in Nat : n = Len(history)
    BY <1>2
  <2>2. \A i \in 1 .. n : Replay[i] = i /\ (call[i] # "done" => i \in Open)
    BY <1>2, <1>3, <2>1 DEF Open
  <2>3. n \in 0 .. n /\ n + 1 .. n = {}
    BY <2>1
  <2>4. OrderFrom(s, n)'
    BY <1>1, <1>3, <2>1, <2>2, <2>3 DEF OrderFrom
  <2> QED
    BY <1>1, <1>3, <2>1, <2>3, <2>4 DEF Order
<1>5. ASSUME NEW d \in Subscribers, d # s
      PROVE  Order(d)'
  <2>1. Order(d)
    BY DEF Once
  <2> QED
    BY <1>1, <1>5, <2>1 DEF Order, OrderFrom
<1> QED
  BY <1>4, <1>5 DEF Once

LEMMA OnceKept == ASSUME IInv, Once, [Next]_vars PROVE Once'
<1>1. CASE JobStep \/ Line \/ CancelPublishes
  <2>1. \E event : Publish(event)
    BY <1>1 DEF JobStep, Line, CancelPublishes
  <2>2. UNCHANGED <<seen, joinedOver>>
    BY <2>1 DEF Publish, clients
  <2>3. \A k \in Calls : call'[k] = call[k]
    <3>1. \E at : call' = Append(call, at)
      BY <2>1 DEF Publish
    <3>2. call \in Seq(CallAt) /\ Len(call) = Len(history)
      BY DEF IInv, Shape
    <3> QED
      BY <3>1, <3>2 DEF Calls
  <2> QED
    BY <2>2, <2>3, OnceStays
<1>2. CASE CancelAsked \/ CancelPersists \/ UNCHANGED vars \/ \E s \in Subscribers : Disconnect(s)
  BY <1>2, OnceStays DEF CancelAsked, CancelPersists, Disconnect, vars, hub, clients
<1>3. CASE MakeWrite
  <2>1. PICK w \in Write : w = writes[1] /\ NextWrite = w
    <3>1. writes \in Seq(Write) /\ writes # <<>>
      BY <1>3, WritesAre DEF MakeWrite
    <3> QED
      BY <3>1 DEF NextWrite
  <2>2. w.by # Route => w.by \in Calls /\ call[w.by] = "write"
    <3>1. 1 \in 1 .. Len(writes)
      BY <1>3, WritesAre DEF MakeWrite
    <3> QED
      BY <2>1, <3>1 DEF IInv, Waiting, Write
  <2>3. UNCHANGED <<seen, joinedOver>>
    BY <1>3 DEF MakeWrite, clients
  <2>4. Settle(w.by, TRUE) \/ Settle(w.by, FALSE)
    BY <1>3, <2>1 DEF MakeWrite
  <2>5. call' = call \/ (w.by # Route /\ \E at \in {"written", "fanOut"} : Goto(w.by, at))
    BY <2>4 DEF Settle
  <2>6. {"written", "fanOut"} \subseteq CallAt /\ "done" \notin {"written", "fanOut"}
    BY DEF CallAt
  <2>7. \A k \in Calls : call'[k] = "done" <=> call[k] = "done"
    BY <2>2, <2>5, <2>6, GotoMoves
  <2> QED
    BY <2>3, <2>7, OnceStays
<1>4. ASSUME NEW k \in Calls, AfterWrite(k)
      PROVE  Once'
  <2>1. call[k] = "written" /\ UNCHANGED <<seen, joinedOver>> /\ Goto(k, "fanOut")
    BY <1>4 DEF AfterWrite, clients
  <2>2. "fanOut" \in CallAt
    BY DEF CallAt
  <2> QED
    BY <2>1, <2>2, GotoMoves, OnceStays
<1> QED
  BY <1>1, <1>2, <1>3, <1>4, OnceFannedOut, OnceReplayed DEF Next, RouteStep

(* What Order says of the times at which one event was given. *)
LEMMA OrderBounds ==
  ASSUME IInv, NEW s \in Subscribers, Order(s), NEW k \in Given(s)
  PROVE  LET times == {i \in DOMAIN seen[s] : seen[s][i] = k}
         IN  Cardinality(times) <= IF k \in joinedOver[s] THEN 2 ELSE 1
<1> DEFINE times == {i \in DOMAIN seen[s] : seen[s][i] = k}
<1>1. PICK n \in 0 .. Len(seen[s]) : OrderFrom(s, n)
  BY DEF Order
<1>2. PICK m \in Nat : m = Len(seen[s]) /\ DOMAIN seen[s] = 1 .. m
  <2>1. seen[s] \in Seq(Calls)
    BY DEF IInv, Shape, TypeOK
  <2> QED
    BY <2>1
<1>3. \A i \in times : i = k \/ i \in n + 1 .. m
  BY <1>1, <1>2 DEF OrderFrom
<1>4. \A i, j \in times : i \in n + 1 .. m /\ j \in n + 1 .. m => i = j
  BY <1>1, <1>2 DEF OrderFrom
<1>5. \A i, j \in times : i = k /\ k \in 1 .. n /\ j \in n + 1 .. m => k \in joinedOver[s]
  BY <1>1, <1>2 DEF OrderFrom
<1>6. \A i \in times : i \in 1 .. m
  BY <1>2
<1>7. PICK a : times \subseteq {k, a} /\ (k \notin joinedOver[s] => times \subseteq {a} \/ times \subseteq {k})
  <2>1. CASE \E a \in times : a \in n + 1 .. m
    <3>1. PICK a \in times : a \in n + 1 .. m
      BY <2>1
    <3>2. times \subseteq {k, a}
      BY <1>3, <1>4, <3>1
    <3>3. ASSUME k \notin joinedOver[s]
          PROVE  times \subseteq {a}
      <4>1. \A i \in times : i = k => k \in n + 1 .. m
        BY <1>1, <1>2, <1>5, <1>6, <3>1, <3>3 DEF OrderFrom
      <4> QED
        BY <1>3, <1>4, <3>1, <4>1
    <3> QED
      BY <3>2, <3>3
  <2>2. CASE ~\E a \in times : a \in n + 1 .. m
    BY <1>3, <2>2
  <2> QED
    BY <2>1, <2>2
<1> HIDE DEF times
<1>8. \A b : IsFiniteSet({b}) /\ Cardinality({b}) = 1
  BY FS_Singleton
<1>9. IsFiniteSet({k, a}) /\ Cardinality({k, a}) <= 2
  <2>1. {k, a} = {k} \cup {a}
    OBVIOUS
  <2>2. IsFiniteSet({k}) /\ Cardinality({k}) = 1
    BY <1>8
  <2>3. /\ IsFiniteSet({k} \cup {a})
        /\ Cardinality({k} \cup {a}) = IF a \in {k} THEN Cardinality({k}) ELSE Cardinality({k}) + 1
    BY <2>2, FS_AddElement
  <2>4. CASE a = k
    <3>1. {k, a} = {k}
      BY <2>4
    <3> HIDE <2>4
    <3>2. IsFiniteSet({k, a}) /\ Cardinality({k, a}) = 1
      BY <3>1, <2>2, Zenon
    <3> QED
      BY <3>2
  <2>5. CASE a # k
    <3>1. Cardinality({k} \cup {a}) = Cardinality({k}) + 1
      BY <2>3, <2>5
    <3>2. Cardinality({k} \cup {a}) = 2
      BY <2>2, <3>1
    <3>3. IsFiniteSet({k, a}) /\ Cardinality({k, a}) = 2
      BY <2>1, <2>3, <3>2, Zenon
    <3> QED
      BY <3>3
  <2> QED
    BY <2>4, <2>5
<1>10. ASSUME NEW S, IsFiniteSet(S), times \subseteq S
       PROVE  Cardinality(times) \in Nat /\ Cardinality(S) \in Nat /\ Cardinality(times) <= Cardinality(S)
  <2>1. IsFiniteSet(times) /\ Cardinality(times) <= Cardinality(S)
    BY <1>10, FS_Subset
  <2> QED
    BY <1>10, <2>1, FS_CardinalityType
<1>11. Cardinality(times) <= 2 /\ (k \notin joinedOver[s] => Cardinality(times) <= 1)
  <2>1. Cardinality(times) <= Cardinality({k, a}) /\ Cardinality(times) \in Nat /\ Cardinality({k, a}) \in Nat
    BY <1>7, <1>9, <1>10
  <2>2. ASSUME NEW b, times \subseteq {b}
        PROVE  Cardinality(times) <= 1
    <3>1. IsFiniteSet({b}) /\ Cardinality({b}) = 1
      BY <1>8
    <3> QED
      BY <1>10, <2>2, <3>1
  <2> QED
    BY <1>7, <1>9, <2>1, <2>2
<1> QED
  BY <1>11 DEF times

-----------------------------------------------------------------------------
(* Every step is one of ProgressStream. *)

LEMMA StreamStarts == Init => Stream!Init
<1> SUFFICES ASSUME Init PROVE Stream!Init
  OBVIOUS
<1>1. \A s \in Subscribers : Given(s) = {}
  BY DEF Init, Given
<1> QED
  BY <1>1 DEF Init, Stream!Init

(* The streams that the hub feeds are those that are open. *)
LEMMA OpenOnes == ASSUME IInv PROVE Stream!Open = subscribers
BY DEF Stream!Open, IInv, StreamsEndTogether

LEMMA StreamMoves == ASSUME IInv, [Next]_vars PROVE [Stream!Next]_(Stream!stream)
<1> DEFINE got == [s \in Subscribers |-> Given(s)]
<1>0. Len(history) \in Nat /\ Calls = 1 .. Len(history)
  BY CallsCount
<1>1. ASSUME UNCHANGED <<history, terminal, phase, seen>>
      PROVE  UNCHANGED Stream!stream
  BY <1>1 DEF Stream!stream, Given
<1>2. CASE CancelAsked \/ CancelPersists \/ UNCHANGED vars \/ MakeWrite \/ (\E k \in Calls : AfterWrite(k))
  BY <1>1, <1>2 DEF CancelAsked, CancelPersists, MakeWrite, AfterWrite, vars, hub, clients
<1>3. CASE JobStep \/ Line \/ CancelPublishes
  <2>1. PICK event : Publish(event)
    BY <1>3 DEF JobStep, Line, CancelPublishes
  <2>2. UNCHANGED <<terminal, phase, seen>> /\ history' = Append(history, event)
    BY <2>1 DEF Publish, clients
  <2>3. Len(history') = Len(history) + 1
    BY <2>2 DEF IInv, Shape, TypeOK
  <2>4. Stream!Publish
    BY <2>2, <2>3 DEF Stream!Publish, Given
  <2> QED
    BY <2>4 DEF Stream!Next
<1>4. ASSUME NEW s \in Subscribers, Subscribe(s)
      PROVE  Stream!Next
  <2>1. /\ phase[s] = "new" /\ UNCHANGED <<history, terminal>>
        /\ phase' = [phase EXCEPT ![s] = IF terminal THEN "complete" ELSE "open"]
        /\ seen' = [seen EXCEPT ![s] = Replay]
    BY <1>4 DEF Subscribe, Register, hub
  <2>2. Given(s)' = 1 .. Len(history)
    <3>1. seen'[s] = Replay
      BY <2>1 DEF IInv, Shape, TypeOK
    <3>2. DOMAIN Replay = Calls /\ \A i \in Calls : Replay[i] = i
      BY DEF Replay
    <3> QED
      BY <1>0, <3>1, <3>2 DEF Given
  <2>3. \A d \in Subscribers : d # s => Given(d)' = Given(d)
    BY <2>1 DEF Given, IInv, Shape, TypeOK
  <2>4. got' = [got EXCEPT ![s] = 1 .. Len(history)]
    BY <2>2, <2>3
  <2> HIDE DEF got
  <2>5. Stream!Join(s)
    BY <2>1, <2>4 DEF Stream!Join, got
  <2> QED
    BY <2>5 DEF Stream!Next
<1>5. ASSUME NEW s \in Subscribers, Disconnect(s)
      PROVE  Stream!Next
  <2>1. Stream!Leave(s)
    BY <1>5 DEF Disconnect, Stream!Leave, Given, hub
  <2> QED
    BY <2>1 DEF Stream!Next
<1>6. ASSUME NEW k \in Calls, FanOut(k)
      PROVE  Stream!Next
  <2>1. /\ UNCHANGED history
        /\ terminal' = (terminal \/ isTerminalRunState(history[k].state))
        /\ seen' = [s \in Subscribers |-> IF s \in subscribers THEN Append(seen[s], k) ELSE seen[s]]
        /\ phase' = [s \in Subscribers |->
             IF isTerminalRunState(history[k].state) /\ s \in subscribers THEN "complete" ELSE phase[s]]
    BY <1>6 DEF FanOut
  <2>2. got' = [s \in Subscribers |-> IF s \in subscribers THEN got[s] \cup {k} ELSE got[s]]
    <3>1. ASSUME NEW s \in subscribers
          PROVE  s \in Subscribers /\ Given(s)' = Given(s) \cup {k}
      <4>1. seen[s] \in Seq(Calls) /\ seen'[s] = Append(seen[s], k) /\ s \in Subscribers
        BY <2>1 DEF IInv, Shape, TypeOK
      <4>2. /\ DOMAIN seen[s] = 1 .. Len(seen[s]) /\ Len(seen[s]) \in Nat
            /\ DOMAIN seen'[s] = 1 .. Len(seen[s]) + 1
            /\ \A i \in 1 .. Len(seen[s]) : seen'[s][i] = seen[s][i]
            /\ seen'[s][Len(seen[s]) + 1] = k
        BY <4>1
      <4> QED
        BY <4>1, <4>2 DEF Given
    <3>2. \A s \in Subscribers : s \notin subscribers => Given(s)' = Given(s)
      BY <2>1 DEF Given
    <3> QED
      BY <3>1, <3>2
  <2>3. k \in 1 .. Len(history)
    BY <1>0
  <2>4. Stream!Deliver(k)
    BY <2>2, OpenOnes DEF Stream!Deliver
  <2>5. CASE isTerminalRunState(history[k].state)
    <3>1. Stream!Close
      BY <2>1, <2>3, <2>4, <2>5, OpenOnes DEF Stream!Close
    <3> QED
      BY <3>1 DEF Stream!Next
  <2>6. CASE ~isTerminalRunState(history[k].state)
    <3>1. phase' = phase /\ terminal' = terminal
      BY <2>1, <2>6 DEF IInv, Shape, TypeOK
    <3>2. Stream!FanOut
      BY <2>1, <2>3, <2>4, <3>1 DEF Stream!FanOut
    <3> QED
      BY <3>2 DEF Stream!Next
  <2> QED
    BY <2>5, <2>6
<1> QED
  BY <1>2, <1>3, <1>4, <1>5, <1>6 DEF Next, RouteStep

-----------------------------------------------------------------------------
(* The theorems. *)

(* The invariant holds for good. *)
THEOREM Inductive == Spec => []IInv
BY Initially, Kept, PTL DEF Spec

(* Every variable holds what its declaration says. *)
THEOREM TypeCorrect == Spec => []TypeOK
<1>1. IInv => TypeOK
  BY DEF IInv, Shape
<1> QED
  BY <1>1, Inductive, PTL

(* The registered subscribers are those whose stream is open, and a run that *)
(* was told to be over has none (hub.ts, publish() and subscribe()).       *)
THEOREM StreamsEnd == Spec => []StreamsEndTogether
<1>1. IInv => StreamsEndTogether
  BY DEF IInv
<1> QED
  BY <1>1, Inductive, PTL

(* A registered subscriber lacks only events whose publish() is under way.  *)
THEOREM NothingIsMissed == Spec => []NothingMissed
<1>1. IInv => NothingMissed
  BY DEF IInv
<1> QED
  BY <1>1, Inductive, PTL

(* An event is overtaken only by one that was published while its own       *)
(* publish() awaited the store.                                            *)
THEOREM OvertakingIsOverlap == Spec => []OvertakenOnlyWhileOpen
<1>1. IInv => OvertakenOnlyWhileOpen
  BY DEF IInv
<1> QED
  BY <1>1, Inductive, PTL

(* A stream that ended has told an outcome, with everything before it that  *)
(* was not still under way.                                                *)
THEOREM StreamsTellOutcome == Spec => []EndsWithOutcome
<1>1. IInv => EndsWithOutcome
  BY DEF IInv
<1> QED
  BY <1>1, Inductive, PTL

(* Once the writes are made the run's row says what the newest event says,  *)
(* unless the newest write rejected (updateStore() and the cancel route).  *)
THEOREM RowFollows == Spec => []RowFollowsHub
<1>1. IInv => RowFollowsHub
  BY DEF IInv, Rows, Agrees, RowFollowsHub, Quiet
<1> QED
  BY <1>1, Inductive, PTL

(* The section's row shows the newest line, or one that was overtaken while *)
(* it awaited the run's update.                                            *)
THEOREM SectionStaysRecent == Spec => []SectionIsRecent
<1>1. ASSUME IInv, Open = {}, faults = 0, NEW k \in Calls, history[k].section, k > section
      PROVE  section \in openAt[k]
  BY <1>1 DEF IInv, Sections, Open
<1>2. IInv => SectionIsRecent
  BY <1>1 DEF SectionIsRecent
<1> QED
  BY <1>2, Inductive, PTL

(* Nobody is given an event more than once, or twice if its publish() was   *)
(* under way when they joined.                                             *)
THEOREM RepeatsAreOverlap == Spec => []RepeatsOnlyIfJoinedDuring
<1>1. Init => Once
  <2>1. \A s : Init /\ s \in Subscribers => seen[s] = <<>>
    BY DEF Init
  <2>2. Len(<<>>) = 0 /\ 0 \in 0 .. 0
    OBVIOUS
  <2> QED
    BY <2>1, <2>2 DEF Once, Order, OrderFrom
<1>2. IInv /\ Once => RepeatsOnlyIfJoinedDuring
  BY OrderBounds DEF Once, RepeatsOnlyIfJoinedDuring
<1> QED
  BY <1>1, <1>2, OnceKept, Inductive, PTL DEF Spec

(* The hub, its publishers and its clients take only steps that the stream's *)
(* specification allows: the safety part of ImplementsStream.              *)
THEOREM StreamIsImplemented == Spec => Stream!Init /\ [][Stream!Next]_(Stream!stream)
BY StreamStarts, StreamMoves, Inductive, PTL DEF Spec

=============================================================================
