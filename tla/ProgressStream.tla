--------------------------- MODULE ProgressStream ---------------------------
(***************************************************************************)
(* What the event stream of one run promises those who open it: they get   *)
(* what was published before, then what is fanned out while they are       *)
(* there; the stream ends for all of them at once; one opened afterwards   *)
(* ends at once; and no stream stays open for ever.  RunStream implements  *)
(* it.                                                                     *)
(***************************************************************************)
EXTENDS Naturals

CONSTANT Subscribers   \* those who may open the stream

VARIABLES published,   \* how many events were published
          ended,       \* whether a terminal event was fanned out
          phase,       \* phase[s]: "new", "open", "complete" or "left"
          got          \* got[s]: the events s was given

stream == <<published, ended, phase, got>>

Open == {s \in Subscribers : phase[s] = "open"}

Init == /\ published = 0
        /\ ended = FALSE
        /\ phase = [s \in Subscribers |-> "new"]
        /\ got = [s \in Subscribers |-> {}]

Publish == published' = published + 1 /\ UNCHANGED <<ended, phase, got>>

Join(s) == /\ phase[s] = "new"
           /\ phase' = [phase EXCEPT ![s] = IF ended THEN "complete" ELSE "open"]
           /\ got' = [got EXCEPT ![s] = 1 .. published]
           /\ UNCHANGED <<published, ended>>

Deliver(k) == got' = [s \in Subscribers |-> IF s \in Open THEN got[s] \cup {k} ELSE got[s]]

FanOut == \E k \in 1 .. published : Deliver(k) /\ UNCHANGED <<published, ended, phase>>

Close == /\ ended' = TRUE
         /\ \E k \in 1 .. published : Deliver(k)
         /\ phase' = [s \in Subscribers |-> IF s \in Open THEN "complete" ELSE phase[s]]
         /\ UNCHANGED published

Leave(s) == /\ phase[s] = "open"
            /\ phase' = [phase EXCEPT ![s] = "left"]
            /\ UNCHANGED <<published, ended, got>>

Next == Publish \/ FanOut \/ Close \/ \E s \in Subscribers : Join(s) \/ Leave(s)

Spec == Init /\ [][Next]_stream /\ WF_stream(~ended /\ Close)
=============================================================================
