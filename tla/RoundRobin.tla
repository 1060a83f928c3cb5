----------------------------- MODULE RoundRobin -----------------------------
(***************************************************************************)
(* What a cooperative scheduler promises: threads run in the order in      *)
(* which they became ready; one that sleeps runs again only after it has   *)
(* been woken, one that has ended never.                                   *)
(***************************************************************************)
EXTENDS Naturals, SequencesExt

CONSTANTS Workers, main

VARIABLES
  running,  \* the thread that has the processor
  ready,    \* those that wait for their turn, first to last
  asleep,   \* those that wait to be woken
  ended

vars == <<running, ready, asleep, ended>>

Init == running = main /\ ready = <<>> /\ asleep = {} /\ ended = {}

Known == {running} \cup Range(ready) \cup asleep \cup ended

\* The first of those that are ready runs.
TakeTurn == ready # <<>> /\ running' = Head(ready)

Create ==
  /\ \E t \in Workers \ Known : ready' = Append(ready, t)
  /\ UNCHANGED <<running, asleep, ended>>

Yield ==
  /\ TakeTurn
  /\ ready' = Append(Tail(ready), running)
  /\ UNCHANGED <<asleep, ended>>

Sleep ==
  /\ TakeTurn
  /\ ready' = Tail(ready)
  /\ asleep' = asleep \cup {running}
  /\ UNCHANGED ended

\* Sleepers are woken, in some order.
Wake ==
  /\ \E some \in SUBSET asleep : \E order \in SetToSeqs(some) :
       /\ ready' = ready \o order
       /\ asleep' = asleep \ some
  /\ UNCHANGED <<running, ended>>

End ==
  /\ TakeTurn
  /\ ready' = Tail(ready)
  /\ ended' = ended \cup {running}
  /\ UNCHANGED asleep

Next == Create \/ Yield \/ Sleep \/ Wake \/ End

Spec == Init /\ [][Next]_vars
=============================================================================
