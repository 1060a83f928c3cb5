---------------------------- MODULE SocketFifos ----------------------------
(***************************************************************************)
(* What the bridge promises its sockets: a MsgFifo for each connected pair *)
(* and direction, all independent of each other.                           *)
(***************************************************************************)
EXTENDS Sequences, Naturals

CONSTANTS
  Ends,   \* the sending ends
  Items   \* what may be sent

VARIABLES
  sent,  \* what each end has sent, in order
  got    \* what has been received from it

vars == <<sent, got>>

Init == sent = [e \in Ends |-> <<>>] /\ got = sent

Send(e) ==
  /\ \E d \in Items : sent' = [sent EXCEPT ![e] = Append(@, d)]
  /\ UNCHANGED got

Deliver(e) ==
  /\ Len(got[e]) < Len(sent[e])
  /\ got' = [got EXCEPT ![e] = Append(@, sent[e][Len(@) + 1])]
  /\ UNCHANGED sent

Next == \E e \in Ends : Send(e) \/ Deliver(e)

Spec == Init /\ [][Next]_vars

\* No end's messages are left behind.
Live == \A e \in Ends : WF_vars(Deliver(e))
=============================================================================
