------------------------------ MODULE MsgFifo -------------------------------
(***************************************************************************)
(* What one direction of a message link promises: every message handed to  *)
(* send_message comes out of read_next_message once, whole and in order    *)
(* (svf_bridge_link_if).  Sending may begin before the last message has    *)
(* come out; how much can be under way is left open.                       *)
(***************************************************************************)
EXTENDS Sequences, Naturals

CONSTANT Messages   \* what may be sent: sequences of words

VARIABLES
  sent,  \* the messages handed over, in order
  got    \* the messages read

Init == sent = <<>> /\ got = <<>>

Send ==
  /\ \E m \in Messages : sent' = Append(sent, m)
  /\ UNCHANGED got

Deliver ==
  /\ Len(got) < Len(sent)
  /\ got' = Append(got, sent[Len(got) + 1])
  /\ UNCHANGED sent

Next == Send \/ Deliver

Spec == Init /\ [][Next]_<<sent, got>>

\* A message that is sent is not left behind.
FairSpec == Spec /\ WF_<<sent, got>>(Deliver)
=============================================================================
