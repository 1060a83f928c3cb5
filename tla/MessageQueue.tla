---------------------------- MODULE MessageQueue ----------------------------
(***************************************************************************)
(* The message queue with both its users: a bridge on each side sends      *)
(* messages (send_message calls write_message) and receives them in an     *)
(* endless loop of get_next_message_sz and read_next_message               *)
(* (svf_bridge::recv_loop).  One thread sends and one receives per side;   *)
(* the locks are therefore free whenever they are asked for.               *)
(*                                                                         *)
(* Each direction of it is a MsgFifo.                                      *)
(***************************************************************************)
EXTENDS QueueStream

CONSTANTS
  Messages,  \* what may be sent
  Traffic    \* bound: the pairs of what the stream side and the processor may have sent

ASSUME MessageAssumption == Messages \subseteq Seq(Nat)

VARIABLES
  inSent, inGot,   \* history: the messages sent to the processor, and read there
  outSent, outGot  \* history: the messages sent by the processor, and read from it

inLog  == <<inSent, inGot>>
outLog == <<outSent, outGot>>
vars   == <<inRing, outRing, mem, driverVars, streamVars, inLog, outLog>>

-----------------------------------------------------------------------------
Init ==
  /\ DeviceInit /\ DriverInit /\ StreamInit
  /\ inSent = <<>> /\ inGot = <<>> /\ outSent = <<>> /\ outGot = <<>>

\* write_message of each side is called.
StreamSends ==
  /\ \E m \in Messages : StrWrite(m) /\ inSent' = Append(inSent, m)
  /\ <<inSent', outSent>> \in Traffic
  /\ UNCHANGED <<outRing, driverVars, srx, streamSz, inGot, outLog>>

DriverSends ==
  /\ \E m \in Messages : DrvWrite(m) /\ outSent' = Append(outSent, m)
  /\ <<inSent, outSent'>> \in Traffic
  /\ UNCHANGED <<inRing, drx, driverSz, streamVars, inLog, outGot>>

\* A step of each thread that is at work.
StreamWrites ==
  /\ StrWritePtrs \/ StrWriteWord \/ StrWriteFull \/ StrWriteEnd
  /\ UNCHANGED <<outRing, driverVars, srx, streamSz, inLog, outLog>>

DriverWrites ==
  /\ DrvWriteWp \/ DrvWriteRp \/ DrvWriteWord \/ DrvWriteFull \/ DrvWriteEnd
  /\ UNCHANGED <<inRing, drx, driverSz, streamVars, inLog, outLog>>

DriverReads ==
  /\ \/ /\ \/ DrvPeek \/ DrvPeekRp \/ DrvPeekWp \/ DrvPeekWord \/ DrvPeekPub
           \/ DrvRead \/ DrvReadRp \/ DrvReadWp \/ DrvReadWord \/ DrvReadDrained
        /\ UNCHANGED inGot
     \/ DrvReadEnd /\ inGot' = Append(inGot, drx.data)
  /\ UNCHANGED <<outRing, mem, dtx, streamVars, inSent, outLog>>

StreamReads ==
  /\ \/ /\ \/ StrPeek \/ StrPeekSome \/ StrPeekNone \/ StrPeekWord
           \/ StrRead \/ StrReadPtrs \/ StrReadWord \/ StrReadDrained
        /\ UNCHANGED outGot
     \/ StrReadEnd /\ outGot' = Append(outGot, srx.data)
  /\ UNCHANGED <<inRing, mem, driverVars, stx, inLog, outSent>>

\* The monitor wakes the stream side's threads.
MonitorInbound ==
  /\ StrWriteWake
  /\ UNCHANGED <<outRing, driverVars, srx, streamSz, inLog, outLog>>

MonitorOutbound ==
  /\ StrReadWake
  /\ UNCHANGED <<inRing, mem, driverVars, stx, inLog, outLog>>

Next ==
  \/ StreamSends \/ StreamWrites \/ DriverReads \/ MonitorInbound
  \/ DriverSends \/ DriverWrites \/ StreamReads \/ MonitorOutbound

Spec == Init /\ [][Next]_vars

(***************************************************************************)
(* The clock runs, so the monitor and the processor do; the threads of the *)
(* processor take turns (uth yields in every wait), those of the simulator *)
(* run when they are woken.  Nobody has to send.                           *)
(***************************************************************************)
Fairness ==
  /\ WF_vars(StreamWrites) /\ WF_vars(StreamReads)
  /\ WF_vars(DriverWrites) /\ WF_vars(DriverReads)
  /\ WF_vars(MonitorInbound) /\ WF_vars(MonitorOutbound)

FairSpec == Spec /\ Fairness

-----------------------------------------------------------------------------
(* Properties.                                                             *)

\* All state is well typed: pointers stay on their ring.
QueueTypeOK ==
  /\ DeviceTypeOK /\ DriverTypeOK /\ StreamTypeOK
  /\ \A log \in {inSent, inGot, outSent, outGot} : log \in Seq(Seq(Nat))

\* Positions p, q, r, s come in this order around the ring, all within one turn.
Ahead(p, q) == (q - p) % Q
InOrder(p, q, r, s) == Ahead(p, q) + Ahead(q, r) + Ahead(r, s) = Ahead(p, s)

DriverAt  == IF drx.pc \in {"sz_pub", "rd_wp", "rd_loop"} THEN drx.rp ELSE inRd
StreamAt  == IF srx.pc = "rd_loop" THEN srx.rp ELSE outRd
DriverTop == IF dtx.pc \in {"rp", "loop"} THEN dtx.wp ELSE outWr
StreamTop == IF stx.pc = "loop" THEN stx.wp ELSE inWr

\* On each ring the read pointer, the reader, the write pointer and the writer follow
\* one another: a reader takes only words that have been published, a writer stores
\* only where the words have been given back, although each works on private copies
\* of the pointers and on old copies of the other's (bidi_message_queue_drv_base.cpp:76-90,
\* 108-127, bidi_message_queue_direct_bfm.cpp:75-92, 115-139).
PointersInOrder ==
  /\ InOrder(inRd, DriverAt, inWr, StreamTop)
  /\ InOrder(outRd, StreamAt, outWr, DriverTop)

In  == INSTANCE MsgFifo WITH sent <- inSent, got <- inGot
Out == INSTANCE MsgFifo WITH sent <- outSent, got <- outGot

\* Messages to the processor arrive once, whole and in the order sent, those longer
\* than the ring too (send_message and read_next_message of svf_bridge_link_if).
InboundFifo == In!Spec

\* So do messages from the processor.
OutboundFifo == Out!Spec

\* A message to the processor is read in the end: a writer asleep on a full ring and
\* a reader polling an empty one never wait for each other
\* (bidi_message_queue_direct_bfm.cpp:128-135, bidi_message_queue_drv_base.cpp:85-88).
InboundArrives == In!FairSpec

\* A message from the processor is read in the end: no wake-up of the stream side is
\* lost (bidi_message_queue_direct_bfm.cpp:57-60, 83-88).
OutboundArrives == Out!FairSpec

\* A sender gets out of write_message: its thread is not held by a ring that stays full.
SendersReturn ==
  /\ (stx.pc # "idle") ~> (stx.pc = "idle")
  /\ (dtx.pc # "idle") ~> (dtx.pc = "idle")
=============================================================================
