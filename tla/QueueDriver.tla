---------------------------- MODULE QueueDriver -----------------------------
(***************************************************************************)
(* The processor's side: bidi_message_queue_drv_base, one thread that      *)
(* reads the inbound ring and one that writes the outbound ring.  A step   *)
(* is one bus access (read32 or write32) with the local code up to the     *)
(* next.  wait_inbound and wait_outbound give the processor away (or do    *)
(* nothing) and return, so waiting is polling.                             *)
(***************************************************************************)
EXTENDS QueueDevice

VARIABLES
  drx,       \* the reading thread: where it is, rp, wp, and data[0..i-1]
  driverSz,  \* m_inbound_sz
  dtx        \* the writing thread: where it is, rp, wp, i, and its message

driverVars == <<drx, driverSz, dtx>>

DriverIdle == [pc |-> "idle", rp |-> 0, wp |-> 0, data |-> <<>>]
SenderIdle == [pc |-> "idle", rp |-> 0, wp |-> 0, i |-> 0, msg |-> <<>>]

DriverReader ==
  [pc : {"idle", "sz_rp", "sz_wp", "sz_word", "sz_pub", "peeked", "rd_rp", "rd_wp", "rd_loop"},
   rp : Ptr, wp : Ptr, data : Seq(Nat)]
DriverWriter ==
  [pc : {"idle", "wp", "rp", "loop"}, rp : Ptr, wp : Ptr, i : Nat, msg : Seq(Nat)]

DriverTypeOK == drx \in DriverReader /\ driverSz \in Nat \cup {-1} /\ dtx \in DriverWriter

DriverInit == drx = DriverIdle /\ driverSz = -1 /\ dtx = SenderIdle

-----------------------------------------------------------------------------
(* get_next_message_sz.                                                    *)

DrvPeek ==
  /\ drx.pc = "idle"
  /\ drx' = [drx EXCEPT !.pc = "sz_rp"]
  /\ UNCHANGED <<driverSz, inRing>>

DrvPeekRp ==
  /\ drx.pc = "sz_rp"
  /\ drx' = [drx EXCEPT !.pc = "sz_wp", !.rp = inRd]
  /\ UNCHANGED <<driverSz, inRing>>

\* Nothing there: wait_inbound, and look again.
DrvPeekWp ==
  /\ drx.pc = "sz_wp"
  /\ drx' = [drx EXCEPT !.pc = IF inWr # drx.rp THEN "sz_word" ELSE "sz_wp", !.wp = inWr]
  /\ UNCHANGED <<driverSz, inRing>>

DrvPeekWord ==
  /\ drx.pc = "sz_word"
  /\ driverSz' = mem[drx.rp]
  /\ drx' = [drx EXCEPT !.pc = "sz_pub", !.rp = Inc(drx.rp)]
  /\ UNCHANGED inRing

DrvPeekPub ==
  /\ drx.pc = "sz_pub"
  /\ inRd' = drx.rp
  /\ drx' = [drx EXCEPT !.pc = "peeked"]
  /\ UNCHANGED <<driverSz, inWr, inReq>>

-----------------------------------------------------------------------------
(* read_next_message.                                                      *)

DrvRead ==
  /\ drx.pc = "peeked"
  /\ drx' = [drx EXCEPT !.pc = "rd_rp", !.data = <<>>]
  /\ UNCHANGED <<driverSz, inRing>>

DrvReadRp ==
  /\ drx.pc = "rd_rp"
  /\ drx' = [drx EXCEPT !.pc = IF driverSz > 0 THEN "rd_wp" ELSE "rd_loop", !.rp = inRd]
  /\ UNCHANGED <<driverSz, inRing>>

DrvReadWp ==
  /\ drx.pc = "rd_wp"
  /\ drx' = [drx EXCEPT !.pc = "rd_loop", !.wp = inWr]
  /\ UNCHANGED <<driverSz, inRing>>

DrvReadWord ==
  /\ drx.pc = "rd_loop" /\ drx.rp # drx.wp /\ Len(drx.data) < driverSz
  /\ drx' = [drx EXCEPT !.data = Append(@, mem[drx.rp]), !.rp = Inc(@)]
  /\ UNCHANGED <<driverSz, inRing>>

\* Mutant: the drained ring's read pointer is not given back before waiting.
DrvReadDrainedKeeps ==
  /\ drx.pc = "rd_loop" /\ drx.rp = drx.wp /\ Len(drx.data) < driverSz
  /\ drx' = [drx EXCEPT !.pc = "rd_wp"]
  /\ UNCHANGED <<driverSz, inRing>>

\* All that was there is read: give the space back and wait_inbound.
DrvReadDrained ==
  /\ drx.pc = "rd_loop" /\ drx.rp = drx.wp /\ Len(drx.data) < driverSz
  /\ inRd' = drx.rp
  /\ drx' = [drx EXCEPT !.pc = "rd_wp"]
  /\ UNCHANGED <<driverSz, inWr, inReq>>

\* Mutant: the words read are not taken off the ring.
DrvReadEndKeeps ==
  /\ drx.pc = "rd_loop" /\ Len(drx.data) = driverSz
  /\ driverSz' = -1
  /\ drx' = [drx EXCEPT !.pc = "idle"]
  /\ UNCHANGED inRing

DrvReadEnd ==
  /\ drx.pc = "rd_loop" /\ Len(drx.data) = driverSz
  /\ inRd' = drx.rp
  /\ driverSz' = -1
  /\ drx' = [drx EXCEPT !.pc = "idle"]
  /\ UNCHANGED <<inWr, inReq>>

-----------------------------------------------------------------------------
(* write_message.                                                          *)

DrvWrite(m) ==
  /\ dtx.pc = "idle"
  /\ dtx' = [dtx EXCEPT !.pc = "wp", !.i = 0, !.msg = m]
  /\ UNCHANGED <<outRing, mem>>

DrvWriteWp ==
  /\ dtx.pc = "wp"
  /\ dtx' = [dtx EXCEPT !.pc = "rp", !.wp = outWr]
  /\ UNCHANGED <<outRing, mem>>

DrvWriteRp ==
  /\ dtx.pc = "rp"
  /\ dtx' = [dtx EXCEPT !.pc = "loop", !.rp = outRd]
  /\ UNCHANGED <<outRing, mem>>

\* The i-th word of a message on the ring: its size, then its data.
WordOf(m, i) == IF i = 0 THEN Len(m) ELSE m[i]

DrvWriteWord ==
  /\ dtx.pc = "loop" /\ dtx.i <= Len(dtx.msg) /\ Room(dtx.wp, dtx.rp)
  /\ mem' = [mem EXCEPT ![Q + dtx.wp] = WordOf(dtx.msg, dtx.i)]
  /\ dtx' = [dtx EXCEPT !.i = @ + 1, !.wp = Inc(@)]
  /\ UNCHANGED outRing

\* The ring is full: show what is there and wait_outbound.
DrvWriteFull ==
  /\ dtx.pc = "loop" /\ dtx.i <= Len(dtx.msg) /\ ~Room(dtx.wp, dtx.rp)
  /\ outWr' = dtx.wp
  /\ dtx' = [dtx EXCEPT !.pc = "rp"]
  /\ UNCHANGED <<outRd, outReq, mem>>

DrvWriteEnd ==
  /\ dtx.pc = "loop" /\ dtx.i > Len(dtx.msg)
  /\ outWr' = dtx.wp
  /\ dtx' = [dtx EXCEPT !.pc = "idle"]
  /\ UNCHANGED <<outRd, outReq, mem>>
=============================================================================
