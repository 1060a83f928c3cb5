---------------------------- MODULE QueueStream -----------------------------
(***************************************************************************)
(* The stream side: bidi_message_queue_direct_bfm, one thread that writes  *)
(* the inbound ring and one that reads the outbound ring.  Its calls into  *)
(* the simulator take no time; a thread gives up control only when it      *)
(* waits on its condition variable, so raising the request and falling     *)
(* asleep are one step, and the monitor wakes it.                          *)
(***************************************************************************)
EXTENDS QueueDriver

VARIABLES
  srx,       \* the reading thread: where it is, rp, wp, and data[0..i-1]
  streamSz,  \* m_inbound_sz
  stx        \* the writing thread: where it is, rp, wp, i, and its message

streamVars == <<srx, streamSz, stx>>

StreamReader ==
  [pc : {"idle", "sz_ptrs", "sz_word", "sz_asleep", "peeked", "rd_ptrs", "rd_loop", "rd_asleep"},
   rp : Ptr, wp : Ptr, data : Seq(Nat)]
StreamWriter ==
  [pc : {"idle", "ptrs", "loop", "asleep"}, rp : Ptr, wp : Ptr, i : Nat, msg : Seq(Nat)]

StreamTypeOK == srx \in StreamReader /\ streamSz \in Nat \cup {-1} /\ stx \in StreamWriter

StreamInit == srx = DriverIdle /\ streamSz = -1 /\ stx = SenderIdle

-----------------------------------------------------------------------------
(* write_message.                                                          *)

StrWrite(m) ==
  /\ stx.pc = "idle"
  /\ stx' = [stx EXCEPT !.pc = "ptrs", !.i = 0, !.msg = m]
  /\ UNCHANGED <<inRing, mem>>

StrWritePtrs ==
  /\ stx.pc = "ptrs"
  /\ stx' = [stx EXCEPT !.pc = "loop", !.rp = inRd, !.wp = inWr]
  /\ UNCHANGED <<inRing, mem>>

StrWriteWord ==
  /\ stx.pc = "loop" /\ stx.i <= Len(stx.msg) /\ Room(stx.wp, stx.rp)
  /\ mem' = [mem EXCEPT ![stx.wp] = WordOf(stx.msg, stx.i)]
  /\ stx' = [stx EXCEPT !.i = @ + 1, !.wp = Inc(@)]
  /\ UNCHANGED inRing

\* The ring is full: show what is there, ask for space and wait.
StrWriteFull ==
  /\ stx.pc = "loop" /\ stx.i <= Len(stx.msg) /\ ~Room(stx.wp, stx.rp)
  /\ inWr' = stx.wp
  /\ inReq' = TRUE
  /\ stx' = [stx EXCEPT !.pc = "asleep"]
  /\ UNCHANGED <<inRd, mem>>

StrWriteEnd ==
  /\ stx.pc = "loop" /\ stx.i > Len(stx.msg)
  /\ inWr' = stx.wp
  /\ stx' = [stx EXCEPT !.pc = "idle"]
  /\ UNCHANGED <<inRd, inReq, mem>>

\* inbound_avail_ack.
StrWriteWake ==
  /\ InboundAvail
  /\ inReq' = FALSE
  /\ stx' = IF stx.pc = "asleep" THEN [stx EXCEPT !.pc = "ptrs"] ELSE stx
  /\ UNCHANGED <<inRd, inWr, mem>>

-----------------------------------------------------------------------------
(* get_next_message_sz.                                                    *)

StrPeek ==
  /\ srx.pc = "idle"
  /\ srx' = [srx EXCEPT !.pc = "sz_ptrs"]
  /\ UNCHANGED <<streamSz, outRing>>

StrPeekSome ==
  /\ srx.pc = "sz_ptrs" /\ outWr # outRd
  /\ srx' = [srx EXCEPT !.pc = "sz_word", !.rp = outRd, !.wp = outWr]
  /\ UNCHANGED <<streamSz, outRing>>

StrPeekNone ==
  /\ srx.pc = "sz_ptrs" /\ outWr = outRd
  /\ outReq' = TRUE
  /\ srx' = [srx EXCEPT !.pc = "sz_asleep", !.rp = outRd, !.wp = outWr]
  /\ UNCHANGED <<streamSz, outRd, outWr>>

\* Mutant: the size word is taken off the local copy of the pointer only.
StrPeekWordKeeps ==
  /\ srx.pc = "sz_word"
  /\ streamSz' = mem[Q + srx.rp]
  /\ srx' = [srx EXCEPT !.pc = "peeked", !.rp = Inc(@)]
  /\ UNCHANGED outRing

StrPeekWord ==
  /\ srx.pc = "sz_word"
  /\ streamSz' = mem[Q + srx.rp]
  /\ outRd' = Inc(srx.rp)
  /\ srx' = [srx EXCEPT !.pc = "peeked", !.rp = Inc(@)]
  /\ UNCHANGED <<outWr, outReq>>

-----------------------------------------------------------------------------
(* read_next_message.                                                      *)

StrRead ==
  /\ srx.pc = "peeked"
  /\ srx' = [srx EXCEPT !.pc = "rd_ptrs", !.data = <<>>]
  /\ UNCHANGED <<streamSz, outRing>>

StrReadPtrs ==
  /\ srx.pc = "rd_ptrs"
  /\ srx' = [srx EXCEPT !.pc = "rd_loop", !.rp = outRd, !.wp = outWr]
  /\ UNCHANGED <<streamSz, outRing>>

StrReadWord ==
  /\ srx.pc = "rd_loop" /\ Len(srx.data) < streamSz /\ srx.rp # srx.wp
  /\ srx' = [srx EXCEPT !.data = Append(@, mem[Q + srx.rp]), !.rp = Inc(@)]
  /\ UNCHANGED <<streamSz, outRing>>

\* All that was there is read: give the space back, ask for more and wait.
StrReadDrained ==
  /\ srx.pc = "rd_loop" /\ Len(srx.data) < streamSz /\ srx.rp = srx.wp
  /\ outRd' = srx.rp
  /\ outReq' = TRUE
  /\ srx' = [srx EXCEPT !.pc = "rd_asleep"]
  /\ UNCHANGED <<streamSz, outWr>>

StrReadEnd ==
  /\ srx.pc = "rd_loop" /\ Len(srx.data) = streamSz
  /\ outRd' = srx.rp
  /\ streamSz' = -1
  /\ srx' = [srx EXCEPT !.pc = "idle"]
  /\ UNCHANGED <<outWr, outReq>>

\* Mutant: the reader goes on with the pointers it had when it fell asleep.
StrReadWakeOld ==
  /\ OutboundAvail
  /\ outReq' = FALSE
  /\ srx' = CASE srx.pc = "sz_asleep" -> [srx EXCEPT !.pc = "sz_ptrs"]
              [] srx.pc = "rd_asleep" -> [srx EXCEPT !.pc = "rd_loop"]
              [] OTHER -> srx
  /\ UNCHANGED <<streamSz, outRd, outWr>>

\* outbound_avail_ack.
StrReadWake ==
  /\ OutboundAvail
  /\ outReq' = FALSE
  /\ srx' = CASE srx.pc = "sz_asleep" -> [srx EXCEPT !.pc = "sz_ptrs"]
              [] srx.pc = "rd_asleep" -> [srx EXCEPT !.pc = "rd_ptrs"]
              [] OTHER -> srx
  /\ UNCHANGED <<streamSz, outRd, outWr>>
=============================================================================
