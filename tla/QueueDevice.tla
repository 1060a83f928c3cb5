---------------------------- MODULE QueueDevice -----------------------------
(***************************************************************************)
(* The message queue as a device: two rings of Q words in one memory, the  *)
(* pointers the processor and the stream side read and write, and the wait *)
(* monitor of the stream side.  A pointer has one writer: the processor    *)
(* owns inbound_rd_ptr and outbound_wr_ptr, the stream side the others.    *)
(* A ring whose pointers are equal is empty, so it holds Q - 1 words.      *)
(*                                                                         *)
(* The pointers are not reset; they start at 0, as an uninitialized reg    *)
(* does in the two-state simulator and reads through DPI in any.           *)
(***************************************************************************)
EXTENDS Integers, Sequences

CONSTANT Q   \* QUEUE_SZ: words per ring, a power of two

ASSUME QueueAssumption == Q \in Nat \ {0, 1}

VARIABLES
  inRd, inWr,    \* inbound_rd_ptr, inbound_wr_ptr
  outRd, outWr,  \* outbound_rd_ptr, outbound_wr_ptr
  mem,           \* the inbound ring at 0, the outbound ring at Q
  inReq, outReq  \* wait_inbound_avail_req, wait_outbound_avail_req

inRing  == <<inRd, inWr, inReq>>
outRing == <<outRd, outWr, outReq>>

Ptr  == 0 .. Q - 1
Addr == 0 .. 2 * Q - 1

DeviceTypeOK ==
  /\ inRd \in Ptr /\ inWr \in Ptr /\ outRd \in Ptr /\ outWr \in Ptr
  /\ mem \in [Addr -> Nat]
  /\ inReq \in BOOLEAN /\ outReq \in BOOLEAN

DeviceInit ==
  /\ inRd = 0 /\ inWr = 0 /\ outRd = 0 /\ outWr = 0
  /\ mem = [a \in Addr |-> 0]
  /\ inReq = FALSE /\ outReq = FALSE

\* Mutant: a pointer runs on past the end of its ring.
IncOnly(p) == p + 1

Inc(p) == (p + 1) % Q

\* Mutant: a full ring looks empty.
RoomForAll(wp, rp) == TRUE

\* A writer at wp may store a word: one slot stays free.
Room(wp, rp) == Inc(wp) # rp

\* Mutant: the writer's request is answered by the reader's condition.
InboundSome == inReq /\ inRd # inWr

\* The monitor, on a clock edge: it answers a request and drops it.
InboundAvail  == inReq /\ Room(inWr, inRd)
OutboundAvail == outReq /\ outRd # outWr
=============================================================================
