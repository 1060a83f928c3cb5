----------------------------- MODULE UthSenders -----------------------------
(***************************************************************************)
(* Two cooperative threads that send through one queue driver              *)
(* (bidi_message_queue_drv_uth): the lock of the outbound ring is a uth    *)
(* mutex, and wait_outbound gives the processor away with the lock held.   *)
(* With two threads, yield goes to the other (RunsInTurn of SvfTasks).     *)
(***************************************************************************)
EXTENDS MessageQueue, Functions

VARIABLES
  curr,    \* the running thread
  owner,   \* of m_outbound_mutex: who locked it last; "none" at first
  locked,  \* its flag (mutex_md.locked)
  dtxB     \* thread "b" in write_message; dtx is thread "a"

B == INSTANCE QueueDriver WITH dtx <- dtxB

mutexVars == <<curr, owner, locked>>
senderVars == <<vars, mutexVars, dtxB>>

SendersInit ==
  /\ Init
  /\ curr = "a" /\ owner = "none" /\ locked = FALSE
  /\ dtxB = SenderIdle

\* uth_thread_yield.
Yield == curr' = IF curr = "a" THEN "b" ELSE "a"

\* uth_mutex_lock, when it gets through: the last owner does not ask for the flag.
Lock ==
  /\ owner # curr => ~locked
  /\ locked' = (locked \/ owner # curr)
  /\ owner' = curr
  /\ UNCHANGED curr

\* uth_mutex_unlock leaves the owner in place.
Unlock == locked' = FALSE /\ UNCHANGED <<curr, owner>>

\* The lock is taken: yield and try again.  Or the thread has nothing to send.
GiveWay ==
  /\ IF curr = "a" THEN dtx.pc = "idle" ELSE dtxB.pc = "idle"
  /\ Yield
  /\ UNCHANGED <<vars, owner, locked, dtxB>>

ASends == curr = "a" /\ DriverSends /\ Lock /\ UNCHANGED dtxB

AWrites ==
  /\ curr = "a"
  /\ \/ (DrvWriteWp \/ DrvWriteRp \/ DrvWriteWord) /\ UNCHANGED mutexVars
     \/ DrvWriteFull /\ Yield /\ UNCHANGED <<owner, locked>>
     \/ DrvWriteEnd /\ Unlock
  /\ UNCHANGED <<inRing, drx, driverSz, dtxB, streamVars, inLog, outLog>>

BSends ==
  /\ curr = "b" /\ Lock
  /\ \E m \in Messages : B!DrvWrite(m) /\ outSent' = Append(outSent, m)
  /\ <<inSent, outSent'>> \in Traffic
  /\ UNCHANGED <<inRing, driverVars, streamVars, inLog, outGot>>

BWrites ==
  /\ curr = "b"
  /\ \/ (B!DrvWriteWp \/ B!DrvWriteRp \/ B!DrvWriteWord) /\ UNCHANGED mutexVars
     \/ B!DrvWriteFull /\ Yield /\ UNCHANGED <<owner, locked>>
     \/ B!DrvWriteEnd /\ Unlock
  /\ UNCHANGED <<inRing, driverVars, streamVars, inLog, outLog>>

Stream == (StreamReads \/ MonitorOutbound) /\ UNCHANGED <<mutexVars, dtxB>>

SendersNext == GiveWay \/ ASends \/ AWrites \/ BSends \/ BWrites \/ Stream

SendersSpec == SendersInit /\ [][SendersNext]_senderVars

-----------------------------------------------------------------------------
\* What is read from the ring is a message that somebody sent, not words of two
\* (write_message, bidi_message_queue_drv_base.cpp:98-100: "Writes the message
\* pointed to be 'data' to the outbound message queue").
MessagesWhole == Range(outGot) \subseteq Range(outSent)
=============================================================================
