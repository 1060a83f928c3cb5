---------------------------- MODULE QueueCallers ----------------------------
(***************************************************************************)
(* What recv_loop does not do with the message queue but a comment allows: *)
(* on the stream side a second get_next_message_sz for the same message.   *)
(* The mutex there is the one of the DPI back end, a semaphore of one      *)
(* without an owner (svf/dpi/svf_pkg.sv).                                  *)
(***************************************************************************)
EXTENDS MessageQueue

VARIABLE outMutex  \* m_outbound_mutex is locked

callerVars == <<vars, outMutex>>

CallerInit == Init /\ outMutex = FALSE

\* The reading thread locks on entry and unlocks on return.
StreamCalls ==
  /\ StreamReads
  /\ srx.pc \in {"idle", "peeked"} => ~outMutex
  /\ outMutex' = (srx'.pc \notin {"idle", "peeked"})

\* The early return of get_next_message_sz: m_inbound_sz # -1.
StrPeekAgain ==
  /\ srx.pc = "peeked" /\ ~outMutex
  /\ outMutex' = TRUE
  /\ UNCHANGED vars

OtherThreads ==
  /\ \/ DriverReads \/ StreamSends \/ StreamWrites \/ MonitorInbound
     \/ DriverSends \/ DriverWrites \/ MonitorOutbound
  /\ UNCHANGED outMutex

CallerNext == StreamCalls \/ StrPeekAgain \/ OtherThreads

CallerSpec ==
  /\ CallerInit /\ [][CallerNext]_callerVars
  /\ WF_callerVars(StreamCalls)
  /\ WF_callerVars(DriverReads /\ UNCHANGED outMutex)
  /\ WF_callerVars(StreamWrites /\ UNCHANGED outMutex)
  /\ WF_callerVars(DriverWrites /\ UNCHANGED outMutex)
  /\ WF_callerVars(MonitorInbound /\ UNCHANGED outMutex)
  /\ WF_callerVars(MonitorOutbound /\ UNCHANGED outMutex)

\* A message whose size has been asked for can be read, even if it has been asked for
\* twice (bidi_message_queue_direct_bfm.cpp:39, "Just in case we read this already").
PeekedIsRead == (srx.pc = "peeked") ~> (srx.pc = "idle")
=============================================================================
