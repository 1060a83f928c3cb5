---------------------------- MODULE L1IssueOrder ----------------------------
(***************************************************************************)
(* L1Interconnect with the order in which a test thread issues accesses:   *)
(* the thread starts a read on one port after the write it made on the     *)
(* other port has returned, as axi4_master_bfm.cpp does (write32 returns   *)
(* when the BFM's bresp puts the semaphore, and the next ar_valid is taken *)
(* on the following edge).                                                 *)
(***************************************************************************)
EXTENDS L1Interconnect

VARIABLE floor  \* floor[c]: the last write to the location CPU c is reading that had
                \* been answered when the read was issued

\* The last write to l whose response has been given.
Answered(l) ==
  LET done == {i \in 1 .. Len(log) : log[i] = l /\ ~(BVALID /\ i = Len(log))}
  IN  IF done = {} THEN 0 ELSE CHOOSE i \in done : \A j \in done : j <= i

IssueInit == Init /\ floor = [c \in Port |-> 0]

IssueNext ==
  /\ Next
  /\ floor' = [c \in Port |->
       CASE cpu[c].state = "idle" /\ cpu'[c].state = "AR" -> Answered(cpu'[c].req.loc)
         [] cpu'[c].state = "idle" -> 0
         [] OTHER -> floor[c]]

IssueSpec == IssueInit /\ [][IssueNext]_<<vars, floor>>

(***************************************************************************)
(* A read issued after a write of the other port has returned gets that    *)
(* write or a later one.  This is what the Write-invalidate part of        *)
(* axi4_l1_interconnect_2_traffic.cpp expects (lines 85-103): m1 writes,   *)
(* then m0 reads the new data.                                             *)
(***************************************************************************)
WriteInvalidate ==
  \A c \in CpuRd : ReadData(c) >= floor[c]
=============================================================================
