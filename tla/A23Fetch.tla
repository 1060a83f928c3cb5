------------------------------ MODULE A23Fetch ------------------------------
(***************************************************************************)
(* The bus side of a CPU: the read and write state machines of             *)
(* axi4_a23_fetch_mp.  A CPU makes one access at a time (i_write_enable    *)
(* selects read or write, and the core is stalled until the access ends),  *)
(* so the two machines are one: "idle" is both at 0, "AR" and "R" are      *)
(* read_state 1 and 2, "AW", "W" and "B" are write_state 1, 2 and 3.       *)
(***************************************************************************)
EXTENDS L1Params

VARIABLE cpu   \* cpu[c].state, and the access cpu[c].req it is making

NoRequest == [op |-> "none"]

CpuState == {"idle", "AR", "R", "AW", "W", "B"}

CpuIdle == [state |-> "idle", req |-> NoRequest]

CpuTypeOK ==
  cpu \in [Port -> [state : CpuState \ {"idle"}, req : Request] \cup {CpuIdle}]

CpuInit == cpu = [c \in Port |-> CpuIdle]

ARVALID(c) == cpu[c].state = "AR"
AWVALID(c) == cpu[c].state = "AW"
WVALID(c)  == cpu[c].state = "W"
RREADY(c)  == cpu[c].state = "R"
BREADY(c)  == cpu[c].state = "B"

(***************************************************************************)
(* One clock edge of CPU c, whose core asks for r when it is idle (it may  *)
(* ask for nothing), given the ports whose AR, R, AW, W and B channels     *)
(* transfer on this edge.                                                  *)
(***************************************************************************)
CpuNext(c, r, ar, rd, aw, wr, b) ==
  LET to(s) == [cpu[c] EXCEPT !.state = s] IN
  CASE cpu[c].state = "idle" /\ r # NoRequest ->
         [state |-> IF r.op = "read" THEN "AR" ELSE "AW", req |-> r]
    [] cpu[c].state = "AR" /\ c \in ar -> to("R")
    [] cpu[c].state = "R"  /\ c \in rd -> CpuIdle
    [] cpu[c].state = "AW" /\ c \in aw -> to("W")
    [] cpu[c].state = "W"  /\ c \in wr -> to("B")
    [] cpu[c].state = "B"  /\ c \in b  -> CpuIdle
    [] OTHER -> cpu[c]
=============================================================================
