--------------------------- MODULE L1Interconnect ---------------------------
(***************************************************************************)
(* axi4_l1_interconnect_2 with two CPUs in front and the SRAM bridge       *)
(* behind.  One step is one rising edge of the clock: every register of    *)
(* the design moves at once, from the values of the wires before the edge. *)
(* What is left open is what each idle CPU asks for, the way counter, and  *)
(* which of two RAM ports wins when both touch an entry on one edge.       *)
(***************************************************************************)
EXTENDS A23Fetch, SramBridge, L1Cache

VARIABLES
  arLast, awLast,  \* ar_last_owner, aw_last_owner: whom the arbiters served last
  wrOwner,         \* wr_next_owner: whose write data follows
  \* the rest is history, for the properties
  log,             \* log[i]: the location of the i-th write
  horizon          \* horizon[c]: the latest write CPU c knows to have happened

arbVars == <<arLast, awLast, wrOwner>>
history == <<log, horizon>>
vars == <<cpu, bridge, mem, rw, line, tagMem, dataMem, tagRd, tagWr, snoop, snoopRd,
          snoopWr, gen, arLast, awLast, wrOwner, log, horizon>>

TypeOK ==
  /\ CpuTypeOK
  /\ BridgeTypeOK
  /\ CacheTypeOK
  /\ arLast \in Port /\ awLast \in Port /\ wrOwner \in Port
  /\ log \in Seq(Loc) /\ Len(log) <= MaxWrites
  /\ horizon \in [Port -> Val]

Init ==
  /\ CpuInit
  /\ BridgeInit
  /\ CacheInit
  /\ arLast = 0 /\ awLast = 0 /\ wrOwner = 0
  /\ log = <<>>
  /\ horizon = [c \in Port |-> 0]

-----------------------------------------------------------------------------
(* The wires.  A set of ports stands for one valid/ready pair per port:    *)
(* the ports whose channel transfers on the coming edge.                   *)

Req == [c \in Port |-> cpu[c].req]

\* What each cache drives on its memory side.
MemARVALID(c) ==
  \/ rw[c].state = "FILL_AR"
  \/ rw[c].state = "WAIT_REQ" /\ ARVALID(c) /\ ~Req[c].cached
MemAWVALID(c) == rw[c].state = "WAIT_REQ" /\ AWVALID(c) /\ ~SnoopStall(Other(c))
MemRREADY(c) == rw[c].state = "FILL_RDATA" \/ (rw[c].state = "UNCACHED_RD" /\ RREADY(c))
MemWVALID(c) == WVALID(c) /\ rw[c].state \in {"UNCACHED_WR_1", "UNCACHED_WR_2", "HIT_WRITEBACK"}
MemBREADY(c) == BREADY(c) /\ rw[c].state \in {"UNCACHED_WR_1", "UNCACHED_WR_2", "WR_ACK"}

\* Mutant: a port that was served last waits for the other one to ask.
ArbitrateAlternating(last, valid0, valid1) ==
  IF valid0 /\ last = 1 THEN 0
  ELSE IF valid1 /\ last = 0 THEN 1
  ELSE 0

\* The address arbiters: the port not served last wins when both ask.
Arbitrate(last, valid0, valid1) ==
  IF valid0 /\ (last = 1 \/ ~valid1) THEN 0
  ELSE IF valid1 /\ (last = 0 \/ ~valid0) THEN 1
  ELSE 0

ArOwner == Arbitrate(arLast, MemARVALID(0), MemARVALID(1))
AwOwner == Arbitrate(awLast, MemAWVALID(0), MemAWVALID(1))

MemAr == IF MemARVALID(ArOwner) /\ ARREADY THEN {ArOwner} ELSE {}
MemAw == IF MemAWVALID(AwOwner) /\ AWREADY(MemARVALID(ArOwner)) THEN {AwOwner} ELSE {}
MemWr == IF MemWVALID(wrOwner) /\ WREADY THEN {wrOwner} ELSE {}
MemB  == IF BVALID /\ MemBREADY(bridge.port) THEN {bridge.port} ELSE {}
MemRd == IF RVALID /\ MemRREADY(bridge.port) THEN {bridge.port} ELSE {}

\* The CPU side.  A cached read is taken by the cache, an uncached one by the memory;
\* writes and their data and response pass through.
CpuAr == {c \in Port : ARVALID(c) /\ rw[c].state = "WAIT_REQ" /\ (Req[c].cached \/ c \in MemAr)}
CpuRd ==
  {c \in Port : RREADY(c) /\
     \/ rw[c].state = "HIT_READBACK"
     \/ rw[c].state = "UNCACHED_RD" /\ c \in MemRd
     \/ rw[c].state = "FILL_RDATA" /\ rw[c].count = 0 /\ c \in MemRd}

\* in.RDATA: the memory's beat or the addressed word of the way that hits.
ReadData(c) == IF rw[c].state = "HIT_READBACK" THEN HitData(c) ELSE RDATA

\* The pulse o_snoop_addr_valid goes to the other cache with the response of a write.
Snooped == {c \in Port : Other(c) \in MemB}

\* Mutant: a cache is snooped with the address of its own last write.
OwnSnoopAddr == [c \in Port |-> gen[c].loc]

SnoopAddr == [c \in Port |-> gen[Other(c)].loc]

MemAddr == [c \in Port |-> IF rw[c].state = "FILL_AR" THEN rw[c].loc ELSE Req[c].loc]
MemLen  == [c \in Port |-> IF rw[c].state = "FILL_AR" THEN Words - 1 ELSE 0]

\* The number of the write whose data is on the bus.
WriteNumber == Len(log) + 1
-----------------------------------------------------------------------------
(* The registers.                                                          *)

\* Bound: the writes begun, in all, stay within MaxWrites.
Started(next) ==
  Cardinality({c \in Port : next[c].state \in {"AW", "W"}})

\* What the core of CPU c may ask for on this edge.
Wanted(c) == IF cpu[c].state = "idle" THEN Requests[c] \cup {NoRequest} ELSE {NoRequest}

CpuClock ==
  /\ \E ask0 \in Wanted(0), ask1 \in Wanted(1) :
       cpu' = [c \in Port |-> CpuNext(c, IF c = 0 THEN ask0 ELSE ask1,
                                       CpuAr, CpuRd, MemAw, MemWr, MemB)]
  /\ Len(log) + Started(cpu') + Cardinality(MemWr) <= MaxWrites

CacheClock ==
  /\ \E rand \in IF MemAr # {} THEN Way ELSE {0} :
       rw' = [c \in Port |-> RwNext(c, Req, CpuAr, MemAw, MemWr, MemB, CpuRd, MemAr, MemRd,
                                    Snooped, SnoopAddr, rand)]
  /\ line' = [c \in Port |-> LineNext(c, MemWr, MemRd, RDATA, WriteNumber)]
  /\ dataMem' = [c \in Port |-> DataNext(c)]
  /\ tagMem' = [c \in Port |-> TagMemNext(c)]
  /\ tagWr' = [c \in Port |-> TagWrNext(c)]
  /\ \E early \in SUBSET {c \in Port : snoopWr[c].ways # {}} :
       tagRd' = [c \in Port |-> TagRdNext(c, c \in early, rw'[c].state)]

SnoopClock ==
  /\ snoop' = [c \in Port |-> SnoopNext(c, Snooped, SnoopAddr)]
  /\ \E early \in SUBSET {c \in Port : tagWr[c].ways # {}} :
       snoopRd' = [c \in Port |-> SnoopRdNext(c, c \in early)]
  /\ snoopWr' = [c \in Port |-> SnoopWrNext(c)]
  /\ gen' = [c \in Port |-> GenNext(c, Req, MemAw, MemB)]

ArbiterClock ==
  /\ arLast' = IF MemAr # {} THEN ArOwner ELSE arLast
  /\ wrOwner' = IF MemAw # {} THEN AwOwner ELSE wrOwner
  /\ awLast' = IF MemWr # {} THEN wrOwner ELSE awLast

MemoryClock ==
  /\ bridge' = BridgeNext(MemAr, MemRd, MemAw, MemWr, MemB, MemAddr, MemLen)
  /\ mem' = MemNext(MemWr, WriteNumber)

AtLeast(a, b) == IF a >= b THEN a ELSE b

History ==
  /\ log' = IF MemWr # {} THEN Append(log, bridge.loc) ELSE log
  /\ horizon' = [c \in Port |->
       IF c \in MemWr THEN WriteNumber
       ELSE IF c \in CpuRd THEN AtLeast(horizon[c], ReadData(c)) ELSE horizon[c]]

Clock ==
  /\ MemoryClock /\ ArbiterClock /\ SnoopClock /\ CacheClock
  /\ CpuClock
  /\ History

Next == Clock

Spec == Init /\ [][Next]_vars

\* The clock does not stop.
FairSpec == Spec /\ WF_vars(Next)

-----------------------------------------------------------------------------
(* Properties.                                                             *)

SameLine(k, l) == k.set = l.set /\ k.tag = l.tag

\* The clearing of the tags after reset has reached the tag RAM.
Running(c) ==
  /\ rw[c].state \notin {"INIT_TAG_1", "INIT_TAG_2"}
  /\ ~(tagWr[c].ways = Way /\ ~tagWr[c].entry.valid)

(***************************************************************************)
(* A port whose write is under way finds the snoop machine of the other    *)
(* cache idle, so the pulse it sends with the response is never missed.    *)
(* This is what o_snoop_stall is for (axi4_l1_cache_2.sv:529); a missed    *)
(* pulse would leave a stale line in place for good.                       *)
(***************************************************************************)
SnoopReady ==
  \A c \in Port : gen[c].state = "WAIT_ACK" => snoop[Other(c)].state = "WAIT_REQ"

(***************************************************************************)
(* A line is valid in one way of its set at most.  The snoop machine       *)
(* invalidates the first way that matches and the read path picks the      *)
(* last one, so a line held twice could stay stale after a snoop.          *)
(***************************************************************************)
NoDuplicateLines ==
  \A c \in Port : Running(c) =>
    \A s \in Set : \A v, w \in Way :
      tagMem[c][s][v].valid /\ tagMem[c][s][w].valid
        /\ tagMem[c][s][v].tag = tagMem[c][s][w].tag => v = w

(***************************************************************************)
(* The two ports of a tag RAM never write one entry on the same edge: the  *)
(* outcome would depend on the order of two always blocks, and a filled    *)
(* line could be dropped or an invalidation lost.                          *)
(***************************************************************************)
TagPortsDisjoint ==
  \A c \in Port : tagWr[c].set = snoopWr[c].set => tagWr[c].ways \cap snoopWr[c].ways = {}

\* A line of cache c that the other port's write has made stale is about to go.
InvalidationPending(c, l) ==
  \/ gen[Other(c)].state = "WAIT_ACK" /\ SameLine(gen[Other(c)].loc, l)
  \/ snoop[c].state # "WAIT_REQ" /\ SameLine(snoop[c].loc, l)
  \/ snoopWr[c].ways # {} /\ snoopWr[c].set = l.set /\ snoopWr[c].entry.tag = l.tag

\* Cache c is putting the way's own new contents in place.
Landing(c, s, w) ==
  /\ rw[c].loc.set = s /\ rw[c].way = w
  /\ rw[c].state \in {"FILL_RDATA", "WR_ACK"} \/ rw[c].count = Words

(***************************************************************************)
(* Coherence: every word of every valid line equals memory, unless the     *)
(* line's invalidation is on its way or its contents are just landing.     *)
(***************************************************************************)
LinesCurrent ==
  \A c \in Port : Running(c) =>
    \A s \in Set, w \in Way, i \in Word :
      LET l == [set |-> s, tag |-> tagMem[c][s][w].tag, word |-> i] IN
      \/ ~tagMem[c][s][w].valid
      \/ dataMem[c][s][w][i] = mem[l]
      \/ InvalidationPending(c, l)
      \/ Landing(c, s, w)

(***************************************************************************)
(* Sequential consistency, with the order of the writes in memory as the   *)
(* witness: a read returns a write to its own location that no later write *)
(* known to this CPU (by its own writes or by what it has read) replaced.  *)
(***************************************************************************)
SequentiallyConsistent ==
  \A c \in CpuRd :
    LET v == ReadData(c)
        l == Req[c].loc
    IN  /\ v # 0 => log[v] = l
        /\ \A i \in 1 .. Len(log) : log[i] = l /\ v < i => horizon[c] < i

(***************************************************************************)
(* A read returns data of the location it asked for: the initial contents  *)
(* or a write to that location (axi4_l1_cache_2.sv:274, "Capture the data  *)
(* read from the 'hit' way").                                              *)
(***************************************************************************)
ReadsOwnLocation ==
  \A c \in CpuRd : ReadData(c) # 0 => log[ReadData(c)] = Req[c].loc

(***************************************************************************)
(* Every access a CPU makes is answered: no arbiter, snoop stall or bridge *)
(* owner can hold a port off for ever.                                     *)
(***************************************************************************)
AccessServed ==
  \A c \in Port : cpu[c].state # "idle" ~> cpu[c].state = "idle"
=============================================================================
