-------------------------- MODULE L1Safety_proofs --------------------------
(***************************************************************************)
(* Invariants of L1Interconnect for every number of sets, ways, words,     *)
(* tags and writes and for every set of requests: type correctness (one    *)
(* lemma per part of the state; the wires come first), the readiness of    *)
(* the snoop machine, lines that are in one way only, the two ports of the *)
(* tag RAMs, and coherence.  L1Consistency_proofs goes on from here.       *)
(***************************************************************************)
EXTENDS L1Interconnect, FiniteSetTheorems, WellFoundedInduction, TLAPS

\* The beat counter reaches the line length only when the fill has ended.
FillsBounded == \A c \in Port : rw[c].count = Words => rw[c].state = "WAIT_REQ"

(***************************************************************************)
(* What the priority encoders rest on: a set of ways that is not empty has *)
(* a first and a last member.                                              *)
(***************************************************************************)
LEMMA LeastNat ==
  ASSUME NEW T \in SUBSET Nat, T # {}
  PROVE  \E m \in T : \A n \in T : m <= n
<1> DEFINE R == OpToRel(<, Nat)
<1>1. IsWellFoundedOn(R, Nat) BY NatLessThanWellFounded
<1>2. \A x, y \in Nat : <<y, x>> \in R <=> y < x BY DEF OpToRel
<1> HIDE DEF R
<1>3. PICK x \in T : \A y \in T : ~ (<<y, x>> \in R) BY <1>1, WFMin
<1>4. \A y \in T : x <= y
  <2> TAKE y \in T
  <2>1. ~ (<<y, x>> \in R) BY <1>3
  <2>2. x \in Nat /\ y \in Nat OBVIOUS
  <2>3. ~ (y < x) BY <1>2, <2>1, <2>2
  <2> QED BY <2>2, <2>3
<1> QED BY <1>4

LEMMA GreatestBounded ==
  ASSUME NEW N \in Nat, NEW T \in SUBSET (0 .. N - 1), T # {}
  PROVE  \E m \in T : \A n \in T : n <= m
<1> DEFINE U == {y \in Nat : y <= N /\ N - y \in T}
<1>1. U # {} /\ U \in SUBSET Nat
  <2>1. PICK x \in T : TRUE OBVIOUS
  <2>2. N - x \in U BY <2>1
  <2> QED BY <2>2
<1>2. PICK m \in U : \A n \in U : m <= n BY <1>1, LeastNat
<1>3. \A n \in T : n <= N - m
  <2> TAKE n \in T
  <2>1. N - n \in U OBVIOUS
  <2>2. m <= N - n BY <1>2, <2>1
  <2> QED BY <2>2
<1> QED BY <1>2, <1>3

-----------------------------------------------------------------------------
(* Constants and wires.                                                    *)

LEMMA SomeLocOK == SomeLoc \in Loc
<1>1. Tags # {} BY RequestAssumption
<1>2. 0 \in Set /\ 0 \in Word BY DimensionAssumption DEF Set, Word
<1>3. \E l \in Loc : TRUE
  <2>1. PICK t \in Tags : TRUE BY <1>1
  <2>2. [set |-> 0, tag |-> t, word |-> 0] \in Loc BY <1>2 DEF Loc
  <2> QED BY <2>2
<1> QED BY <1>3 DEF SomeLoc

LEMMA IdleOK ==
  /\ 0 \in Set /\ 0 \in Way /\ 0 \in Word /\ 0 \in Val
  /\ NoWrite \in TagWrite
  /\ NoWrite.entry \in Entry
  /\ Blank \in [Way -> Entry]
  /\ ZeroLine \in [Word -> Val]
<1>1. 0 \in Set /\ 0 \in Way /\ 0 \in Word /\ 0 \in Val
  BY DimensionAssumption DEF Set, Way, Word, Val
<1>2. (CHOOSE t \in Tags : TRUE) \in Tags BY RequestAssumption
<1>3. NoWrite.entry \in Entry BY <1>2 DEF NoWrite, Entry
<1>4. NoWrite \in TagWrite BY <1>1, <1>2 DEF NoWrite, TagWrite, Entry
<1> QED BY <1>1, <1>3, <1>4 DEF Blank, ZeroLine

LEMMA PortFacts == \A c \in Port : Other(c) \in Port /\ Other(c) # c /\ Other(Other(c)) = c
BY DEF Port, Other

LEMMA OwnersOK == ArOwner \in Port /\ AwOwner \in Port
BY DEF ArOwner, AwOwner, Arbitrate, Port

(***************************************************************************)
(* A transfer happens on ports whose machines are in a state that drives   *)
(* the channel.                                                            *)
(***************************************************************************)
LEMMA WireStates ==
  ASSUME TypeOK
  PROVE  /\ \A c \in MemAr : c \in Port /\ bridge.state = "idle" /\ MemARVALID(c)
         /\ \A c \in MemAw : c \in Port /\ bridge.state = "idle" /\ MemAWVALID(c)
         /\ \A c \in MemWr : c \in Port /\ c = wrOwner /\ bridge.state = "W1" /\ MemWVALID(c)
         /\ \A c \in MemB  : c \in Port /\ c = bridge.port /\ bridge.state = "W2" /\ MemBREADY(c)
         /\ \A c \in MemRd : c \in Port /\ c = bridge.port /\ bridge.state = "R3" /\ MemRREADY(c)
         /\ \A c \in CpuAr : c \in Port /\ ARVALID(c) /\ rw[c].state = "WAIT_REQ"
         /\ \A c \in CpuRd : c \in Port /\ RREADY(c)
<1>1. wrOwner \in Port BY DEF TypeOK
<1>2. bridge.port \in Port BY DEF TypeOK, BridgeTypeOK
<1> QED BY <1>1, <1>2, OwnersOK DEF MemAr, MemAw, MemWr, MemB, MemRd, CpuAr, CpuRd,
      ARREADY, AWREADY, WREADY, BVALID, RVALID

\* A CPU that has a channel up holds a request.
LEMMA CpuBusy ==
  ASSUME TypeOK, NEW c \in Port, cpu[c].state # "idle"
  PROVE  cpu[c].req \in Request /\ cpu[c].req.loc \in Loc /\ cpu[c].req.cached \in BOOLEAN
BY DEF TypeOK, CpuTypeOK, CpuIdle, Request

LEMMA ReqOK ==
  ASSUME TypeOK, NEW c \in Port
  PROVE  /\ c \in CpuAr \cup MemAw => Req[c].loc \in Loc /\ Req[c] = cpu[c].req
         /\ c \in MemAr => MemAddr[c] \in Loc
         /\ c \in MemAw => MemAddr[c] \in Loc
         /\ MemLen[c] \in Word
         /\ SnoopAddr[c] \in Loc
<1>1. rw[c].loc \in Loc BY DEF TypeOK, CacheTypeOK
<1>2. ARVALID(c) \/ AWVALID(c) => Req[c] = cpu[c].req /\ Req[c].loc \in Loc
  BY CpuBusy DEF ARVALID, AWVALID, Req
<1>3. c \in CpuAr => ARVALID(c) BY WireStates
<1>4. c \in MemAw => AWVALID(c) BY WireStates DEF MemAWVALID
<1>5. c \in MemAr => rw[c].state = "FILL_AR" \/ ARVALID(c) BY WireStates DEF MemARVALID
<1>6. MemAddr[c] = IF rw[c].state = "FILL_AR" THEN rw[c].loc ELSE Req[c].loc BY DEF MemAddr
<1>7. MemLen[c] \in Word BY DimensionAssumption DEF MemLen, Word
<1>8. SnoopAddr[c] \in Loc
  <2>1. Other(c) \in Port BY PortFacts
  <2>2. SnoopAddr[c] = gen[Other(c)].loc BY DEF SnoopAddr
  <2> QED BY <2>1, <2>2 DEF TypeOK, CacheTypeOK
<1> QED BY <1>1, <1>2, <1>3, <1>4, <1>5, <1>6, <1>7, <1>8

LEMMA WordArith ==
  /\ \A i \in Int : i % Words \in Word
  /\ \A l \in Loc : NextWord(l) \in Loc
<1>1. \A i \in Int : i % Words \in Word
  BY DimensionAssumption DEF Word
<1>2. ASSUME NEW l \in Loc PROVE NextWord(l) \in Loc
  <2>1. l.word + 1 \in Int BY DEF Loc, Word
  <2>2. (l.word + 1) % Words \in Word BY <1>1, <2>1
  <2> QED BY <2>2 DEF NextWord, Loc
<1> QED BY <1>1, <1>2

LEMMA DataOK ==
  ASSUME TypeOK, NEW c \in Port
  PROVE  /\ RDATA \in Val
         /\ HitWay(c) \in Way
         /\ \A rand \in Way : WaySel(c, rand) \in Way
         /\ FillWord(c) \in Word
         /\ ReadData(c) \in Val
<1>1. RDATA \in Val BY DEF TypeOK, BridgeTypeOK, RDATA
<1>2. HitWay(c) \in Way
  <2>1. CASE Hit(c)
    <3>1. HitWays(c) \in SUBSET (0 .. Ways - 1) BY DEF HitWays, Way
    <3>2. PICK m \in HitWays(c) : \A v \in HitWays(c) : v <= m
      BY <2>1, <3>1, GreatestBounded, DimensionAssumption DEF Hit
    <3> QED BY <2>1, <3>1, <3>2 DEF HitWay, Way
  <2>2. CASE ~Hit(c) BY <2>2, IdleOK DEF HitWay
  <2> QED BY <2>1, <2>2
<1>3. ASSUME NEW rand \in Way PROVE WaySel(c, rand) \in Way
  <2> DEFINE free == {w \in Way : ~tagRd[c][w].valid}
  <2>1. WaySel(c, rand) = IF free = {} THEN rand
                          ELSE CHOOSE w \in free : \A v \in free : w <= v
    BY DEF WaySel
  <2>2. free \in SUBSET Way /\ free \in SUBSET Nat BY DEF Way
  <2> HIDE DEF free
  <2>3. CASE free # {}
    <3>1. PICK m \in free : \A v \in free : m <= v BY <2>2, <2>3, LeastNat
    <3> QED BY <2>1, <2>2, <2>3, <3>1
  <2> QED BY <2>1, <2>3
<1>4. FillWord(c) \in Word
  <2>1. rw[c].loc \in Loc /\ rw[c].count \in 0 .. Words BY DEF TypeOK, CacheTypeOK
  <2>2. rw[c].loc.word + rw[c].count \in Int
    BY <2>1, DimensionAssumption DEF Loc, Word
  <2> QED BY <2>2, WordArith DEF FillWord
<1>5. HitData(c) \in Val
  <2>1. rw[c].loc \in Loc /\ dataMem[c] \in [Set -> [Way -> [Word -> Val]]]
    BY DEF TypeOK, CacheTypeOK
  <2>2. rw[c].loc.set \in Set /\ rw[c].loc.word \in Word BY <2>1 DEF Loc
  <2> QED BY <1>2, <2>1, <2>2 DEF HitData
<1> QED BY <1>1, <1>2, <1>3, <1>4, <1>5 DEF ReadData

-----------------------------------------------------------------------------
(* The parts of the state, one edge later.                                 *)

LEMMA CpuTypeStep ==
  ASSUME TypeOK, CpuClock
  PROVE  CpuTypeOK'
<1>1. PICK ask0 \in Wanted(0), ask1 \in Wanted(1) :
        cpu' = [c \in Port |-> CpuNext(c, IF c = 0 THEN ask0 ELSE ask1,
                                        CpuAr, CpuRd, MemAw, MemWr, MemB)]
  BY DEF CpuClock
<1> DEFINE Good == [state : CpuState \ {"idle"}, req : Request] \cup {CpuIdle}
<1>2. ASSUME NEW c \in Port, NEW r \in Wanted(c)
      PROVE  CpuNext(c, r, CpuAr, CpuRd, MemAw, MemWr, MemB) \in Good
  <2>1. cpu[c] \in Good BY DEF TypeOK, CpuTypeOK
  <2>2. r # NoRequest => r \in Request
    BY RequestAssumption DEF Wanted
  <2>3. cpu[c].state \in CpuState BY <2>1 DEF CpuIdle, CpuState
  <2>4. CASE cpu[c].state = "idle"
    BY <2>1, <2>2, <2>4 DEF CpuNext, CpuIdle, CpuState
  <2>5. CASE cpu[c].state # "idle"
    <3>1. cpu[c] \in [state : CpuState \ {"idle"}, req : Request] BY <2>1, <2>5 DEF CpuIdle
    <3>2. \A s \in {"R", "W", "B"} : [cpu[c] EXCEPT !.state = s] \in Good
      BY <3>1 DEF CpuState
    <3> QED BY <3>1, <3>2, <2>5 DEF CpuNext
  <2> QED BY <2>4, <2>5
<1>3. 0 \in Port /\ 1 \in Port /\ \A c \in Port : c = 0 \/ c = 1 BY DEF Port
<1>4. cpu' \in [Port -> Good] BY <1>1, <1>2, <1>3
<1> QED BY <1>4 DEF CpuTypeOK

LEMMA BridgeTypeStep ==
  ASSUME TypeOK, MemoryClock, Len(log) + 1 \in Val \/ MemWr = {}
  PROVE  BridgeTypeOK'
<1> DEFINE B == [state : BridgeState, port : Port, loc : Loc, left : Word]
<1>1. bridge \in B BY DEF TypeOK, BridgeTypeOK
<1>2. BridgeIdle \in B BY SomeLocOK, IdleOK DEF BridgeIdle, BridgeState, Port
<1>3. bridge' \in B
  <2>1. CASE MemAr # {}
    <3>1. PICK p \in MemAr : MemAr = {p} BY <2>1 DEF MemAr
    <3>2. p \in Port /\ MemAddr[p] \in Loc /\ MemLen[p] \in Word
      BY <3>1, WireStates, ReqOK
    <3>3. bridge' = [state |-> "R1", port |-> p, loc |-> MemAddr[p], left |-> MemLen[p]]
      <4>1. bridge' = BridgeNext({p}, MemRd, MemAw, MemWr, MemB, MemAddr, MemLen)
        BY <3>1 DEF MemoryClock
      <4>2. (CHOOSE q \in {p} : TRUE) = p OBVIOUS
      <4> QED BY <3>1, <4>1, <4>2, WireStates DEF BridgeNext
    <3> QED BY <3>2, <3>3 DEF BridgeState
  <2>2. CASE MemAr = {} /\ MemAw # {}
    <3>1. PICK p \in MemAw : MemAw = {p} BY <2>2 DEF MemAw
    <3>2. p \in Port /\ MemAddr[p] \in Loc BY <3>1, WireStates, ReqOK
    <3>3. bridge' = [state |-> "W1", port |-> p, loc |-> MemAddr[p], left |-> 0]
      <4>1. bridge' = BridgeNext({}, MemRd, {p}, MemWr, MemB, MemAddr, MemLen)
        BY <2>2, <3>1 DEF MemoryClock
      <4>2. (CHOOSE q \in {p} : TRUE) = p OBVIOUS
      <4> QED BY <3>1, <4>1, <4>2, WireStates DEF BridgeNext
    <3> QED BY <3>2, <3>3, IdleOK DEF BridgeState
  <2>3. CASE MemAr = {} /\ MemAw = {}
    <3>1. \A s \in BridgeState : [bridge EXCEPT !.state = s] \in B BY <1>1
    <3>2. ASSUME bridge.left # 0
          PROVE  [bridge EXCEPT !.state = "R4", !.loc = NextWord(@), !.left = @ - 1] \in B
      <4>1. NextWord(bridge.loc) \in Loc BY <1>1, WordArith
      <4>2. bridge.left - 1 \in Word BY <1>1, <3>2, DimensionAssumption DEF Word
      <4> QED BY <1>1, <4>1, <4>2 DEF BridgeState
    <3>3. bridge' = BridgeNext({}, MemRd, {}, MemWr, MemB, MemAddr, MemLen)
      BY <2>3 DEF MemoryClock
    <3> QED BY <1>1, <1>2, <3>1, <3>2, <3>3 DEF BridgeNext, BridgeState, RLAST
  <2> QED BY <2>1, <2>2, <2>3
<1>4. mem' \in [Loc -> Val]
  BY DEF TypeOK, BridgeTypeOK, MemoryClock, MemNext, WriteNumber
<1> QED BY <1>3, <1>4 DEF BridgeTypeOK

\* The registers of the read/write state machine.
LEMMA RwTypeStep ==
  ASSUME TypeOK, FillsBounded, NEW c \in Port, NEW rand \in Way
  PROVE  RwNext(c, Req, CpuAr, MemAw, MemWr, MemB, CpuRd, MemAr, MemRd, Snooped, SnoopAddr, rand)
           \in [state : RwState, loc : Loc, ok : BOOLEAN, count : 0 .. Words, way : Way]
<1> DEFINE T == [state : RwState, loc : Loc, ok : BOOLEAN, count : 0 .. Words, way : Way]
           cur == rw[c]
<1>1. cur \in T BY DEF TypeOK, CacheTypeOK
<1>2. 0 \in 0 .. Words BY DimensionAssumption
<1>3. RwIdle \in T BY <1>2, SomeLocOK, IdleOK DEF RwIdle, RwState
<1>4. \A s \in RwState : [RwIdle EXCEPT !.state = s] \in T BY <1>3
<1>5. \A s \in RwState : [cur EXCEPT !.state = s] \in T BY <1>1
<1>7. \A s \in RwState : [[cur EXCEPT !.state = s] EXCEPT !.ok = FALSE] \in T BY <1>1
<1>8. [cur EXCEPT !.state = "FILL_AR", !.count = 0] \in T BY <1>1, <1>2 DEF RwState
<1>9. ASSUME c \in CpuAr \cup MemAw
      PROVE  \A s \in RwState, ok \in BOOLEAN :
               [RwIdle EXCEPT !.state = s, !.loc = Req[c].loc, !.ok = ok] \in T
  BY <1>3, <1>9, ReqOK
<1>10. ASSUME cur.state = "FILL_RDATA"
       PROVE  [cur EXCEPT !.state = IF LastBeat(c) THEN "WAIT_REQ" ELSE @, !.count = @ + 1] \in T
  <2>1. cur.count + 1 \in 0 .. Words BY <1>1, <1>10, DimensionAssumption DEF FillsBounded
  <2> QED BY <1>1, <1>10, <2>1 DEF RwState
<1>11. ASSUME cur.loc.set # Sets - 1
       PROVE  [cur EXCEPT !.state = "INIT_TAG_1", !.loc.set = @ + 1] \in T
  <2>1. cur.loc.set + 1 \in Set BY <1>1, <1>11, DimensionAssumption DEF Loc, Set
  <2>2. [cur.loc EXCEPT !.set = @ + 1] \in Loc BY <1>1, <2>1 DEF Loc
  <2> QED BY <1>1, <2>2 DEF RwState
<1> DEFINE next == RwNext(c, Req, CpuAr, MemAw, MemWr, MemB, CpuRd, MemAr, MemRd,
                          Snooped, SnoopAddr, rand)
<1> SUFFICES next \in T OBVIOUS
<1>12. CASE cur.state = "WAIT_REQ"
  <2> DEFINE fresh == ~(c \in Snooped /\ SnoopAddr[c].set = Req[c].loc.set)
  <2>1. fresh \in BOOLEAN OBVIOUS
  <2> HIDE DEF fresh
  <2>2. next \in {RwIdle,
                 [RwIdle EXCEPT !.state = "CHECK_RD_HIT_1", !.loc = Req[c].loc, !.ok = fresh],
                 [RwIdle EXCEPT !.state = "UNCACHED_RD"],
                 [RwIdle EXCEPT !.state = "CHECK_WR_HIT_1", !.loc = Req[c].loc, !.ok = FALSE],
                 [RwIdle EXCEPT !.state = "UNCACHED_WR_1"]}
    BY <1>12 DEF RwNext, fresh
  <2>3. CASE c \in CpuAr \cup MemAw
    <3>1. [RwIdle EXCEPT !.state = "CHECK_RD_HIT_1", !.loc = Req[c].loc, !.ok = fresh] \in T
      BY <2>1, <2>3, <1>9 DEF RwState
    <3>2. [RwIdle EXCEPT !.state = "CHECK_WR_HIT_1", !.loc = Req[c].loc, !.ok = FALSE] \in T
      BY <2>3, <1>9 DEF RwState
    <3>3. [RwIdle EXCEPT !.state = "UNCACHED_RD"] \in T BY <1>4 DEF RwState
    <3>4. [RwIdle EXCEPT !.state = "UNCACHED_WR_1"] \in T BY <1>4 DEF RwState
    <3> HIDE DEF T, next
    <3> QED BY <2>2, <3>1, <3>2, <3>3, <3>4, <1>3
  <2>4. CASE c \notin CpuAr \cup MemAw
    BY <1>12, <2>4, <1>3 DEF RwNext
  <2> QED BY <2>3, <2>4
<1>13. CASE cur.state \in {"CHECK_RD_HIT_1", "CHECK_RD_HIT_2"}
  <2>1. PICK s \in RwState : next \in {[cur EXCEPT !.state = s], [[cur EXCEPT !.state = s] EXCEPT !.ok = FALSE]}
    BY <1>13 DEF RwNext, RwState
  <2> QED BY <2>1, <1>5, <1>7
<1>14. CASE cur.state = "CHECK_RD_HIT_3"
  BY <1>14, <1>5, <1>8 DEF RwNext, RwState
<1>15. CASE cur.state \in {"HIT_READBACK", "UNCACHED_RD", "UNCACHED_WR_1", "UNCACHED_WR_2",
                          "HIT_WRITEBACK", "WR_ACK"}
  <2>1. CASE cur.state \in {"HIT_READBACK", "UNCACHED_RD"}
    <3>1. next \in {RwIdle, cur} BY <2>1 DEF RwNext
    <3> HIDE DEF T, next, cur
    <3> QED BY <3>1, <1>1, <1>3
  <2>2. CASE cur.state \in {"UNCACHED_WR_2", "WR_ACK"}
    <3>1. next \in {RwIdle, cur} BY <2>2 DEF RwNext
    <3> HIDE DEF T, next, cur
    <3> QED BY <3>1, <1>1, <1>3
  <2>3. CASE cur.state = "UNCACHED_WR_1"
    <3>1. next \in {[cur EXCEPT !.state = "UNCACHED_WR_2"], cur} BY <2>3 DEF RwNext
    <3>2. [cur EXCEPT !.state = "UNCACHED_WR_2"] \in T BY <1>5 DEF RwState
    <3> HIDE DEF T, next, cur
    <3> QED BY <3>1, <3>2, <1>1
  <2>4. CASE cur.state = "HIT_WRITEBACK"
    <3>1. next \in {[cur EXCEPT !.state = "WR_ACK"], cur} BY <2>4 DEF RwNext
    <3>2. [cur EXCEPT !.state = "WR_ACK"] \in T BY <1>5 DEF RwState
    <3> HIDE DEF T, next, cur
    <3> QED BY <3>1, <3>2, <1>1
  <2> QED BY <1>15, <2>1, <2>2, <2>3, <2>4
<1>16. CASE cur.state \in {"CHECK_WR_HIT_1", "CHECK_WR_HIT_2", "INIT_TAG_1"}
  <2>1. PICK s \in RwState : next = [cur EXCEPT !.state = s]
    <3>1. CASE cur.state = "CHECK_WR_HIT_1" BY <3>1 DEF RwNext, RwState
    <3>2. CASE cur.state = "CHECK_WR_HIT_2" BY <3>2 DEF RwNext, RwState
    <3>3. CASE cur.state = "INIT_TAG_1" BY <3>3 DEF RwNext, RwState
    <3> QED BY <1>16, <3>1, <3>2, <3>3
  <2> HIDE DEF T, next, cur
  <2> QED BY <2>1, <1>5
<1>17. CASE cur.state = "CHECK_WR_HIT_3"
  <2>1. next \in {[cur EXCEPT !.state = "HIT_WRITEBACK", !.way = HitWay(c)],
                 [cur EXCEPT !.state = "UNCACHED_WR_1"]}
    BY <1>17 DEF RwNext
  <2>2. HitWay(c) \in Way BY DataOK
  <2>3. [cur EXCEPT !.state = "HIT_WRITEBACK", !.way = HitWay(c)] \in T
    BY <1>1, <2>2 DEF RwState
  <2>4. [cur EXCEPT !.state = "UNCACHED_WR_1"] \in T BY <1>1 DEF RwState
  <2> HIDE DEF T, next
  <2> QED BY <2>1, <2>3, <2>4
<1>18. CASE cur.state = "FILL_AR"
  <2>1. next \in {[cur EXCEPT !.state = "FILL_RDATA", !.way = WaySel(c, rand)], cur}
    BY <1>18 DEF RwNext
  <2>2. WaySel(c, rand) \in Way BY DataOK
  <2>3. [cur EXCEPT !.state = "FILL_RDATA", !.way = WaySel(c, rand)] \in T
    BY <1>1, <2>2 DEF RwState
  <2> HIDE DEF T, next
  <2> QED BY <1>1, <2>1, <2>3
<1>19. CASE cur.state = "FILL_RDATA"
  BY <1>19, <1>1, <1>10 DEF RwNext, RwState
<1>20. CASE cur.state = "INIT_TAG_2"
  BY <1>20, <1>3, <1>11 DEF RwNext, RwState
<1> QED BY <1>1, <1>12, <1>13, <1>14, <1>15, <1>16, <1>17, <1>18, <1>19, <1>20 DEF RwState

\* The bound on writes leaves room for the number of the write on the bus.
LEMMA WriteBound ==
  ASSUME TypeOK, CpuClock
  PROVE  MemWr # {} => WriteNumber \in Val
<1>1. SUFFICES ASSUME MemWr # {} PROVE Len(log) + 1 \in Val BY DEF WriteNumber
<1>2. Len(log) + Started(cpu') + Cardinality(MemWr) <= MaxWrites BY DEF CpuClock
<1>3. MemWr = {wrOwner} BY <1>1 DEF MemWr
<1>4. Cardinality(MemWr) = 1 BY <1>3, FS_Singleton
<1>5. Started(cpu') \in Nat
  <2>1. IsFiniteSet(Port)
    <3>1. IsFiniteSet({0}) BY FS_Singleton
    <3>2. IsFiniteSet({0} \cup {1}) BY <3>1, FS_AddElement
    <3>3. Port = {0} \cup {1} BY DEF Port
    <3> QED BY <3>2, <3>3
  <2> DEFINE S == {c \in Port : cpu'[c].state \in {"AW", "W"}}
  <2>2. IsFiniteSet(S) BY <2>1, FS_Subset
  <2> QED BY <2>2, FS_CardinalityType DEF Started
<1>6. Len(log) \in Nat BY DEF TypeOK
<1> QED BY <1>2, <1>4, <1>5, <1>6, DimensionAssumption DEF Val

LEMMA LineTypeStep ==
  ASSUME TypeOK, NEW c \in Port, MemWr # {} => WriteNumber \in Val
  PROVE  LineNext(c, MemWr, MemRd, RDATA, WriteNumber) \in [Word -> Val]
<1>1. line[c] \in [Word -> Val] BY DEF TypeOK, CacheTypeOK
<1>2. [line[c] EXCEPT ![FillWord(c)] = RDATA] \in [Word -> Val] BY <1>1, DataOK
<1>3. ASSUME MemWr # {}
      PROVE  [line[c] EXCEPT ![rw[c].loc.word] = WriteNumber] \in [Word -> Val]
  BY <1>1, <1>3
<1>4. CASE rw[c].state = "HIT_WRITEBACK" BY <1>1, <1>3, <1>4 DEF LineNext
<1>5. CASE rw[c].state # "HIT_WRITEBACK" BY <1>1, <1>2, <1>5, IdleOK DEF LineNext
<1> QED BY <1>4, <1>5

LEMMA DataTypeStep ==
  ASSUME TypeOK, FillsBounded, NEW c \in Port
  PROVE  DataNext(c) \in [Set -> [Way -> [Word -> Val]]]
<1> DEFINE D == [Set -> [Way -> [Word -> Val]]]
           s == rw[c].loc.set
           w == rw[c].way
           i == rw[c].loc.word
<1>1. s \in Set /\ w \in Way /\ i \in Word BY DEF TypeOK, CacheTypeOK, Loc
<1>2. dataMem[c] \in D /\ line[c] \in [Word -> Val] BY DEF TypeOK, CacheTypeOK
<1>3. [dataMem[c] EXCEPT ![s][w] = line[c]] \in D BY <1>1, <1>2
<1>4. [dataMem[c] EXCEPT ![s][w][i] = line[c][i]] \in D
  <2>1. [dataMem[c][s][w] EXCEPT ![i] = line[c][i]] \in [Word -> Val] BY <1>1, <1>2
  <2>2. [dataMem[c][s] EXCEPT ![w] = [dataMem[c][s][w] EXCEPT ![i] = line[c][i]]]
          \in [Way -> [Word -> Val]]
    BY <1>1, <1>2, <2>1
  <2> QED BY <1>1, <1>2, <2>2
<1>5. CASE rw[c].count = Words BY <1>3, <1>5 DEF DataNext, FillsBounded
<1>6. CASE rw[c].count # Words BY <1>2, <1>4, <1>6 DEF DataNext
<1> QED BY <1>5, <1>6

LEMMA AppliedOK ==
  ASSUME NEW tags \in [Set -> [Way -> Entry]], NEW wr \in TagWrite
  PROVE  /\ Applied(tags, wr) \in [Set -> [Way -> Entry]]
         /\ \A s \in Set, w \in Way :
              Applied(tags, wr)[s][w] = IF s = wr.set /\ w \in wr.ways THEN wr.entry ELSE tags[s][w]
BY DEF Applied, TagWrite

LEMMA TagTypeStep ==
  ASSUME TypeOK, NEW c \in Port
  PROVE  /\ TagMemNext(c) \in [Set -> [Way -> Entry]]
         /\ TagWrNext(c) \in TagWrite
         /\ \A early \in BOOLEAN, st \in RwState : TagRdNext(c, early, st) \in [Way -> Entry]
         /\ \A early \in BOOLEAN : SnoopRdNext(c, early) \in [Way -> Entry]
         /\ SnoopWrNext(c) \in TagWrite
<1>1. /\ tagMem[c] \in [Set -> [Way -> Entry]]
      /\ tagWr[c] \in TagWrite /\ snoopWr[c] \in TagWrite
      /\ rw[c].loc \in Loc /\ rw[c].way \in Way /\ rw[c].ok \in BOOLEAN
      /\ snoop[c].loc \in Loc
  BY DEF TypeOK, CacheTypeOK
<1>2. /\ rw[c].loc.set \in Set /\ rw[c].loc.tag \in Tags
      /\ snoop[c].loc.set \in Set /\ snoop[c].loc.tag \in Tags
  BY <1>1 DEF Loc
<1>3. TagMemNext(c) \in [Set -> [Way -> Entry]] BY <1>1, AppliedOK DEF TagMemNext
<1>4. TagWrNext(c) \in TagWrite
  <2>1. [set |-> rw[c].loc.set, ways |-> {rw[c].way},
         entry |-> [valid |-> rw[c].ok, tag |-> rw[c].loc.tag]] \in TagWrite
    BY <1>1, <1>2 DEF TagWrite, Entry
  <2>2. [NoWrite EXCEPT !.set = rw[c].loc.set, !.ways = Way] \in TagWrite
    BY <1>2, IdleOK DEF TagWrite
  <2> QED BY <2>1, <2>2, IdleOK DEF TagWrNext
<1>5. ASSUME NEW early \in BOOLEAN, NEW st \in RwState
      PROVE  TagRdNext(c, early, st) \in [Way -> Entry]
  <2>1. /\ Applied(tagMem[c], snoopWr[c])[rw[c].loc.set] \in [Way -> Entry]
        /\ tagMem[c][rw[c].loc.set] \in [Way -> Entry]
    BY <1>1, <1>2, AppliedOK
  <2> QED BY <2>1, IdleOK DEF TagRdNext
<1>6. ASSUME NEW early \in BOOLEAN PROVE SnoopRdNext(c, early) \in [Way -> Entry]
  <2>1. /\ Applied(tagMem[c], tagWr[c])[snoop[c].loc.set] \in [Way -> Entry]
        /\ tagMem[c][snoop[c].loc.set] \in [Way -> Entry]
    BY <1>1, <1>2, AppliedOK
  <2> QED BY <2>1, IdleOK DEF SnoopRdNext
<1>7. SnoopWrNext(c) \in TagWrite
  <2>1. CASE SnoopHits(c) # {}
    <3>1. SnoopHits(c) \in SUBSET Nat /\ SnoopHits(c) \in SUBSET Way BY DEF SnoopHits, Way
    <3>2. PICK m \in SnoopHits(c) : \A v \in SnoopHits(c) : m <= v BY <2>1, <3>1, LeastNat
    <3>3. SnoopHitWay(c) \in Way BY <3>1, <3>2 DEF SnoopHitWay
    <3>4. [set |-> snoop[c].loc.set, ways |-> {SnoopHitWay(c)},
           entry |-> [valid |-> FALSE, tag |-> snoop[c].loc.tag]] \in TagWrite
      BY <1>2, <3>3 DEF TagWrite, Entry
    <3> QED BY <3>4, IdleOK DEF SnoopWrNext
  <2>2. CASE SnoopHits(c) = {} BY <2>2, IdleOK DEF SnoopWrNext
  <2> QED BY <2>1, <2>2
<1> QED BY <1>3, <1>4, <1>5, <1>6, <1>7

LEMMA CountStep ==
  ASSUME TypeOK, FillsBounded, CacheClock
  PROVE  FillsBounded'
<1>1. PICK rand \in Way :
        rw' = [c \in Port |-> RwNext(c, Req, CpuAr, MemAw, MemWr, MemB, CpuRd, MemAr, MemRd,
                                     Snooped, SnoopAddr, rand)]
  BY IdleOK DEF CacheClock
<1> SUFFICES ASSUME NEW c \in Port, rw'[c].count = Words PROVE rw'[c].state = "WAIT_REQ"
  BY DEF FillsBounded
<1> DEFINE cur == rw[c]
           next == RwNext(c, Req, CpuAr, MemAw, MemWr, MemB, CpuRd, MemAr, MemRd,
                          Snooped, SnoopAddr, rand)
<1>2. next = rw'[c] BY <1>1
<1>3. cur \in [state : RwState, loc : Loc, ok : BOOLEAN, count : 0 .. Words, way : Way]
  BY DEF TypeOK, CacheTypeOK
<1>4. cur.state # "WAIT_REQ" => cur.count # Words BY DEF FillsBounded
<1>5. Words # 0 /\ Words \in Nat BY DimensionAssumption
<1>6. CASE cur.state = "WAIT_REQ"
  <2>1. next.count = 0 BY <1>6 DEF RwNext, RwIdle
  <2> QED BY <2>1, <1>2, <1>5
<1>7. CASE cur.state = "FILL_RDATA"
  <2>1. next \in {cur, [cur EXCEPT !.state = IF LastBeat(c) THEN "WAIT_REQ" ELSE @, !.count = @ + 1]}
    BY <1>7 DEF RwNext
  <2>2. CASE next = cur BY <1>2, <1>4, <1>7, <2>2
  <2>3. CASE next = [cur EXCEPT !.state = IF LastBeat(c) THEN "WAIT_REQ" ELSE @, !.count = @ + 1]
    BY <1>2, <1>3, <1>5, <2>3 DEF LastBeat
  <2> QED BY <2>1, <2>2, <2>3
<1>8. CASE cur.state \notin {"WAIT_REQ", "FILL_RDATA"}
  <2>1. next.count \in {cur.count, 0}
    <3>1. CASE cur.state \in {"CHECK_RD_HIT_1", "CHECK_RD_HIT_2", "CHECK_RD_HIT_3"}
      BY <1>3, <3>1 DEF RwNext
    <3>2. CASE cur.state \in {"INIT_TAG_1", "INIT_TAG_2"}
      BY <1>3, <3>2 DEF RwNext, RwIdle
    <3>3. CASE cur.state \in {"HIT_READBACK", "UNCACHED_RD", "UNCACHED_WR_1", "UNCACHED_WR_2",
                              "HIT_WRITEBACK", "WR_ACK"}
      BY <1>3, <3>3 DEF RwNext, RwIdle
    <3>4. CASE cur.state \in {"CHECK_WR_HIT_1", "CHECK_WR_HIT_2", "CHECK_WR_HIT_3", "FILL_AR"}
      BY <1>3, <3>4 DEF RwNext
    <3> QED BY <1>3, <1>8, <3>1, <3>2, <3>3, <3>4 DEF RwState
  <2> QED BY <1>2, <1>4, <1>5, <1>8, <2>1
<1> QED BY <1>6, <1>7, <1>8

LEMMA CacheTypeStep ==
  ASSUME TypeOK, FillsBounded, CacheClock, SnoopClock, MemWr # {} => WriteNumber \in Val
  PROVE  CacheTypeOK'
<1> DEFINE T == [state : RwState, loc : Loc, ok : BOOLEAN, count : 0 .. Words, way : Way]
<1>1. rw' \in [Port -> T]
  <2>1. PICK rand \in Way :
        rw' = [c \in Port |-> RwNext(c, Req, CpuAr, MemAw, MemWr, MemB, CpuRd, MemAr, MemRd,
                                     Snooped, SnoopAddr, rand)]
    BY IdleOK DEF CacheClock
  <2>2. \A c \in Port : RwNext(c, Req, CpuAr, MemAw, MemWr, MemB, CpuRd, MemAr, MemRd,
                               Snooped, SnoopAddr, rand) \in T
    BY RwTypeStep
  <2> HIDE DEF T
  <2> QED BY <2>1, <2>2
<1>2. line' \in [Port -> [Word -> Val]] BY LineTypeStep DEF CacheClock
<1>3. dataMem' \in [Port -> [Set -> [Way -> [Word -> Val]]]] BY DataTypeStep DEF CacheClock
<1>4. tagMem' \in [Port -> [Set -> [Way -> Entry]]] BY TagTypeStep DEF CacheClock
<1>5. tagWr' \in [Port -> TagWrite] BY TagTypeStep DEF CacheClock
<1>6. tagRd' \in [Port -> [Way -> Entry]]
  <2>1. PICK early \in SUBSET Port :
          tagRd' = [c \in Port |-> TagRdNext(c, c \in early, rw'[c].state)]
    BY DEF CacheClock
  <2>2. ASSUME NEW c \in Port PROVE TagRdNext(c, c \in early, rw'[c].state) \in [Way -> Entry]
    <3>1. rw'[c].state \in RwState BY <1>1
    <3>2. (c \in early) \in BOOLEAN OBVIOUS
    <3> QED BY <3>1, <3>2, TagTypeStep
  <2> QED BY <2>1, <2>2
<1>7. snoop' \in [Port -> [state : SnoopState, loc : Loc]]
  <2>1. ASSUME NEW c \in Port
        PROVE  SnoopNext(c, Snooped, SnoopAddr) \in [state : SnoopState, loc : Loc]
    <3>1. snoop[c] \in [state : SnoopState, loc : Loc] BY DEF TypeOK, CacheTypeOK
    <3>2. SnoopAddr[c] \in Loc BY ReqOK
    <3> QED BY <3>1, <3>2, SomeLocOK DEF SnoopNext, SnoopIdle, SnoopState
  <2> QED BY <2>1 DEF SnoopClock
<1>8. snoopRd' \in [Port -> [Way -> Entry]]
  <2>1. PICK early \in SUBSET Port : snoopRd' = [c \in Port |-> SnoopRdNext(c, c \in early)]
    BY DEF SnoopClock
  <2>2. ASSUME NEW c \in Port PROVE SnoopRdNext(c, c \in early) \in [Way -> Entry]
    <3>1. (c \in early) \in BOOLEAN OBVIOUS
    <3> QED BY <3>1, TagTypeStep
  <2> QED BY <2>1, <2>2
<1>9. snoopWr' \in [Port -> TagWrite] BY TagTypeStep DEF SnoopClock
<1>10. gen' \in [Port -> [state : {"WAIT_REQ", "WAIT_ACK"}, loc : Loc]]
  <2>1. ASSUME NEW c \in Port
        PROVE  GenNext(c, Req, MemAw, MemB) \in [state : {"WAIT_REQ", "WAIT_ACK"}, loc : Loc]
    <3>1. gen[c] \in [state : {"WAIT_REQ", "WAIT_ACK"}, loc : Loc] BY DEF TypeOK, CacheTypeOK
    <3>2. c \in MemAw => Req[c].loc \in Loc BY ReqOK
    <3> QED BY <3>1, <3>2, SomeLocOK DEF GenNext, SnoopIdle
  <2> QED BY <2>1 DEF SnoopClock
<1> QED BY <1>1, <1>2, <1>3, <1>4, <1>5, <1>6, <1>7, <1>8, <1>9, <1>10 DEF CacheTypeOK

-----------------------------------------------------------------------------
(* The theorem.                                                            *)

TypeInv == TypeOK /\ FillsBounded

LEMMA TypeInit == Init => TypeInv
<1> SUFFICES ASSUME Init PROVE TypeInv OBVIOUS
<1>1. CpuTypeOK BY DEF Init, CpuInit, CpuTypeOK
<1>2. BridgeTypeOK
  BY SomeLocOK, IdleOK DEF Init, BridgeInit, BridgeTypeOK, BridgeIdle, BridgeState, Port
<1>3. 0 \in 0 .. Words /\ 0 # Words BY DimensionAssumption
<1>4. rw \in [Port -> [state : RwState, loc : Loc, ok : BOOLEAN, count : 0 .. Words, way : Way]]
  <2> DEFINE T == [state : RwState, loc : Loc, ok : BOOLEAN, count : 0 .. Words, way : Way]
  <2>1. RwIdle \in T BY <1>3, SomeLocOK, IdleOK DEF RwIdle, RwState
  <2>2. [RwIdle.loc EXCEPT !.set = 0] \in Loc BY <2>1, IdleOK DEF Loc
  <2>3. [RwIdle EXCEPT !.state = "INIT_TAG_1", !.loc.set = 0] \in T
    BY <2>1, <2>2 DEF RwState
  <2> QED BY <2>3 DEF Init, CacheInit
<1>5. FillsBounded BY <1>3 DEF FillsBounded, Init, CacheInit, RwIdle
<1>6. CacheTypeOK
  <2>1. SnoopIdle \in [state : SnoopState, loc : Loc]
        /\ SnoopIdle \in [state : {"WAIT_REQ", "WAIT_ACK"}, loc : Loc]
    BY SomeLocOK DEF SnoopIdle, SnoopState
  <2>2. tagMem \in [Port -> [Set -> [Way -> Entry]]] BY DEF Init, CacheInit
  <2>3. dataMem \in [Port -> [Set -> [Way -> [Word -> Val]]]] BY IdleOK DEF Init, CacheInit
  <2> QED BY <1>4, <2>1, <2>2, <2>3, IdleOK DEF Init, CacheInit, CacheTypeOK
<1>7. arLast \in Port /\ awLast \in Port /\ wrOwner \in Port BY DEF Init, Port
<1>8. log \in Seq(Loc) /\ Len(log) <= MaxWrites BY DimensionAssumption DEF Init
<1>9. horizon \in [Port -> Val] BY IdleOK DEF Init
<1> QED BY <1>1, <1>2, <1>5, <1>6, <1>7, <1>8, <1>9 DEF TypeInv, TypeOK

LEMMA TypeStep == TypeInv /\ [Next]_vars => TypeInv'
<1> SUFFICES ASSUME TypeInv, [Next]_vars PROVE TypeInv' OBVIOUS
<1> USE DEF TypeInv
<1>1. CASE UNCHANGED vars
  BY <1>1 DEF vars, TypeOK, FillsBounded, CpuTypeOK, BridgeTypeOK, CacheTypeOK
<1>2. CASE Next
  <2>1. /\ MemoryClock /\ ArbiterClock /\ SnoopClock /\ CacheClock /\ CpuClock /\ History
    BY <1>2 DEF Next, Clock
  <2>2. MemWr # {} => WriteNumber \in Val BY <2>1, WriteBound
  <2>3. CpuTypeOK' BY <2>1, CpuTypeStep
  <2>4. BridgeTypeOK' BY <2>1, <2>2, BridgeTypeStep DEF WriteNumber
  <2>5. CacheTypeOK' BY <2>1, <2>2, CacheTypeStep
  <2>6. FillsBounded' BY <2>1, CountStep
  <2>7. (arLast \in Port /\ awLast \in Port /\ wrOwner \in Port)'
    BY <2>1, OwnersOK DEF ArbiterClock, TypeOK
  <2>8. (log \in Seq(Loc) /\ Len(log) <= MaxWrites)'
    <3>1. bridge.loc \in Loc BY DEF TypeOK, BridgeTypeOK
    <3>2. log \in Seq(Loc) /\ Len(log) <= MaxWrites BY DEF TypeOK
    <3>3. CASE MemWr # {}
      <4>1. log' = Append(log, bridge.loc) BY <2>1, <3>3 DEF History
      <4>2. Len(log') = Len(log) + 1 /\ log' \in Seq(Loc) BY <3>1, <3>2, <4>1
      <4>3. Len(log) + 1 <= MaxWrites
        BY <2>2, <3>2, <3>3, DimensionAssumption DEF WriteNumber, Val
      <4> QED BY <4>2, <4>3
    <3>4. CASE MemWr = {} BY <2>1, <3>2, <3>4 DEF History
    <3> QED BY <3>3, <3>4
  <2>9. (horizon \in [Port -> Val])'
    <3>1. ASSUME NEW c \in Port, c \in MemWr PROVE WriteNumber \in Val BY <2>2, <3>1
    <3>2. ASSUME NEW c \in Port PROVE AtLeast(horizon[c], ReadData(c)) \in Val
      BY DataOK DEF AtLeast, TypeOK
    <3> QED BY <2>1, <3>1, <3>2 DEF History, TypeOK
  <2> QED BY <2>3, <2>4, <2>5, <2>6, <2>7, <2>8, <2>9 DEF TypeOK
<1> QED BY <1>1, <1>2

(***************************************************************************)
(* Every register of the design stays within its range: the way picked for *)
(* a fill is a way, the beat counter never passes the line length, the     *)
(* address of a wrapping burst stays within its line, and a cache index    *)
(* stays within the sets, while the tags are cleared as well.              *)
(***************************************************************************)
THEOREM TypeCorrect == Spec => []TypeOK
<1>1. TypeInv => TypeOK BY DEF TypeInv
<1> QED BY <1>1, TypeInit, TypeStep, PTL DEF Spec
-----------------------------------------------------------------------------
(***************************************************************************)
(* Two invariants of L1Interconnect for every size of the caches: no snoop *)
(* pulse is missed, and no line is held in two ways.                       *)
(***************************************************************************)


(***************************************************************************)
(* The argument for NoDuplicateLines.  A fill of a line starts only after  *)
(* a look at the tags that shows no way holding it, and until the fill has *)
(* written its tag the only other writer of the tags is the snoop machine, *)
(* which only invalidates.  DistinctInv follows the look (CHECK_RD_HIT_3), *)
(* the choice of a way (FILL_AR), the fill (FILL_RDATA) and the registered *)
(* write of the tag (tagWr); and before that the clearing of the sets      *)
(* after reset, for the tag RAM starts with anything in it.                *)
(***************************************************************************)
Clearing == {"INIT_TAG_1", "INIT_TAG_2"}

\* Way w of set s of cache c holds tag t.
Holds(c, s, w, t) == tagMem[c][s][w].valid /\ tagMem[c][s][w].tag = t

Distinct(c) ==
  \A s \in Set : \A v, w \in Way : \A t \in Tags : Holds(c, s, v, t) /\ Holds(c, s, w, t) => v = w

SetsCleared(c) ==
  rw[c].state \in Clearing =>
    /\ \A s \in Set : s < rw[c].loc.set => \A w \in Way : ~tagMem[c][s][w].valid
    /\ rw[c].state = "INIT_TAG_2" => tagWr[c].set = rw[c].loc.set /\ tagWr[c].ways = Way

TagWriteFresh(c) ==
  /\ ~snoopWr[c].entry.valid
  /\ rw[c].state \notin {"FILL_RDATA", "WAIT_REQ"} => ~tagWr[c].entry.valid
  /\ tagWr[c].entry.valid =>
       \E v \in Way : /\ tagWr[c].ways = {v}
                      /\ \A w \in Way : Holds(c, tagWr[c].set, w, tagWr[c].entry.tag) => w = v

FillFresh(c) ==
  LET s == rw[c].loc.set
      t == rw[c].loc.tag
  IN  /\ rw[c].state = "CHECK_RD_HIT_3" => \A w \in Way : Holds(c, s, w, t) => w \in HitWays(c)
      /\ rw[c].state = "FILL_AR" => \A w \in Way : ~Holds(c, s, w, t)
      /\ rw[c].state = "FILL_RDATA" =>
           /\ \A w \in Way : Holds(c, s, w, t) => w = rw[c].way
           /\ tagWr[c].entry.valid =>
                tagWr[c].set = s /\ tagWr[c].ways = {rw[c].way} /\ tagWr[c].entry.tag = t

DistinctInv ==
  \A c \in Port :
    /\ SetsCleared(c)
    /\ TagWriteFresh(c)
    /\ rw[c].state \notin Clearing => Distinct(c) /\ FillFresh(c)

-----------------------------------------------------------------------------
(* How the read/write state machine gets where it is.                      *)

LEMMA RwCases ==
  ASSUME TypeInv, CacheClock, NEW c \in Port
  PROVE  /\ rw'[c].state = "CHECK_RD_HIT_3" =>
              rw[c].state = "CHECK_RD_HIT_2" /\ rw'[c].loc = rw[c].loc
         /\ rw'[c].state = "FILL_AR" =>
              /\ rw[c].state = "FILL_AR" \/ (rw[c].state = "CHECK_RD_HIT_3" /\ ~Hit(c))
              /\ rw'[c].loc = rw[c].loc
         /\ rw'[c].state = "FILL_RDATA" =>
              /\ rw'[c].loc = rw[c].loc
              /\ \/ rw[c].state = "FILL_AR"
                 \/ rw[c].state = "FILL_RDATA" /\ rw'[c].way = rw[c].way
         /\ rw'[c].state = "INIT_TAG_1" =>
              rw[c].state = "INIT_TAG_2" /\ rw'[c].loc.set = rw[c].loc.set + 1
         /\ rw'[c].state = "INIT_TAG_2" =>
              rw[c].state = "INIT_TAG_1" /\ rw'[c].loc = rw[c].loc
         /\ rw[c].state \in Clearing /\ rw'[c].state \notin Clearing =>
              /\ rw[c].state = "INIT_TAG_2" /\ rw[c].loc.set = Sets - 1
              /\ rw'[c].state = "WAIT_REQ"
         /\ rw[c].state = "FILL_RDATA" => rw'[c].state \in {"FILL_RDATA", "WAIT_REQ"}
<1>1. PICK rand \in Way :
        rw' = [d \in Port |-> RwNext(d, Req, CpuAr, MemAw, MemWr, MemB, CpuRd, MemAr, MemRd,
                                     Snooped, SnoopAddr, rand)]
  BY IdleOK DEF CacheClock
<1> DEFINE cur == rw[c]
           next == RwNext(c, Req, CpuAr, MemAw, MemWr, MemB, CpuRd, MemAr, MemRd,
                          Snooped, SnoopAddr, rand)
<1>2. rw'[c] = next BY <1>1
<1>3. cur \in [state : RwState, loc : Loc, ok : BOOLEAN, count : 0 .. Words, way : Way]
  BY DEF TypeInv, TypeOK, CacheTypeOK
<1>4. CASE cur.state = "WAIT_REQ"
  <2>1. next.state \in {"WAIT_REQ", "CHECK_RD_HIT_1", "UNCACHED_RD", "CHECK_WR_HIT_1", "UNCACHED_WR_1"}
    BY <1>4 DEF RwNext, RwIdle
  <2> QED BY <1>2, <1>4, <2>1 DEF Clearing
<1>5. CASE cur.state \in {"CHECK_RD_HIT_1", "CHECK_RD_HIT_2"}
  <2>1. \E s \in {"CHECK_RD_HIT_2", "CHECK_RD_HIT_3"} :
          /\ next \in {[cur EXCEPT !.state = s], [[cur EXCEPT !.state = s] EXCEPT !.ok = FALSE]}
          /\ s = "CHECK_RD_HIT_3" => cur.state = "CHECK_RD_HIT_2"
    BY <1>5 DEF RwNext
  <2>2. /\ next.state \in {"CHECK_RD_HIT_2", "CHECK_RD_HIT_3"}
        /\ next.state = "CHECK_RD_HIT_3" => cur.state = "CHECK_RD_HIT_2"
        /\ next.loc = cur.loc
    BY <1>3, <2>1
  <2> HIDE DEF next
  <2> QED BY <1>2, <1>5, <2>2 DEF Clearing
<1>12. CASE cur.state = "CHECK_RD_HIT_3"
  BY <1>2, <1>3, <1>12 DEF RwNext, Clearing
<1>6. CASE cur.state \in {"CHECK_WR_HIT_1", "CHECK_WR_HIT_2", "CHECK_WR_HIT_3"}
  BY <1>2, <1>3, <1>6 DEF RwNext, Clearing
<1>7. CASE cur.state \in {"HIT_READBACK", "UNCACHED_RD", "UNCACHED_WR_1", "UNCACHED_WR_2",
                          "HIT_WRITEBACK", "WR_ACK"}
  <2>1. next \in {cur, RwIdle} \cup {[cur EXCEPT !.state = s] : s \in {"WR_ACK", "UNCACHED_WR_2"}}
    BY <1>7 DEF RwNext
  <2>2. next.state \in {cur.state, "WAIT_REQ", "WR_ACK", "UNCACHED_WR_2"}
    BY <1>3, <2>1 DEF RwIdle
  <2> HIDE DEF next
  <2> QED BY <1>2, <1>7, <2>2 DEF Clearing
<1>8. CASE cur.state = "FILL_AR"
  BY <1>2, <1>3, <1>8 DEF RwNext, Clearing
<1>9. CASE cur.state = "FILL_RDATA"
  BY <1>2, <1>3, <1>9 DEF RwNext, Clearing
<1>10. CASE cur.state = "INIT_TAG_1"
  BY <1>2, <1>3, <1>10 DEF RwNext, Clearing
<1>11. CASE cur.state = "INIT_TAG_2"
  <2>1. cur.loc \in Loc BY <1>3
  <2>2. CASE cur.loc.set = Sets - 1
    BY <1>2, <1>11, <2>2 DEF RwNext, RwIdle, Clearing
  <2>3. CASE cur.loc.set # Sets - 1
    <3>1. next = [cur EXCEPT !.state = "INIT_TAG_1", !.loc.set = @ + 1]
      BY <1>11, <2>3 DEF RwNext
    <3>2. next.state = "INIT_TAG_1" BY <1>3, <3>1
    <3>3. next.loc = [cur.loc EXCEPT !.set = @ + 1] BY <1>3, <3>1
    <3>4. next.loc.set = cur.loc.set + 1 BY <2>1, <3>3 DEF Loc
    <3> QED BY <1>2, <1>11, <3>2, <3>4 DEF Clearing
  <2> QED BY <2>2, <2>3
<1> QED BY <1>3, <1>4, <1>5, <1>6, <1>7, <1>8, <1>9, <1>10, <1>11, <1>12 DEF RwState

\* The tag RAM after an edge, entry by entry.
LEMMA TagMemStep ==
  ASSUME TypeInv, CacheClock, NEW c \in Port, NEW s \in Set, NEW w \in Way
  PROVE  tagMem'[c][s][w] = IF s = snoopWr[c].set /\ w \in snoopWr[c].ways THEN snoopWr[c].entry
                            ELSE IF s = tagWr[c].set /\ w \in tagWr[c].ways THEN tagWr[c].entry
                            ELSE tagMem[c][s][w]
<1>1. /\ tagMem[c] \in [Set -> [Way -> Entry]]
      /\ tagWr[c] \in TagWrite /\ snoopWr[c] \in TagWrite
  BY DEF TypeInv, TypeOK, CacheTypeOK
<1>2. Applied(tagMem[c], tagWr[c]) \in [Set -> [Way -> Entry]] BY <1>1, AppliedOK
<1>3. tagMem'[c] = Applied(Applied(tagMem[c], tagWr[c]), snoopWr[c])
  BY DEF CacheClock, TagMemNext
<1>4. Applied(Applied(tagMem[c], tagWr[c]), snoopWr[c])[s][w]
        = IF s = snoopWr[c].set /\ w \in snoopWr[c].ways THEN snoopWr[c].entry
          ELSE Applied(tagMem[c], tagWr[c])[s][w]
  BY <1>1, <1>2, AppliedOK
<1>5. Applied(tagMem[c], tagWr[c])[s][w]
        = IF s = tagWr[c].set /\ w \in tagWr[c].ways THEN tagWr[c].entry ELSE tagMem[c][s][w]
  BY <1>1, AppliedOK
<1> QED BY <1>3, <1>4, <1>5

(***************************************************************************)
(* What a way holds after an edge it held before, or the registered write  *)
(* of a fill put it there.                                                 *)
(***************************************************************************)
LEMMA HoldsStep ==
  ASSUME TypeInv, DistinctInv, CacheClock,
         NEW c \in Port, NEW s \in Set, NEW w \in Way, NEW t \in Tags, Holds(c, s, w, t)'
  PROVE  \/ /\ tagWr[c].entry.valid /\ s = tagWr[c].set /\ w \in tagWr[c].ways
            /\ t = tagWr[c].entry.tag
         \/ /\ Holds(c, s, w, t)
            /\ ~(s = snoopWr[c].set /\ w \in snoopWr[c].ways)
            /\ ~(s = tagWr[c].set /\ w \in tagWr[c].ways)
BY TagMemStep DEF Holds, DistinctInv, TagWriteFresh

-----------------------------------------------------------------------------
(* DistinctInv is inductive.                                               *)

LEMMA DistinctInit == Init => DistinctInv
<1> SUFFICES ASSUME Init, NEW c \in Port
             PROVE  /\ SetsCleared(c) /\ TagWriteFresh(c)
                    /\ rw[c].state \notin Clearing => Distinct(c) /\ FillFresh(c)
  BY DEF DistinctInv
<1>1. rw[c].state = "INIT_TAG_1" BY DEF Init, CacheInit, RwIdle
<1>2. rw[c].loc.set = 0
  <2>1. SomeLoc \in Loc BY SomeLocOK
  <2>2. rw[c].loc = [SomeLoc EXCEPT !.set = 0] BY DEF Init, CacheInit, RwIdle
  <2> QED BY <2>1, <2>2 DEF Loc
<1>3. \A s \in Set : ~(s < 0) BY DimensionAssumption DEF Set
<1>4. ~tagWr[c].entry.valid /\ ~snoopWr[c].entry.valid BY DEF Init, CacheInit, NoWrite
<1> QED BY <1>1, <1>2, <1>3, <1>4 DEF SetsCleared, TagWriteFresh, Clearing

LEMMA DistinctStep ==
  ASSUME TypeInv, DistinctInv, CacheClock, SnoopClock
  PROVE  DistinctInv'
<1> SUFFICES ASSUME NEW c \in Port
             PROVE  /\ SetsCleared(c)' /\ TagWriteFresh(c)'
                    /\ (rw[c].state \notin Clearing)' => Distinct(c)' /\ FillFresh(c)'
  BY DEF DistinctInv
<1>1. SetsCleared(c) /\ TagWriteFresh(c)
      /\ (rw[c].state \notin Clearing => Distinct(c) /\ FillFresh(c))
  BY DEF DistinctInv
<1>2. /\ rw[c].loc \in Loc /\ rw[c].loc.set \in Set /\ rw[c].loc.tag \in Tags
      /\ rw[c].way \in Way /\ tagWr[c] \in TagWrite /\ tagWr[c].entry.tag \in Tags
      /\ tagWr[c].set \in Set
  BY DEF TypeInv, TypeOK, CacheTypeOK, Loc, TagWrite, Entry
<1>3. tagWr'[c] = TagWrNext(c) /\ snoopWr'[c] = SnoopWrNext(c) BY DEF CacheClock, SnoopClock
<1>4. ~snoopWr'[c].entry.valid BY <1>3 DEF SnoopWrNext, NoWrite

<1>5. CASE rw[c].state \in Clearing
  <2>1. ~tagWr[c].entry.valid BY <1>1, <1>5 DEF TagWriteFresh, Clearing
  <2>2. \A s \in Set, w \in Way :
          tagMem'[c][s][w].valid =>
            tagMem[c][s][w].valid /\ ~(s = tagWr[c].set /\ w \in tagWr[c].ways)
    BY <2>1, <1>1, TagMemStep DEF TagWriteFresh
  <2>3. tagWr'[c] = [NoWrite EXCEPT !.set = rw[c].loc.set, !.ways = Way]
    BY <1>3, <1>5 DEF TagWrNext, Clearing
  <2>4. ~tagWr'[c].entry.valid /\ tagWr'[c].set = rw[c].loc.set /\ tagWr'[c].ways = Way
    BY <2>3 DEF NoWrite
  <2>5. TagWriteFresh(c)' BY <1>4, <2>4 DEF TagWriteFresh
  <2>6. SetsCleared(c)'
    <3>1. CASE rw'[c].state = "INIT_TAG_2"
      BY <3>1, <1>1, <2>2, <2>4, RwCases DEF SetsCleared, Clearing
    <3>2. CASE rw'[c].state = "INIT_TAG_1"
      <4>1. rw[c].state = "INIT_TAG_2" /\ rw'[c].loc.set = rw[c].loc.set + 1 BY <3>2, RwCases
      <4>2. \A s \in Set : s < rw'[c].loc.set => s < rw[c].loc.set \/ s = rw[c].loc.set
        BY <4>1, <1>2 DEF Set
      <4> QED BY <3>2, <4>1, <4>2, <1>1, <1>5, <2>2 DEF SetsCleared
    <3> QED BY <3>1, <3>2 DEF SetsCleared, Clearing
  <2>7. ASSUME rw'[c].state \notin Clearing PROVE Distinct(c)' /\ FillFresh(c)'
    <3>1. /\ rw[c].state = "INIT_TAG_2" /\ rw[c].loc.set = Sets - 1
          /\ rw'[c].state = "WAIT_REQ"
      BY <1>5, <2>7, RwCases
    <3>2. \A s \in Set : s < rw[c].loc.set \/ s = rw[c].loc.set
      BY <3>1, DimensionAssumption DEF Set
    <3>3. \A s \in Set, w \in Way : ~tagMem'[c][s][w].valid
      BY <3>1, <3>2, <1>1, <1>5, <2>2 DEF SetsCleared
    <3> QED BY <3>1, <3>3 DEF Distinct, FillFresh, Holds
  <2> QED BY <2>5, <2>6, <2>7

<1>6. CASE rw[c].state \notin Clearing
  <2>0. PICK s \in Set, t \in Tags : s = rw[c].loc.set /\ t = rw[c].loc.tag BY <1>2
  <2>1. Distinct(c) /\ FillFresh(c) BY <1>1, <1>6
  <2>2. rw'[c].state \notin Clearing BY <1>6, RwCases DEF Clearing
  <2>3. SetsCleared(c)' BY <2>2 DEF SetsCleared
  <2>4. Distinct(c)'
    <3> SUFFICES ASSUME NEW r \in Set, NEW v \in Way, NEW w \in Way, NEW k \in Tags,
                        Holds(c, r, v, k)', Holds(c, r, w, k)'
                 PROVE  v = w
      BY DEF Distinct
    <3>1. CASE tagWr[c].entry.valid /\ r = tagWr[c].set /\ k = tagWr[c].entry.tag
      <4>1. PICK u \in Way : /\ tagWr[c].ways = {u}
                             /\ \A x \in Way : Holds(c, r, x, k) => x = u
        BY <3>1, <1>1 DEF TagWriteFresh
      <4> QED BY <4>1, HoldsStep
    <3>2. CASE ~(tagWr[c].entry.valid /\ r = tagWr[c].set /\ k = tagWr[c].entry.tag)
      BY <3>2, <2>1, HoldsStep DEF Distinct
    <3> QED BY <3>1, <3>2
  <2>5. TagWriteFresh(c)'
    <3>1. CASE rw[c].state = "FILL_RDATA" /\ LastBeat(c)
      <4>1. tagWr'[c] = [set |-> rw[c].loc.set, ways |-> {rw[c].way},
                         entry |-> [valid |-> rw[c].ok, tag |-> rw[c].loc.tag]]
        BY <1>3, <3>1 DEF TagWrNext
      <4>2. \A w \in Way : Holds(c, s, w, t)' => w = rw[c].way
        BY <2>1, <2>0, <3>1, HoldsStep DEF FillFresh
      <4>3. rw'[c].state \in {"FILL_RDATA", "WAIT_REQ"} BY <3>1, RwCases
      <4> QED BY <2>0, <4>1, <4>2, <4>3, <1>2, <1>4 DEF TagWriteFresh
    <3>2. CASE ~(rw[c].state = "FILL_RDATA" /\ LastBeat(c))
      <4>1. TagWrNext(c) = NoWrite BY <1>6, <3>2 DEF TagWrNext, Clearing
      <4>2. ~tagWr'[c].entry.valid BY <4>1, <1>3 DEF NoWrite
      <4> QED BY <4>2, <1>4 DEF TagWriteFresh
    <3> QED BY <3>1, <3>2
  <2>6. FillFresh(c)'
    <3>1. CASE rw'[c].state = "CHECK_RD_HIT_3"
      <4>1. rw[c].state = "CHECK_RD_HIT_2" /\ rw'[c].loc = rw[c].loc BY <3>1, RwCases
      <4>2. ~tagWr[c].entry.valid BY <4>1, <1>1 DEF TagWriteFresh
      <4>3. PICK early \in SUBSET Port :
              tagRd' = [d \in Port |-> TagRdNext(d, d \in early, rw'[d].state)]
        BY DEF CacheClock
      <4>4. \/ tagRd'[c] = Applied(tagMem[c], snoopWr[c])[s]
            \/ tagRd'[c] = tagMem[c][s]
        BY <2>0, <3>1, <4>3 DEF TagRdNext
      <4>5. ASSUME NEW w \in Way, Holds(c, s, w, t)' PROVE w \in HitWays(c)'
        <5>1. /\ Holds(c, s, w, t)
              /\ ~(s = snoopWr[c].set /\ w \in snoopWr[c].ways)
          BY <4>2, <4>5, HoldsStep
        <5>2. Applied(tagMem[c], snoopWr[c])[s][w] = tagMem[c][s][w]
          <6>1. tagMem[c] \in [Set -> [Way -> Entry]] /\ snoopWr[c] \in TagWrite
            BY DEF TypeInv, TypeOK, CacheTypeOK
          <6> QED BY <5>1, <6>1, <1>2, AppliedOK
        <5>3. tagRd'[c][w] = tagMem[c][s][w] BY <4>4, <5>2
        <5> QED BY <2>0, <4>1, <5>1, <5>3 DEF HitWays, Holds
      <4> QED BY <2>0, <3>1, <4>1, <4>5 DEF FillFresh
    <3>2. CASE rw'[c].state = "FILL_AR"
      <4>1. rw'[c].loc = rw[c].loc BY <3>2, RwCases
      <4>2. \A w \in Way : ~Holds(c, s, w, t)
        BY <2>1, <2>0, <3>2, RwCases DEF FillFresh, Hit
      <4>3. ~tagWr[c].entry.valid BY <3>2, <1>1, RwCases DEF TagWriteFresh
      <4>4. \A w \in Way : ~Holds(c, s, w, t)'
        BY <4>2, <4>3, HoldsStep
      <4> QED BY <2>0, <3>2, <4>1, <4>4 DEF FillFresh
    <3>3. CASE rw'[c].state = "FILL_RDATA"
      <4>1. rw'[c].loc = rw[c].loc BY <3>3, RwCases
      <4>2. CASE rw[c].state = "FILL_AR"
        <5>1. \A w \in Way : ~Holds(c, s, w, t)
          BY <2>1, <2>0, <4>2 DEF FillFresh
        <5>2. ~tagWr[c].entry.valid BY <4>2, <1>1 DEF TagWriteFresh
        <5>3. \A w \in Way : ~Holds(c, s, w, t)'
          BY <5>1, <5>2, HoldsStep
        <5>4. ~tagWr'[c].entry.valid
          BY <4>2, <1>3 DEF TagWrNext, NoWrite
        <5> QED BY <2>0, <3>3, <4>1, <5>3, <5>4 DEF FillFresh
      <4>3. CASE rw[c].state = "FILL_RDATA" /\ rw'[c].way = rw[c].way
        <5>1. \A w \in Way : Holds(c, s, w, t)' => w = rw[c].way
          BY <2>1, <2>0, <4>3, HoldsStep DEF FillFresh
        <5>2. tagWr'[c].entry.valid =>
                /\ tagWr'[c].set = rw[c].loc.set /\ tagWr'[c].ways = {rw[c].way}
                /\ tagWr'[c].entry.tag = rw[c].loc.tag
          BY <4>3, <1>3 DEF TagWrNext, NoWrite
        <5> QED BY <2>0, <3>3, <4>1, <4>3, <5>1, <5>2 DEF FillFresh
      <4> QED BY <3>3, <4>2, <4>3, RwCases
    <3> QED BY <3>1, <3>2, <3>3 DEF FillFresh
  <2> QED BY <2>3, <2>4, <2>5, <2>6
<1> QED BY <1>5, <1>6

LEMMA DistinctImplies == TypeInv /\ DistinctInv => NoDuplicateLines
<1> SUFFICES ASSUME TypeInv, DistinctInv, NEW c \in Port, Running(c),
                    NEW s \in Set, NEW v \in Way, NEW w \in Way,
                    tagMem[c][s][v].valid, tagMem[c][s][w].valid,
                    tagMem[c][s][v].tag = tagMem[c][s][w].tag
             PROVE  v = w
  BY DEF NoDuplicateLines
<1>1. Distinct(c) BY DEF DistinctInv, Running, Clearing
<1>2. tagMem[c][s][v].tag \in Tags BY DEF TypeInv, TypeOK, CacheTypeOK, Entry
<1> QED BY <1>1, <1>2 DEF Distinct, Holds

LEMMA DistinctAlways == Spec => [](TypeInv /\ DistinctInv)
<1>1. Init => TypeInv /\ DistinctInv BY TypeInit, DistinctInit
<1>2. TypeInv /\ DistinctInv /\ [Next]_vars => (TypeInv /\ DistinctInv)'
  <2> SUFFICES ASSUME TypeInv, DistinctInv, [Next]_vars PROVE (TypeInv /\ DistinctInv)'
    OBVIOUS
  <2>1. TypeInv' BY TypeStep
  <2>2. CASE Next BY <2>1, <2>2, DistinctStep DEF Next, Clock
  <2>3. CASE UNCHANGED vars
    <3>1. rw' = rw /\ tagMem' = tagMem /\ tagWr' = tagWr /\ tagRd' = tagRd /\ snoopWr' = snoopWr
      BY <2>3 DEF vars
    <3>2. \A c \in Port : /\ SetsCleared(c)' = SetsCleared(c)
                          /\ TagWriteFresh(c)' = TagWriteFresh(c)
      BY <3>1 DEF SetsCleared, TagWriteFresh, Holds
    <3>3. \A c \in Port : Distinct(c)' = Distinct(c)
      BY <3>1 DEF Distinct, Holds
    <3>4. \A c \in Port : FillFresh(c)' = FillFresh(c)
      BY <3>1 DEF FillFresh, Holds, HitWays
    <3> QED BY <2>1, <3>1, <3>2, <3>3, <3>4 DEF DistinctInv
  <2> QED BY <2>2, <2>3
<1> QED BY <1>1, <1>2, PTL DEF Spec

(***************************************************************************)
(* A cache never holds a line in two of its ways, whatever the number of   *)
(* sets, ways and words and whatever the processors ask for: the search    *)
(* of the snoop machine, which stops at the first way that matches, then   *)
(* finds the only copy.                                                    *)
(***************************************************************************)
THEOREM LinesDistinct == Spec => []NoDuplicateLines
BY DistinctAlways, DistinctImplies, PTL

-----------------------------------------------------------------------------
(* The snoop pulse.  SnoopReady is inductive as it stands: a write starts  *)
(* only while the other port's snoop machine is idle, and that machine     *)
(* leaves its idle state only on the pulse that ends the write.            *)

\* A port does not start and end a write on one edge.
LEMMA StartOrEnd ==
  ASSUME TypeInv, NEW c \in Port, c \in MemB
  PROVE  c \notin MemAw
<1>1. rw[c].state # "WAIT_REQ" BY WireStates DEF TypeInv, MemBREADY
<1> QED BY <1>1, WireStates DEF TypeInv, MemAWVALID

LEMMA SnoopReadyStep ==
  ASSUME TypeInv, SnoopReady, SnoopClock
  PROVE  SnoopReady'
<1> SUFFICES ASSUME NEW c \in Port, gen'[c].state = "WAIT_ACK"
             PROVE  snoop'[Other(c)].state = "WAIT_REQ"
  BY DEF SnoopReady
<1>1. Other(c) \in Port /\ Other(Other(c)) = c BY PortFacts
<1>2. gen'[c] = GenNext(c, Req, MemAw, MemB)
      /\ snoop'[Other(c)] = SnoopNext(Other(c), Snooped, SnoopAddr)
  BY <1>1 DEF SnoopClock
<1>3. Other(c) \in Snooped <=> c \in MemB BY <1>1 DEF Snooped
<1>4. snoop[Other(c)].state = "WAIT_REQ" /\ c \notin MemB
  <2>1. gen[c].state \in {"WAIT_REQ", "WAIT_ACK"} BY DEF TypeInv, TypeOK, CacheTypeOK
  <2>2. CASE gen[c].state = "WAIT_REQ"
    <3>1. c \in MemAw BY <1>2, <2>2 DEF GenNext
    <3>2. ~SnoopStall(Other(c)) BY <3>1, WireStates DEF TypeInv, MemAWVALID
    <3> QED BY <3>1, <3>2, StartOrEnd DEF SnoopStall
  <2>3. CASE gen[c].state = "WAIT_ACK"
    <3>1. c \notin MemB BY <1>2, <2>3 DEF GenNext, SnoopIdle
    <3> QED BY <1>1, <2>3, <3>1 DEF SnoopReady
  <2> QED BY <2>1, <2>2, <2>3
<1>5. Other(c) \notin Snooped BY <1>3, <1>4
<1> QED BY <1>2, <1>4, <1>5 DEF SnoopNext

(***************************************************************************)
(* The snoop machine of a cache is idle from the moment a write of the     *)
(* other port is accepted to its response, for every size of the caches:   *)
(* this is what the stall buys, and no timing of the bridge is needed.     *)
(***************************************************************************)
THEOREM SnoopAlwaysReady == Spec => []SnoopReady
<1>1. Init => SnoopReady BY DEF Init, CacheInit, SnoopReady, SnoopIdle
<1>2. TypeInv /\ SnoopReady /\ [Next]_vars => SnoopReady'
  <2>1. TypeInv /\ SnoopReady /\ Next => SnoopReady' BY SnoopReadyStep DEF Next, Clock
  <2>2. SnoopReady /\ UNCHANGED vars => SnoopReady' BY DEF vars, SnoopReady
  <2> QED BY <2>1, <2>2
<1> QED BY <1>1, <1>2, TypeInit, TypeStep, PTL DEF Spec

-----------------------------------------------------------------------------
(***************************************************************************)
(* Two more invariants of L1Interconnect for every size of the caches: the *)
(* two ports of a tag RAM never write one entry on the same edge, and the  *)
(* caches are coherent with the memory.                                    *)
(***************************************************************************)

(***************************************************************************)
(* The argument for TagPortsDisjoint is one of timing.  A snoop starts on  *)
(* the edge that ends a write, and takes three edges to reach the tags.    *)
(* The bridge is free on the first, so a fill is at most at its address on *)
(* the second and has no beat on the third: its tag write comes later.     *)
(* And the clearing of the tags after reset is over in both caches before  *)
(* either CPU can write.                                                   *)
(***************************************************************************)
Burst == {"R1", "R2", "R3", "R4"}

\* How far word i is from word k in a burst that wraps.
Offset(k, i) == IF i >= k THEN i - k ELSE i - k + Words

\* Both caches clear the same set at the same time.
Lockstep ==
  \A c \in Port : rw[c].state \in Clearing =>
    rw[Other(c)].state = rw[c].state /\ rw[Other(c)].loc.set = rw[c].loc.set

\* A fill has the bridge, which is at the word the fill waits for.
FillOwnsBridge(c) ==
  /\ rw[c].state = "FILL_AR" => rw[c].count = 0
  /\ rw[c].state = "FILL_RDATA" =>
       /\ bridge.state \in Burst /\ bridge.port = c
       /\ bridge.loc.set = rw[c].loc.set /\ bridge.loc.tag = rw[c].loc.tag
       /\ rw[c].count = Offset(rw[c].loc.word, bridge.loc.word)
       /\ bridge.left = Words - 1 - rw[c].count

\* What the bridge can have come to while a snoop is under way.
SnoopWindow(c) ==
  /\ snoop[c].state = "CHECK_HIT_1" => bridge.state = "idle"
  /\ snoop[c].state = "CHECK_HIT_2" => bridge.state \in {"idle", "R1", "W1"}
  /\ snoop[c].state = "CHECK_HIT_3" => bridge.state \in {"idle", "R1", "R2", "W1", "W2"}
  /\ snoop[c].state # "WAIT_REQ" =>
       /\ rw[c].state \notin Clearing
       /\ rw[c].state = "FILL_RDATA" => rw[c].count = 0
       /\ tagWr[c].ways = {} /\ snoopWr[c].ways = {}

PortsInv ==
  /\ Lockstep
  /\ \A c \in Port :
       /\ FillOwnsBridge(c)
       /\ SnoopWindow(c)
       /\ snoopWr[c].ways # {} => tagWr[c].ways = {}

-----------------------------------------------------------------------------
(***************************************************************************)
(* The argument for LinesCurrent follows one write.  Memory changes while  *)
(* the writer waits in one of two states, with the address latched in its  *)
(* snoop generator.  In the writer's own cache the line is in the way the  *)
(* write goes to or in none (OwnCopy).  In the other cache the pulse finds *)
(* the snoop machine idle (SnoopReady), the machine reads the tags as they *)
(* are (SnoopSees) and the invalidation it registers names the way that    *)
(* holds the line (SnoopHitsAll).  Meanwhile a fill holds the bridge from  *)
(* its address to its last beat, so what it collects is memory as it is    *)
(* (FillData), and it lands on the edge after that.                        *)
(***************************************************************************)
BeforeData == {"CHECK_WR_HIT_1", "CHECK_WR_HIT_2", "CHECK_WR_HIT_3",
               "HIT_WRITEBACK", "UNCACHED_WR_1"}
AfterData  == {"WR_ACK", "UNCACHED_WR_2"}

\* Who has the bridge for a write, and where the parties to it are.
WriterInv ==
  /\ \A c \in Port :
       /\ rw[c].state \in BeforeData =>
            bridge.state = "W1" /\ bridge.port = c /\ wrOwner = c
       /\ rw[c].state \in AfterData => bridge.state = "W2" /\ bridge.port = c
       /\ rw[c].state \in BeforeData \cup AfterData =>
            gen[c].state = "WAIT_ACK" /\ gen[c].loc = bridge.loc
       /\ gen[c].state = "WAIT_ACK" => bridge.state \in {"W1", "W2"} /\ bridge.port = c
  /\ bridge.state = "W1" => rw[bridge.port].state \in BeforeData
  /\ bridge.state = "W2" => rw[bridge.port].state \in AfterData

(***************************************************************************)
(* A CPU writes a line it reads through its cache through its cache too.   *)
(* The hypothesis is needed: an uncached write goes past the writer's own  *)
(* cache, and no snoop comes back to it.                                   *)
(***************************************************************************)
WritesThroughCache ==
  \A c \in Port : \A q, r \in Requests[c] :
    q.op = "write" /\ r.op = "read" /\ r.cached /\ SameLine(q.loc, r.loc) => q.cached

\* CPU c reads the line through its cache.
CachedLine(c, s, t) ==
  \E r \in Requests[c] : r.op = "read" /\ r.cached /\ r.loc.set = s /\ r.loc.tag = t

\* Only lines that the CPU reads through its cache get there.
LinesAskedFor(c) ==
  /\ cpu[c].state \in {"AR", "R"} => cpu[c].req \in Requests[c] /\ cpu[c].req.op = "read"
  /\ cpu[c].state \in {"AW", "W", "B"} => cpu[c].req \in Requests[c] /\ cpu[c].req.op = "write"
  /\ rw[c].state \in {"CHECK_RD_HIT_1", "CHECK_RD_HIT_2", "CHECK_RD_HIT_3", "FILL_AR", "FILL_RDATA"}
       => CachedLine(c, rw[c].loc.set, rw[c].loc.tag)
  /\ tagWr[c].entry.valid => CachedLine(c, tagWr[c].set, tagWr[c].entry.tag)
  /\ rw[c].state \notin Clearing =>
       \A s \in Set, w \in Way, t \in Tags : Holds(c, s, w, t) => CachedLine(c, s, t)

\* The writer's own cache: the line is in the way the write goes to, or in none.
OwnCopy(c) ==
  LET s == rw[c].loc.set
      t == rw[c].loc.tag
  IN  /\ rw[c].state \in (BeforeData \cup AfterData) \ {"UNCACHED_WR_1", "UNCACHED_WR_2"} =>
           rw[c].loc = bridge.loc
      /\ rw[c].state = "CHECK_WR_HIT_3" =>
           /\ \A w \in Way : tagMem[c][s][w].valid => tagRd[c][w] = tagMem[c][s][w]
           /\ \A v, w \in HitWays(c) : v = w
      /\ rw[c].state \in {"HIT_WRITEBACK", "WR_ACK"} =>
           \A w \in Way : w = rw[c].way => (tagMem[c][s][w].valid => tagMem[c][s][w].tag = t)
      /\ rw[c].state = "HIT_WRITEBACK" => \A w \in Way : Holds(c, s, w, t) => w = rw[c].way
      /\ rw[c].state = "WR_ACK" => line[c][rw[c].loc.word] = mem[rw[c].loc]
      /\ rw[c].state = "UNCACHED_WR_1" =>
           \A w \in Way : ~Holds(c, bridge.loc.set, w, bridge.loc.tag)

LineLoc(c, i) == [set |-> rw[c].loc.set, tag |-> rw[c].loc.tag, word |-> i]

\* A fill has collected memory as it is, and its tag is written when its data is.
FillData(c) ==
  /\ rw[c].state = "FILL_RDATA" =>
       \A i \in Word : Offset(rw[c].loc.word, i) < rw[c].count => line[c][i] = mem[LineLoc(c, i)]
  /\ rw[c].count = Words =>
       /\ bridge.state = "idle"
       /\ \A i \in Word : line[c][i] = mem[LineLoc(c, i)]
       /\ tagWr[c].set = rw[c].loc.set /\ tagWr[c].ways = {rw[c].way}
       /\ tagWr[c].entry.valid => tagWr[c].entry.tag = rw[c].loc.tag
  /\ tagWr[c].entry.valid => rw[c].state = "FILL_RDATA" \/ rw[c].count = Words

\* The snoop machine compares with the tags as they are.
SnoopSees(c) ==
  snoop[c].state = "CHECK_HIT_3" => \A w \in Way : snoopRd[c][w] = tagMem[c][snoop[c].loc.set][w]

\* A registered invalidation names every way that holds the line.
SnoopHitsAll(c) ==
  snoopWr[c].ways # {} =>
    \A w \in Way : Holds(c, snoopWr[c].set, w, snoopWr[c].entry.tag) => w \in snoopWr[c].ways

\* What cache c is putting in place in word i of a way.
FillLanding(c, s, w) ==
  /\ rw[c].state = "FILL_RDATA" \/ rw[c].count = Words
  /\ rw[c].loc.set = s /\ rw[c].way = w
WordLanding(c, s, w, i) ==
  /\ rw[c].state = "WR_ACK"
  /\ rw[c].loc.set = s /\ rw[c].way = w /\ rw[c].loc.word = i

\* A write of the other port has made the line stale, and its invalidation is on its way.
LineStale(c, l) ==
  \/ gen[Other(c)].state = "WAIT_ACK" /\ SameLine(gen[Other(c)].loc, l) /\ bridge.state = "W2"
  \/ snoop[c].state # "WAIT_REQ" /\ SameLine(snoop[c].loc, l)
  \/ snoopWr[c].ways # {} /\ snoopWr[c].set = l.set /\ snoopWr[c].entry.tag = l.tag

Current(c) ==
  \A s \in Set, w \in Way, t \in Tags, i \in Word :
    LET l == [set |-> s, tag |-> t, word |-> i] IN
    Holds(c, s, w, t) =>
      \/ dataMem[c][s][w][i] = mem[l]
      \/ LineStale(c, l)
      \/ FillLanding(c, s, w)
      \/ WordLanding(c, s, w, i)

CoherenceInv ==
  /\ WriterInv
  /\ \A c \in Port :
       /\ LinesAskedFor(c) /\ OwnCopy(c) /\ FillData(c)
       /\ SnoopSees(c) /\ SnoopHitsAll(c)
       /\ rw[c].state \notin Clearing => Current(c)
-----------------------------------------------------------------------------
(* Edges that the two arguments look at.                                   *)

\* The modulus of the word counter is taken away once, here.
LEMMA WordSteps ==
  ASSUME NEW k \in Word, NEW n \in 0 .. Words - 1, NEW i \in Word
  PROVE  /\ (k + n) % Words \in Word
         /\ (k + n) % Words = IF k + n < Words THEN k + n ELSE k + n - Words
         /\ (i + 1) % Words = IF i + 1 = Words THEN 0 ELSE i + 1
<1>1. Words \in Nat \ {0, 1} BY DimensionAssumption
<1>2. ASSUME NEW a \in Nat, a < Words PROVE a % Words = a BY <1>1, <1>2
<1>3. ASSUME NEW a \in Nat, Words <= a, a < 2 * Words PROVE a % Words = a - Words BY <1>1, <1>3
<1> QED BY <1>1, <1>2, <1>3 DEF Word

\* FillWord is the word at the distance of the beats taken; the next word is one further.
LEMMA OffsetFacts ==
  ASSUME NEW k \in Word, NEW n \in 0 .. Words - 1, NEW i \in Word
  PROVE  /\ Offset(k, i) \in 0 .. Words - 1
         /\ Offset(k, k) = 0
         /\ \A j \in Word : Offset(k, i) = Offset(k, j) => i = j
         /\ Offset(k, (k + n) % Words) = n
         /\ Offset(k, i) + 1 < Words => Offset(k, (i + 1) % Words) = Offset(k, i) + 1
<1>1. Words \in Nat \ {0, 1} BY DimensionAssumption
<1> QED BY <1>1, WordSteps DEF Word, Offset

\* The bridge and the memory.
LEMMA BridgeEdge ==
  ASSUME TypeInv, MemoryClock
  PROVE  /\ bridge.state = "idle" =>
              \/ /\ MemAr = {ArOwner} /\ MemAw = {}
                 /\ bridge' = [state |-> "R1", port |-> ArOwner, loc |-> MemAddr[ArOwner],
                               left |-> MemLen[ArOwner]]
              \/ /\ MemAr = {} /\ MemAw = {AwOwner}
                 /\ bridge' = [state |-> "W1", port |-> AwOwner, loc |-> MemAddr[AwOwner],
                               left |-> 0]
              \/ MemAr = {} /\ MemAw = {} /\ bridge' = bridge
         /\ bridge.state # "idle" => MemAr = {} /\ MemAw = {}
         /\ bridge.state = "R1" => bridge' = [bridge EXCEPT !.state = "R2"]
         /\ bridge.state = "R2" => bridge' = [bridge EXCEPT !.state = "R3"]
         /\ bridge.state = "R4" => bridge' = [bridge EXCEPT !.state = "R2"]
         /\ bridge.state = "R3" =>
              \/ MemRd = {} /\ bridge' = bridge
              \/ /\ MemRd = {bridge.port}
                 /\ bridge' = IF bridge.left = 0 THEN BridgeIdle
                              ELSE [bridge EXCEPT !.state = "R4", !.loc = NextWord(@), !.left = @ - 1]
         /\ bridge.state # "R3" => MemRd = {}
         /\ bridge.state = "W1" =>
              \/ MemWr = {} /\ bridge' = bridge /\ mem' = mem
              \/ /\ MemWr = {wrOwner} /\ MemWVALID(wrOwner)
                 /\ bridge' = [bridge EXCEPT !.state = "W2"]
                 /\ mem' = [mem EXCEPT ![bridge.loc] = WriteNumber]
         /\ bridge.state # "W1" => MemWr = {} /\ mem' = mem
         /\ bridge.state = "W2" =>
              \/ MemB = {} /\ bridge' = bridge
              \/ MemB = {bridge.port} /\ bridge' = BridgeIdle
         /\ bridge.state # "W2" => MemB = {}
<1>1. /\ bridge.state # "idle" => MemAr = {} /\ MemAw = {}
      /\ MemAr # {} => MemAr = {ArOwner} /\ MemAw = {}
      /\ MemAw # {} => MemAw = {AwOwner}
  BY DEF MemAr, MemAw, ARREADY, AWREADY
<1>2. /\ MemRd # {} => MemRd = {bridge.port} /\ bridge.state = "R3"
      /\ MemB # {} => MemB = {bridge.port} /\ bridge.state = "W2"
      /\ MemWr # {} => MemWr = {wrOwner} /\ bridge.state = "W1" /\ MemWVALID(wrOwner)
  BY DEF MemRd, MemB, MemWr, RVALID, BVALID, WREADY
<1>3. bridge' = BridgeNext(MemAr, MemRd, MemAw, MemWr, MemB, MemAddr, MemLen)
      /\ mem' = MemNext(MemWr, WriteNumber)
  BY DEF MemoryClock
<1>4. /\ \A p : MemAr = {p} => (CHOOSE q \in MemAr : TRUE) = p
      /\ \A p : MemAw = {p} => (CHOOSE q \in MemAw : TRUE) = p
  OBVIOUS
<1>5. bridge.state \in BridgeState BY DEF TypeInv, TypeOK, BridgeTypeOK
<1>6. CASE MemAr # {} BY <1>1, <1>2, <1>3, <1>4, <1>6 DEF BridgeNext, MemNext
<1>7. CASE MemAr = {} /\ MemAw # {} BY <1>1, <1>2, <1>3, <1>4, <1>7 DEF BridgeNext, MemNext
<1>8. CASE MemAr = {} /\ MemAw = {}
  BY <1>1, <1>2, <1>3, <1>5, <1>8 DEF BridgeNext, MemNext, BridgeState, RLAST
<1> QED BY <1>6, <1>7, <1>8

\* The read/write state machine, where the arguments look at it.
LEMMA RwEdge ==
  ASSUME TypeInv, CacheClock, NEW c \in Port
  PROVE  /\ rw[c].state = "WAIT_REQ" =>
              \/ /\ c \in CpuAr /\ Req[c].cached
                 /\ rw'[c].state = "CHECK_RD_HIT_1" /\ rw'[c].loc = Req[c].loc
              \/ c \in CpuAr /\ ~Req[c].cached /\ rw'[c].state = "UNCACHED_RD"
              \/ /\ c \notin CpuAr /\ c \in MemAw /\ Req[c].cached
                 /\ rw'[c].state = "CHECK_WR_HIT_1" /\ rw'[c].loc = Req[c].loc
              \/ /\ c \notin CpuAr /\ c \in MemAw /\ ~Req[c].cached
                 /\ rw'[c].state = "UNCACHED_WR_1"
              \/ c \notin CpuAr /\ c \notin MemAw /\ rw'[c].state = "WAIT_REQ"
         /\ rw[c].state = "WAIT_REQ" => rw'[c].count = 0
         /\ rw[c].state = "CHECK_WR_HIT_1" =>
              rw'[c].state = "CHECK_WR_HIT_2" /\ rw'[c].loc = rw[c].loc
         /\ rw[c].state = "CHECK_WR_HIT_2" =>
              rw'[c].state = "CHECK_WR_HIT_3" /\ rw'[c].loc = rw[c].loc
         /\ rw[c].state = "CHECK_WR_HIT_3" =>
              /\ rw'[c].loc = rw[c].loc
              /\ Hit(c) => rw'[c].state = "HIT_WRITEBACK" /\ rw'[c].way = HitWay(c)
              /\ ~Hit(c) => rw'[c].state = "UNCACHED_WR_1"
         /\ rw[c].state = "HIT_WRITEBACK" =>
              /\ rw'[c].state = IF c \in MemWr THEN "WR_ACK" ELSE "HIT_WRITEBACK"
              /\ rw'[c].loc = rw[c].loc /\ rw'[c].way = rw[c].way
         /\ rw[c].state = "UNCACHED_WR_1" =>
              rw'[c].state = IF c \in MemWr THEN "UNCACHED_WR_2" ELSE "UNCACHED_WR_1"
         /\ rw[c].state \in {"WR_ACK", "UNCACHED_WR_2"} =>
              /\ c \in MemB => rw'[c].state = "WAIT_REQ"
              /\ c \notin MemB => rw'[c] = rw[c]
         /\ rw[c].state = "CHECK_RD_HIT_3" =>
              \/ rw'[c].state = "HIT_READBACK" /\ rw'[c].count = rw[c].count
              \/ rw'[c].state = "FILL_AR" /\ rw'[c].count = 0 /\ rw'[c].loc = rw[c].loc
         /\ rw[c].state = "FILL_AR" =>
              \/ c \notin MemAr /\ rw'[c] = rw[c]
              \/ /\ c \in MemAr /\ rw'[c].state = "FILL_RDATA"
                 /\ rw'[c].loc = rw[c].loc /\ rw'[c].count = rw[c].count
         /\ rw[c].state = "FILL_RDATA" =>
              \/ c \notin MemRd /\ rw'[c] = rw[c]
              \/ /\ c \in MemRd /\ rw'[c].state = IF LastBeat(c) THEN "WAIT_REQ" ELSE "FILL_RDATA"
                 /\ rw'[c].loc = rw[c].loc /\ rw'[c].way = rw[c].way
                 /\ rw'[c].count = rw[c].count + 1
         /\ rw[c].state \in {"CHECK_RD_HIT_1", "CHECK_RD_HIT_2"} =>
              /\ rw'[c].state = IF rw[c].state = "CHECK_RD_HIT_1" THEN "CHECK_RD_HIT_2"
                                ELSE "CHECK_RD_HIT_3"
              /\ rw'[c].loc = rw[c].loc
         /\ rw[c].state \in {"HIT_READBACK", "UNCACHED_RD"} =>
              rw'[c].state \in {rw[c].state, "WAIT_REQ"}
<1>1. PICK rand \in Way :
        rw' = [d \in Port |-> RwNext(d, Req, CpuAr, MemAw, MemWr, MemB, CpuRd, MemAr, MemRd,
                                     Snooped, SnoopAddr, rand)]
  BY IdleOK DEF CacheClock
<1> DEFINE cur == rw[c]
           next == RwNext(c, Req, CpuAr, MemAw, MemWr, MemB, CpuRd, MemAr, MemRd,
                          Snooped, SnoopAddr, rand)
<1>2. rw'[c] = next BY <1>1
<1>3. cur \in [state : RwState, loc : Loc, ok : BOOLEAN, count : 0 .. Words, way : Way]
  BY DEF TypeInv, TypeOK, CacheTypeOK
<1>4. CASE cur.state = "WAIT_REQ"
  <2>1. CASE c \in CpuAr
    BY <1>2, <1>4, <2>1 DEF RwNext, RwIdle
  <2>2. CASE c \notin CpuAr /\ c \in MemAw
    BY <1>2, <1>4, <2>2 DEF RwNext, RwIdle
  <2>3. CASE c \notin CpuAr /\ c \notin MemAw
    BY <1>2, <1>4, <2>3 DEF RwNext, RwIdle
  <2> QED BY <2>1, <2>2, <2>3
<1>5. CASE cur.state \in {"CHECK_RD_HIT_1", "CHECK_RD_HIT_2"}
  <2>1. PICK s \in {"CHECK_RD_HIT_2", "CHECK_RD_HIT_3"} :
          /\ next \in {[cur EXCEPT !.state = s], [[cur EXCEPT !.state = s] EXCEPT !.ok = FALSE]}
          /\ s = IF cur.state = "CHECK_RD_HIT_1" THEN "CHECK_RD_HIT_2" ELSE "CHECK_RD_HIT_3"
    BY <1>5 DEF RwNext
  <2>2. next.state = s /\ next.loc = cur.loc BY <1>3, <2>1
  <2> HIDE DEF next
  <2> QED BY <1>2, <1>5, <2>1, <2>2
<1>6. CASE cur.state \in {"CHECK_WR_HIT_1", "CHECK_WR_HIT_2", "CHECK_WR_HIT_3"}
  BY <1>2, <1>3, <1>6 DEF RwNext
<1>7. CASE cur.state \in {"HIT_READBACK", "UNCACHED_RD"}
  <2>1. next \in {cur, RwIdle} BY <1>7 DEF RwNext
  <2>2. next.state \in {cur.state, "WAIT_REQ"} BY <2>1 DEF RwIdle
  <2> HIDE DEF next
  <2> QED BY <1>2, <1>7, <2>2
<1>8. CASE cur.state \in {"UNCACHED_WR_1", "UNCACHED_WR_2", "HIT_WRITEBACK", "WR_ACK"}
  <2>1. CASE cur.state = "UNCACHED_WR_1" BY <1>2, <1>3, <2>1 DEF RwNext
  <2>2. CASE cur.state = "HIT_WRITEBACK" BY <1>2, <1>3, <2>2 DEF RwNext
  <2>3. CASE cur.state \in {"UNCACHED_WR_2", "WR_ACK"}
    <3>1. next = IF c \in MemB THEN RwIdle ELSE cur BY <2>3 DEF RwNext
    <3>2. RwIdle.state = "WAIT_REQ" BY DEF RwIdle
    <3> HIDE DEF next
    <3> QED BY <1>2, <2>3, <3>1, <3>2
  <2> QED BY <1>8, <2>1, <2>2, <2>3
<1>9. CASE cur.state \in {"FILL_AR", "CHECK_RD_HIT_3"}
  BY <1>2, <1>3, <1>9 DEF RwNext
<1>10. CASE cur.state = "FILL_RDATA"
  BY <1>2, <1>3, <1>10 DEF RwNext
<1>11. CASE cur.state \in {"INIT_TAG_1", "INIT_TAG_2"}
  BY <1>11
<1> QED BY <1>3, <1>4, <1>5, <1>6, <1>7, <1>8, <1>9, <1>10, <1>11 DEF RwState

\* The snoop machine and the writes that the tag ports register.
LEMMA SnoopEdge ==
  ASSUME TypeInv, SnoopClock, NEW c \in Port
  PROVE  /\ snoop'[c].state = "CHECK_HIT_1" =>
              /\ snoop[c].state = "WAIT_REQ" /\ Other(c) \in MemB
              /\ snoop'[c].loc = gen[Other(c)].loc
         /\ snoop'[c].state = "CHECK_HIT_2" =>
              snoop[c].state = "CHECK_HIT_1" /\ snoop'[c].loc = snoop[c].loc
         /\ snoop'[c].state = "CHECK_HIT_3" =>
              snoop[c].state = "CHECK_HIT_2" /\ snoop'[c].loc = snoop[c].loc
         /\ snoop[c].state = "WAIT_REQ" /\ Other(c) \in MemB =>
              snoop'[c].state = "CHECK_HIT_1" /\ snoop'[c].loc = gen[Other(c)].loc
         /\ snoop[c].state \in {"CHECK_HIT_1", "CHECK_HIT_2"} =>
              snoop'[c].state # "WAIT_REQ" /\ snoop'[c].loc = snoop[c].loc
         /\ snoopWr'[c].ways # {} => snoop[c].state = "CHECK_HIT_3"
<1>1. snoop'[c] = SnoopNext(c, Snooped, SnoopAddr) /\ snoopWr'[c] = SnoopWrNext(c)
  BY DEF SnoopClock
<1>2. c \in Snooped <=> Other(c) \in MemB BY DEF Snooped
<1>3. SnoopAddr[c] = gen[Other(c)].loc BY DEF SnoopAddr
<1>4. snoop[c] \in [state : SnoopState, loc : Loc] BY DEF TypeInv, TypeOK, CacheTypeOK
<1>5. snoopWr'[c].ways # {} => snoop[c].state = "CHECK_HIT_3"
  BY <1>1 DEF SnoopWrNext, NoWrite
<1>6. CASE snoop[c].state = "WAIT_REQ"
  BY <1>1, <1>2, <1>3, <1>4, <1>5, <1>6 DEF SnoopNext
<1>7. CASE snoop[c].state # "WAIT_REQ"
  BY <1>1, <1>4, <1>5, <1>7 DEF SnoopNext, SnoopState, SnoopIdle
<1> QED BY <1>6, <1>7

LEMMA TagWrEdge ==
  ASSUME TypeInv, CacheClock, NEW c \in Port, tagWr'[c].ways # {}
  PROVE  rw[c].state \in Clearing \/ (rw[c].state = "FILL_RDATA" /\ LastBeat(c))
<1>1. tagWr'[c] = TagWrNext(c) BY DEF CacheClock
<1> QED BY <1>1 DEF TagWrNext, NoWrite, Clearing

-----------------------------------------------------------------------------
(* PortsInv is inductive.                                                  *)

LEMMA PortsInit == Init => PortsInv
<1> SUFFICES ASSUME Init PROVE PortsInv
  OBVIOUS
<1>1. SomeLoc \in Loc BY SomeLocOK
<1>2. \A c \in Port : /\ rw[c].state = "INIT_TAG_1" /\ rw[c].loc = [SomeLoc EXCEPT !.set = 0]
                      /\ snoop[c].state = "WAIT_REQ" /\ snoopWr[c].ways = {}
  BY DEF Init, CacheInit, RwIdle, SnoopIdle, NoWrite
<1>3. \A c \in Port : Other(c) \in Port BY PortFacts
<1> QED BY <1>2, <1>3 DEF PortsInv, Lockstep, FillOwnsBridge, SnoopWindow

LEMMA LockstepKept ==
  ASSUME TypeInv, TypeInv', Lockstep, CacheClock
  PROVE  Lockstep'
<1> SUFFICES ASSUME NEW c \in Port, rw'[c].state \in Clearing
             PROVE  rw'[Other(c)].state = rw'[c].state /\ rw'[Other(c)].loc.set = rw'[c].loc.set
  BY DEF Lockstep
<1>1. Other(c) \in Port BY PortFacts
<1>2. rw[c].state \in Clearing BY RwCases DEF Clearing
<1>3. rw[Other(c)].state = rw[c].state /\ rw[Other(c)].loc.set = rw[c].loc.set
  BY <1>2 DEF Lockstep
<1>4. CASE rw[c].state = "INIT_TAG_1"
  BY <1>1, <1>3, <1>4, RwCases DEF Clearing
<1>5. CASE rw[c].state = "INIT_TAG_2"
  <2>1. rw'[c].state = "INIT_TAG_1" /\ rw'[c].loc.set = rw[c].loc.set + 1
    BY <1>5, RwCases DEF Clearing
  <2>2. rw'[c].loc.set \in Set /\ rw[c].loc.set \in Set
    BY DEF TypeInv, TypeOK, CacheTypeOK, Loc
  <2>3. rw[c].loc.set # Sets - 1 BY <2>1, <2>2, DimensionAssumption DEF Set
  <2> QED BY <1>1, <1>3, <1>5, <2>1, <2>3, RwCases DEF Clearing
<1> QED BY <1>2, <1>4, <1>5 DEF Clearing

LEMMA FillOwnsBridgeKept ==
  ASSUME TypeInv, CacheClock, MemoryClock, NEW c \in Port, FillOwnsBridge(c)
  PROVE  FillOwnsBridge(c)'
<1>1. /\ rw[c].loc \in Loc /\ rw[c].loc.word \in Word /\ rw[c].count \in 0 .. Words
      /\ bridge \in [state : BridgeState, port : Port, loc : Loc, left : Word]
      /\ bridge.loc.word \in Word
  BY DEF TypeInv, TypeOK, CacheTypeOK, BridgeTypeOK, Loc
<1>2. Words \in Nat \ {0, 1} BY DimensionAssumption
<1>3. rw'[c].state = "FILL_AR" => rw'[c].count = 0
  BY RwCases, RwEdge DEF FillOwnsBridge
<1>4. ASSUME rw'[c].state = "FILL_RDATA"
      PROVE  /\ bridge'.state \in Burst /\ bridge'.port = c
             /\ bridge'.loc.set = rw'[c].loc.set /\ bridge'.loc.tag = rw'[c].loc.tag
             /\ rw'[c].count = Offset(rw'[c].loc.word, bridge'.loc.word)
             /\ bridge'.left = Words - 1 - rw'[c].count
  <2>1. CASE rw[c].state = "FILL_AR"
    <3>1. c \in MemAr /\ rw'[c].loc = rw[c].loc /\ rw'[c].count = 0
      BY <1>4, <2>1, RwEdge DEF FillOwnsBridge
    <3>2. /\ c = ArOwner
          /\ bridge' = [state |-> "R1", port |-> ArOwner, loc |-> MemAddr[ArOwner],
                        left |-> MemLen[ArOwner]]
      BY <3>1, BridgeEdge
    <3>3. MemAddr[c] = rw[c].loc /\ MemLen[c] = Words - 1 BY <2>1 DEF MemAddr, MemLen
    <3>4. Offset(rw[c].loc.word, rw[c].loc.word) = 0 BY <1>1 DEF Offset, Word
    <3> QED BY <1>2, <3>1, <3>2, <3>3, <3>4 DEF Burst
  <2>2. CASE rw[c].state = "FILL_RDATA"
    <3>1. /\ bridge.state \in Burst /\ bridge.port = c
          /\ bridge.loc.set = rw[c].loc.set /\ bridge.loc.tag = rw[c].loc.tag
          /\ rw[c].count = Offset(rw[c].loc.word, bridge.loc.word)
          /\ bridge.left = Words - 1 - rw[c].count
      BY <2>2 DEF FillOwnsBridge
    <3>2. CASE c \notin MemRd
      <4>1. rw'[c] = rw[c] BY <2>2, <3>2, RwEdge
      <4>2. bridge' = bridge \/ \E s \in Burst : bridge' = [bridge EXCEPT !.state = s]
        BY <3>1, <3>2, BridgeEdge DEF Burst
      <4>3. /\ bridge'.state \in Burst /\ bridge'.port = bridge.port
            /\ bridge'.loc = bridge.loc /\ bridge'.left = bridge.left
        BY <1>1, <3>1, <4>2
      <4> QED BY <3>1, <4>1, <4>3
    <3>3. CASE c \in MemRd
      <4>1. /\ ~LastBeat(c) /\ rw'[c].loc = rw[c].loc /\ rw'[c].count = rw[c].count + 1
        BY <1>4, <2>2, <3>3, RwEdge
      <4>2. bridge.left # 0 /\ rw[c].count + 1 < Words
        BY <1>1, <1>2, <3>1, <4>1 DEF LastBeat, Word
      <4>3. bridge' = [bridge EXCEPT !.state = "R4", !.loc = NextWord(@), !.left = @ - 1]
        BY <3>3, <4>2, BridgeEdge
      <4>4. NextWord(bridge.loc) = [bridge.loc EXCEPT !.word = (@ + 1) % Words] BY DEF NextWord
      <4>5. /\ bridge'.state = "R4" /\ bridge'.port = bridge.port
            /\ bridge'.loc.set = bridge.loc.set /\ bridge'.loc.tag = bridge.loc.tag
            /\ bridge'.loc.word = (bridge.loc.word + 1) % Words
            /\ bridge'.left = bridge.left - 1
        BY <1>1, <4>3, <4>4 DEF Loc
      <4>6. Offset(rw[c].loc.word, (bridge.loc.word + 1) % Words) = rw[c].count + 1
        <5>1. 0 \in 0 .. Words - 1 BY <1>2
        <5> QED BY <1>1, <3>1, <4>2, <5>1, OffsetFacts
      <4> QED BY <1>1, <1>2, <3>1, <4>1, <4>5, <4>6 DEF Burst, Word
    <3> QED BY <3>2, <3>3
  <2> QED BY <1>4, <2>1, <2>2, RwCases
<1> QED BY <1>3, <1>4 DEF FillOwnsBridge

LEMMA SnoopWindowKept ==
  ASSUME TypeInv, PortsInv, CacheClock, SnoopClock, MemoryClock, NEW c \in Port
  PROVE  SnoopWindow(c)' /\ (snoopWr'[c].ways # {} => tagWr'[c].ways = {})
<1>1. FillOwnsBridge(c) /\ SnoopWindow(c) BY DEF PortsInv
<1>2. /\ bridge \in [state : BridgeState, port : Port, loc : Loc, left : Word]
      /\ snoop[c].state \in SnoopState /\ snoop'[c].state = SnoopNext(c, Snooped, SnoopAddr).state
      /\ rw[c].count \in 0 .. Words
  BY DEF TypeInv, TypeOK, BridgeTypeOK, CacheTypeOK, SnoopClock
<1>3. Words \in Nat \ {0, 1} BY DimensionAssumption
<1>4. rw'[c].state \in Clearing => rw[c].state \in Clearing BY RwCases DEF Clearing
<1>5. Other(c) \in Port BY PortFacts
<1>6. ASSUME snoop[c].state # "WAIT_REQ"
      PROVE  tagWr'[c].ways = {} /\ rw'[c].state \notin Clearing
  <2>1. rw[c].state = "FILL_RDATA" => rw[c].count = 0 BY <1>1, <1>6 DEF SnoopWindow
  <2>2. rw[c].state \notin Clearing BY <1>1, <1>6 DEF SnoopWindow
  <2> QED BY <1>3, <1>4, <2>1, <2>2, TagWrEdge DEF LastBeat
<1>7. snoopWr'[c].ways # {} => tagWr'[c].ways = {} BY <1>6, SnoopEdge
<1>8. CASE snoop'[c].state = "WAIT_REQ" BY <1>7, <1>8 DEF SnoopWindow
<1>9. CASE snoop'[c].state = "CHECK_HIT_1"
  <2>1. snoop[c].state = "WAIT_REQ" /\ Other(c) \in MemB BY <1>9, SnoopEdge
  <2>2. bridge.state = "W2" /\ bridge' = BridgeIdle BY <2>1, BridgeEdge
  <2>3. rw[Other(c)].state \notin Clearing
    BY <2>1, WireStates DEF TypeInv, MemBREADY, Clearing
  <2>4. rw[c].state \notin Clearing
    BY <1>5, <2>3, PortFacts DEF PortsInv, Lockstep
  <2>5. rw[c].state # "FILL_RDATA" BY <1>1, <2>2 DEF FillOwnsBridge, Burst
  <2>6. rw'[c].state # "FILL_RDATA"
    <3>1. MemAr = {} BY <2>2, BridgeEdge
    <3> QED BY <2>5, <3>1, RwCases, RwEdge
  <2>7. tagWr'[c].ways = {} BY <2>4, <2>5, TagWrEdge
  <2>8. snoopWr'[c].ways = {} BY <2>1, SnoopEdge
  <2>9. bridge'.state = "idle" BY <2>2 DEF BridgeIdle
  <2> QED BY <1>4, <1>7, <1>9, <2>4, <2>6, <2>7, <2>8, <2>9 DEF SnoopWindow
<1>10. CASE snoop'[c].state \in {"CHECK_HIT_2", "CHECK_HIT_3"}
  <2>1. /\ snoop[c].state \in {"CHECK_HIT_1", "CHECK_HIT_2"}
        /\ snoop'[c].state = "CHECK_HIT_2" => snoop[c].state = "CHECK_HIT_1"
        /\ snoop'[c].state = "CHECK_HIT_3" => snoop[c].state = "CHECK_HIT_2"
    BY <1>10, SnoopEdge
  <2>2. snoopWr'[c].ways = {} BY <2>1, SnoopEdge
  <2>3. bridge.state \in {"idle", "R1", "W1"} BY <1>1, <2>1 DEF SnoopWindow
  <2>4. bridge.state = "idle" => bridge'.state \in {"idle", "R1", "W1"} BY BridgeEdge
  <2>5. bridge.state = "R1" => bridge'.state = "R2" BY <1>2, BridgeEdge
  <2>6. bridge.state = "W1" => bridge'.state \in {"W1", "W2"} BY <1>2, BridgeEdge
  <2>7. rw'[c].state = "FILL_RDATA" => rw'[c].count = 0
    <3>1. c \notin MemRd BY <2>3, BridgeEdge
    <3>2. rw[c].state = "FILL_RDATA" => rw[c].count = 0 BY <1>1, <2>1 DEF SnoopWindow
    <3>3. rw[c].state = "FILL_AR" => rw[c].count = 0 BY <1>1 DEF FillOwnsBridge
    <3> QED BY <3>1, <3>2, <3>3, RwCases, RwEdge
  <2>8. snoop[c].state = "CHECK_HIT_1" => bridge.state = "idle" BY <1>1 DEF SnoopWindow
  <2> QED BY <1>6, <1>10, <2>1, <2>2, <2>3, <2>4, <2>5, <2>6, <2>7, <2>8, <1>7 DEF SnoopWindow
<1>11. snoop'[c].state \in SnoopState
  BY <1>2, SnoopEdge DEF SnoopState, SnoopNext, SnoopIdle
<1> QED BY <1>8, <1>9, <1>10, <1>11 DEF SnoopState

LEMMA PortsStep ==
  ASSUME TypeInv, TypeInv', PortsInv, [Next]_vars
  PROVE  PortsInv'
<1>1. CASE Next
  <2>1. Lockstep' BY <1>1, LockstepKept DEF PortsInv, Next, Clock
  <2>2. \A c \in Port : FillOwnsBridge(c)'
    BY <1>1, FillOwnsBridgeKept DEF PortsInv, Next, Clock
  <2>3. \A c \in Port : SnoopWindow(c)' /\ (snoopWr'[c].ways # {} => tagWr'[c].ways = {})
    BY <1>1, SnoopWindowKept DEF Next, Clock
  <2> QED BY <2>1, <2>2, <2>3 DEF PortsInv
<1>2. CASE UNCHANGED vars
  <2>1. /\ rw' = rw /\ bridge' = bridge /\ snoop' = snoop
        /\ tagWr' = tagWr /\ snoopWr' = snoopWr
    BY <1>2 DEF vars
  <2> QED BY <2>1 DEF PortsInv, Lockstep, FillOwnsBridge, SnoopWindow
<1> QED BY <1>1, <1>2

(***************************************************************************)
(* On no edge do the fill machine and the snoop machine of a cache write   *)
(* one entry of a tag RAM, whatever the sizes: the invalidation of a snoop *)
(* is over before a fill that starts after the write can reach its last    *)
(* beat.  (Words >= 2 is used: a line of one word has its last beat while  *)
(* the snoop is on its third edge.)                                        *)
(***************************************************************************)
THEOREM TagPortsNeverMeet == Spec => []TagPortsDisjoint
<1>1. Init => TypeInv /\ PortsInv BY TypeInit, PortsInit
<1>2. TypeInv /\ PortsInv /\ [Next]_vars => (TypeInv /\ PortsInv)' BY TypeStep, PortsStep
<1>3. PortsInv => TagPortsDisjoint BY DEF PortsInv, TagPortsDisjoint
<1> QED BY <1>1, <1>2, <1>3, PTL DEF Spec

-----------------------------------------------------------------------------
(* WriterInv is kept.                                                      *)

\* A CPU asks for a read or for a write, not for both.
LEMMA OneChannel ==
  ASSUME TypeInv, NEW c \in Port, c \in MemAw
  PROVE  c \notin CpuAr /\ rw[c].state = "WAIT_REQ" /\ Req[c].loc \in Loc /\ AWVALID(c)
         /\ ~SnoopStall(Other(c))
BY WireStates, ReqOK DEF TypeInv, MemAWVALID, AWVALID, ARVALID

\* A port comes to write by the acceptance of its address only.
LEMMA WriteStarts ==
  ASSUME TypeInv, CacheClock, NEW c \in Port,
         rw[c].state \notin BeforeData \cup AfterData
  PROVE  rw'[c].state \in BeforeData \cup AfterData =>
           /\ c \in MemAw
           /\ rw'[c].state \in {"CHECK_WR_HIT_1", "UNCACHED_WR_1"}
           /\ rw'[c].state = "CHECK_WR_HIT_1" => Req[c].cached /\ rw'[c].loc = Req[c].loc
           /\ rw'[c].state = "UNCACHED_WR_1" => ~Req[c].cached
<1>1. rw[c].state \in RwState BY DEF TypeInv, TypeOK, CacheTypeOK
<1>2. CASE rw[c].state = "WAIT_REQ" BY <1>2, RwEdge DEF BeforeData, AfterData
<1>3. CASE rw[c].state \in Clearing BY <1>3, RwCases DEF Clearing, BeforeData, AfterData
<1>4. CASE rw[c].state \in {"HIT_READBACK", "UNCACHED_RD", "CHECK_RD_HIT_1", "CHECK_RD_HIT_2",
                            "CHECK_RD_HIT_3", "FILL_AR", "FILL_RDATA"}
  BY <1>4, RwEdge DEF BeforeData, AfterData
<1> QED BY <1>1, <1>2, <1>3, <1>4 DEF RwState, Clearing, BeforeData, AfterData

\* A write that is under way goes on, and ends with its response.
LEMMA WriteGoesOn ==
  ASSUME TypeInv, CacheClock, NEW c \in Port
  PROVE  /\ rw[c].state \in BeforeData /\ c \notin MemWr => rw'[c].state \in BeforeData
         /\ rw[c].state \in BeforeData /\ c \in MemWr =>
              /\ rw[c].state \in {"HIT_WRITEBACK", "UNCACHED_WR_1"}
              /\ rw'[c].state \in AfterData
         /\ rw[c].state \in AfterData =>
              rw'[c].state = IF c \in MemB THEN "WAIT_REQ" ELSE rw[c].state
<1>1. rw[c] \in [state : RwState, loc : Loc, ok : BOOLEAN, count : 0 .. Words, way : Way]
  BY DEF TypeInv, TypeOK, CacheTypeOK
<1>2. c \in MemWr => rw[c].state \in {"UNCACHED_WR_1", "UNCACHED_WR_2", "HIT_WRITEBACK"}
  BY WireStates DEF TypeInv, MemWVALID
<1>3. CASE rw[c].state \in {"CHECK_WR_HIT_1", "CHECK_WR_HIT_2", "CHECK_WR_HIT_3"}
  BY <1>1, <1>2, <1>3, RwEdge DEF BeforeData, AfterData
<1>4. CASE rw[c].state \in {"HIT_WRITEBACK", "UNCACHED_WR_1"}
  BY <1>1, <1>4, RwEdge DEF BeforeData, AfterData
<1>5. CASE rw[c].state \in AfterData
  BY <1>5, RwEdge DEF BeforeData, AfterData
<1> QED BY <1>3, <1>4, <1>5 DEF BeforeData

LEMMA GenEdge ==
  ASSUME TypeInv, SnoopClock, NEW c \in Port
  PROVE  /\ gen[c].state = "WAIT_REQ" /\ c \in MemAw =>
              gen'[c].state = "WAIT_ACK" /\ gen'[c].loc = Req[c].loc
         /\ gen[c].state = "WAIT_REQ" /\ c \notin MemAw => gen'[c].state = "WAIT_REQ"
         /\ gen[c].state = "WAIT_ACK" /\ c \in MemB => gen'[c].state = "WAIT_REQ"
         /\ gen[c].state = "WAIT_ACK" /\ c \notin MemB => gen'[c] = gen[c]
BY DEF SnoopClock, GenNext, SnoopIdle, TypeInv, TypeOK, CacheTypeOK

LEMMA WriterKept ==
  ASSUME TypeInv, WriterInv, CacheClock, SnoopClock, MemoryClock, ArbiterClock
  PROVE  WriterInv'
<1> DEFINE W == BeforeData \cup AfterData
<1>1. /\ bridge \in [state : BridgeState, port : Port, loc : Loc, left : Word]
      /\ \A c \in Port : gen[c].state \in {"WAIT_REQ", "WAIT_ACK"}
  BY DEF TypeInv, TypeOK, BridgeTypeOK, CacheTypeOK
<1>2. /\ \A c \in Port : rw[c].state \in W =>
           /\ bridge.state \in {"W1", "W2"} /\ bridge.port = c
           /\ gen[c].state = "WAIT_ACK" /\ gen[c].loc = bridge.loc
      /\ \A c \in Port : gen[c].state = "WAIT_ACK" =>
           bridge.state \in {"W1", "W2"} /\ bridge.port = c
      /\ bridge.state = "W1" => rw[bridge.port].state \in BeforeData /\ wrOwner = bridge.port
      /\ bridge.state = "W2" => rw[bridge.port].state \in AfterData
  BY <1>1 DEF WriterInv
<1>3. wrOwner' = IF MemAw # {} THEN AwOwner ELSE wrOwner BY DEF ArbiterClock
<1>4. BeforeData \cap AfterData = {} /\ "WAIT_REQ" \notin W BY DEF BeforeData, AfterData
<1> HIDE DEF W

<1>5. CASE bridge.state \notin {"W1", "W2"}
  <2>1. \A c \in Port : rw[c].state \notin W /\ gen[c].state = "WAIT_REQ" BY <1>1, <1>2, <1>5
  <2>2. CASE MemAw = {}
    <3>1. \A c \in Port : rw'[c].state \notin W BY <2>1, <2>2, WriteStarts DEF W
    <3>2. \A c \in Port : gen'[c].state = "WAIT_REQ" BY <2>1, <2>2, GenEdge
    <3>3. bridge'.state \notin {"W1", "W2"}
      <4>1. CASE bridge.state = "idle"
        <5>1. MemAw # {AwOwner} BY <2>2
        <5>2. \/ bridge' = bridge
              \/ bridge' = [state |-> "R1", port |-> ArOwner, loc |-> MemAddr[ArOwner],
                            left |-> MemLen[ArOwner]]
          BY <4>1, <5>1, BridgeEdge
        <5> QED BY <4>1, <5>2
      <4>2. CASE bridge.state = "R3"
        <5> DEFINE more == [bridge EXCEPT !.state = "R4", !.loc = NextWord(@), !.left = @ - 1]
        <5>1. more.state = "R4" /\ BridgeIdle.state = "idle" BY <1>1 DEF BridgeIdle
        <5>2. \/ bridge' = bridge
              \/ bridge' = IF bridge.left = 0 THEN BridgeIdle ELSE more
          BY <4>2, BridgeEdge
        <5> HIDE DEF more
        <5> QED BY <4>2, <5>1, <5>2
      <4>3. CASE bridge.state \in {"R1", "R2", "R4"} BY <1>1, <4>3, BridgeEdge
      <4> QED BY <1>1, <1>5, <4>1, <4>2, <4>3 DEF BridgeState
    <3> QED BY <3>1, <3>2, <3>3 DEF WriterInv, W
  <2>3. CASE MemAw # {}
    <3>1. /\ MemAw = {AwOwner} /\ AwOwner \in Port
          /\ bridge' = [state |-> "W1", port |-> AwOwner, loc |-> MemAddr[AwOwner], left |-> 0]
      BY <2>3, BridgeEdge, OwnersOK
    <3>2. AwOwner \notin CpuAr /\ rw[AwOwner].state = "WAIT_REQ" BY <3>1, OneChannel
    <3>3. MemAddr[AwOwner] = Req[AwOwner].loc BY <3>1, <3>2 DEF MemAddr
    <3>4. rw'[AwOwner].state \in {"CHECK_WR_HIT_1", "UNCACHED_WR_1"}
      BY <3>1, <3>2, RwEdge
    <3>5. gen'[AwOwner].state = "WAIT_ACK" /\ gen'[AwOwner].loc = Req[AwOwner].loc
      BY <2>1, <3>1, GenEdge
    <3>6. \A c \in Port : c # AwOwner => rw'[c].state \notin W /\ gen'[c].state = "WAIT_REQ"
      BY <2>1, <3>1, WriteStarts, GenEdge DEF W
    <3>7. rw'[AwOwner].state \in BeforeData /\ rw'[AwOwner].state \notin AfterData
      BY <3>4 DEF BeforeData, AfterData
    <3>8. wrOwner' = AwOwner BY <1>3, <2>3
    <3> QED BY <3>1, <3>3, <3>5, <3>6, <3>7, <3>8 DEF WriterInv, W
  <2> QED BY <2>2, <2>3

<1>6. CASE bridge.state \in {"W1", "W2"}
  <2>1. PICK p \in Port : p = bridge.port BY <1>1
  <2>2. /\ gen[p].state = "WAIT_ACK" /\ gen[p].loc = bridge.loc
        /\ bridge.state = "W1" => rw[p].state \in BeforeData /\ wrOwner = p
        /\ bridge.state = "W2" => rw[p].state \in AfterData
    BY <1>2, <1>6, <2>1 DEF W
  <2>3. MemAw = {} /\ wrOwner' = wrOwner BY <1>3, <1>6, BridgeEdge
  <2>4. \A c \in Port : c # p => rw'[c].state \notin W /\ gen'[c].state = "WAIT_REQ"
    BY <1>1, <1>2, <2>1, <2>3, WriteStarts, GenEdge DEF W
  <2>5. CASE bridge.state = "W1" /\ MemWr = {}
    <3>1. bridge' = bridge /\ MemB = {} BY <2>5, BridgeEdge
    <3>2. rw'[p].state \in BeforeData BY <2>2, <2>5, WriteGoesOn
    <3>3. gen'[p] = gen[p] BY <2>2, <3>1, GenEdge
    <3> QED BY <1>4, <2>1, <2>2, <2>3, <2>4, <2>5, <3>1, <3>2, <3>3 DEF WriterInv, W
  <2>6. CASE bridge.state = "W1" /\ MemWr # {}
    <3>1. bridge' = [bridge EXCEPT !.state = "W2"] /\ MemB = {} /\ p \in MemWr
      BY <2>2, <2>6, BridgeEdge
    <3>2. rw'[p].state \in AfterData BY <2>2, <2>6, <3>1, WriteGoesOn
    <3>3. gen'[p] = gen[p] BY <2>2, <3>1, GenEdge
    <3>4. bridge'.state = "W2" /\ bridge'.port = p /\ bridge'.loc = bridge.loc
      BY <1>1, <2>1, <3>1
    <3> QED BY <1>4, <2>2, <2>4, <3>2, <3>3, <3>4 DEF WriterInv, W
  <2>7. CASE bridge.state = "W2" /\ MemB = {}
    <3>1. bridge' = bridge BY <2>7, BridgeEdge
    <3>2. rw'[p].state \in AfterData BY <2>2, <2>7, WriteGoesOn
    <3>3. gen'[p] = gen[p] BY <2>2, <2>7, GenEdge
    <3> QED BY <1>4, <2>1, <2>2, <2>4, <2>7, <3>1, <3>2, <3>3 DEF WriterInv, W
  <2>8. CASE bridge.state = "W2" /\ MemB # {}
    <3>1. bridge' = BridgeIdle /\ p \in MemB BY <2>1, <2>8, BridgeEdge
    <3>2. rw'[p].state \notin W BY <1>4, <2>2, <2>8, <3>1, WriteGoesOn
    <3>3. gen'[p].state = "WAIT_REQ" BY <2>2, <3>1, GenEdge
    <3>4. bridge'.state = "idle" BY <3>1 DEF BridgeIdle
    <3> QED BY <2>4, <3>2, <3>3, <3>4 DEF WriterInv, W
  <2> QED BY <1>6, <2>5, <2>6, <2>7, <2>8
<1> QED BY <1>5, <1>6

-----------------------------------------------------------------------------
(* LinesAskedFor is kept.                                                  *)

Reading == {"CHECK_RD_HIT_1", "CHECK_RD_HIT_2", "CHECK_RD_HIT_3", "FILL_AR", "FILL_RDATA"}

LEMMA CpuEdge ==
  ASSUME TypeInv, CpuClock, NEW c \in Port
  PROVE  /\ cpu'[c].state \in {"AR", "R"} =>
              \/ cpu[c].state \in {"AR", "R"} /\ cpu'[c].req = cpu[c].req
              \/ cpu'[c].req \in Requests[c] /\ cpu'[c].req.op = "read"
         /\ cpu'[c].state \in {"AW", "W", "B"} =>
              \/ cpu[c].state \in {"AW", "W", "B"} /\ cpu'[c].req = cpu[c].req
              \/ cpu'[c].req \in Requests[c] /\ cpu'[c].req.op = "write"
<1>1. PICK ask0 \in Wanted(0), ask1 \in Wanted(1) :
        cpu' = [d \in Port |-> CpuNext(d, IF d = 0 THEN ask0 ELSE ask1,
                                       CpuAr, CpuRd, MemAw, MemWr, MemB)]
  BY DEF CpuClock
<1>2. PICK r \in Wanted(c) : cpu'[c] = CpuNext(c, r, CpuAr, CpuRd, MemAw, MemWr, MemB)
  <2>1. CASE c = 0 BY <1>1, <2>1
  <2>2. CASE c = 1 BY <1>1, <2>2
  <2> QED BY <2>1, <2>2 DEF Port
<1>3. cpu[c] \in [state : CpuState \ {"idle"}, req : Request] \cup {CpuIdle}
  BY DEF TypeInv, TypeOK, CpuTypeOK
<1>4. CASE cpu[c].state = "idle" /\ r # NoRequest
  <2>1. r \in Requests[c] BY <1>4 DEF Wanted
  <2>2. r \in Request BY <2>1, RequestAssumption
  <2>3. r.op \in {"read", "write"} BY <2>2 DEF Request
  <2>4. cpu'[c] = [state |-> IF r.op = "read" THEN "AR" ELSE "AW", req |-> r]
    BY <1>2, <1>4 DEF CpuNext
  <2> QED BY <2>1, <2>3, <2>4
<1>5. CASE cpu[c].state = "idle" /\ r = NoRequest
  <2>1. cpu'[c] = cpu[c] BY <1>2, <1>5 DEF CpuNext
  <2> QED BY <1>5, <2>1
<1>6. CASE cpu[c].state \in {"AR", "AW", "W"}
  <2>1. cpu[c] \in [state : CpuState \ {"idle"}, req : Request] BY <1>3, <1>6 DEF CpuIdle
  <2>2. PICK s \in {"R", "W", "B"} :
          /\ cpu'[c] \in {cpu[c], [cpu[c] EXCEPT !.state = s]}
          /\ s = "R" <=> cpu[c].state = "AR"
    BY <1>2, <1>6 DEF CpuNext
  <2> QED BY <1>6, <2>1, <2>2
<1>7. CASE cpu[c].state \in {"R", "B"}
  <2>1. cpu'[c] \in {cpu[c], CpuIdle} BY <1>2, <1>7 DEF CpuNext
  <2>2. CpuIdle.state = "idle" BY DEF CpuIdle
  <2> QED BY <1>7, <2>1, <2>2
<1>8. cpu[c].state \in CpuState BY <1>3 DEF CpuIdle, CpuState
<1> QED BY <1>4, <1>5, <1>6, <1>7, <1>8 DEF CpuState

LEMMA ReadStarts ==
  ASSUME TypeInv, CacheClock, NEW c \in Port, rw'[c].state \in Reading
  PROVE  \/ rw[c].state \in Reading /\ rw'[c].loc = rw[c].loc
         \/ c \in CpuAr /\ Req[c].cached /\ rw'[c].loc = Req[c].loc
<1>1. rw[c] \in [state : RwState, loc : Loc, ok : BOOLEAN, count : 0 .. Words, way : Way]
  BY DEF TypeInv, TypeOK, CacheTypeOK
<1>2. CASE rw[c].state = "WAIT_REQ" BY <1>2, RwEdge DEF Reading
<1>3. CASE rw[c].state \in Reading BY <1>3, RwEdge DEF Reading
<1>4. CASE rw[c].state \in Clearing BY <1>4, RwCases DEF Clearing, Reading
<1>5. CASE rw[c].state \in {"HIT_READBACK", "UNCACHED_RD"} BY <1>5, RwEdge DEF Reading
<1>6. CASE rw[c].state \in BeforeData \cup AfterData
  <2>1. rw'[c].state \in BeforeData \cup AfterData \cup {"WAIT_REQ"} BY <1>6, WriteGoesOn
  <2> QED BY <2>1 DEF Reading, BeforeData, AfterData
<1> QED BY <1>1, <1>2, <1>3, <1>4, <1>5, <1>6 DEF RwState, Reading, Clearing, BeforeData, AfterData

\* The clearing of the tags leaves no line.
LEMMA ClearedAtEnd ==
  ASSUME TypeInv, DistinctInv, CacheClock, NEW c \in Port,
         rw[c].state \in Clearing, rw'[c].state \notin Clearing
  PROVE  \A s \in Set, w \in Way, t \in Tags : ~Holds(c, s, w, t)'
<1>1. SetsCleared(c) /\ TagWriteFresh(c) BY DEF DistinctInv
<1>2. rw[c].state = "INIT_TAG_2" /\ rw[c].loc.set = Sets - 1 BY RwCases
<1>3. /\ ~tagWr[c].entry.valid /\ tagWr[c].set = rw[c].loc.set /\ tagWr[c].ways = Way
      /\ \A s \in Set : s < rw[c].loc.set => \A w \in Way : ~tagMem[c][s][w].valid
  BY <1>1, <1>2 DEF SetsCleared, TagWriteFresh
<1>4. \A s \in Set : s < rw[c].loc.set \/ s = rw[c].loc.set
  BY <1>2, DimensionAssumption DEF Set
<1> QED BY <1>3, <1>4, HoldsStep DEF Holds

LEMMA LinesAskedForKept ==
  ASSUME TypeInv, DistinctInv, CacheClock, CpuClock, NEW c \in Port, LinesAskedFor(c)
  PROVE  LinesAskedFor(c)'
<1>1. /\ cpu'[c].state \in {"AR", "R"} => cpu'[c].req \in Requests[c] /\ cpu'[c].req.op = "read"
      /\ cpu'[c].state \in {"AW", "W", "B"} => cpu'[c].req \in Requests[c] /\ cpu'[c].req.op = "write"
  BY CpuEdge DEF LinesAskedFor
<1>2. rw'[c].state \in Reading => CachedLine(c, rw'[c].loc.set, rw'[c].loc.tag)
  <2> SUFFICES ASSUME rw'[c].state \in Reading
               PROVE  CachedLine(c, rw'[c].loc.set, rw'[c].loc.tag)
    OBVIOUS
  <2>1. CASE rw[c].state \in Reading /\ rw'[c].loc = rw[c].loc
    BY <2>1 DEF LinesAskedFor, Reading
  <2>2. CASE c \in CpuAr /\ Req[c].cached /\ rw'[c].loc = Req[c].loc
    <3>1. ARVALID(c) BY <2>2, WireStates DEF TypeInv
    <3>2. cpu[c].req \in Requests[c] /\ cpu[c].req.op = "read"
      BY <3>1 DEF ARVALID, LinesAskedFor
    <3> QED BY <2>2, <3>2 DEF Req, CachedLine
  <2> QED BY <2>1, <2>2, ReadStarts
<1>3. tagWr'[c].entry.valid => CachedLine(c, tagWr'[c].set, tagWr'[c].entry.tag)
  <2>1. tagWr'[c] = TagWrNext(c) BY DEF CacheClock
  <2>2. tagWr'[c].entry.valid =>
          rw[c].state = "FILL_RDATA" /\ tagWr'[c].set = rw[c].loc.set
          /\ tagWr'[c].entry.tag = rw[c].loc.tag
    BY <2>1 DEF TagWrNext, NoWrite
  <2> QED BY <2>2 DEF LinesAskedFor
<1>4. ASSUME rw'[c].state \notin Clearing, NEW s \in Set, NEW w \in Way, NEW t \in Tags,
             Holds(c, s, w, t)'
      PROVE  CachedLine(c, s, t)
  <2>1. rw[c].state \notin Clearing BY <1>4, ClearedAtEnd
  <2> QED BY <1>4, <2>1, HoldsStep DEF LinesAskedFor
<1> QED BY <1>1, <1>2, <1>3, <1>4 DEF LinesAskedFor, Reading, CachedLine

-----------------------------------------------------------------------------
(* OwnCopy is kept.                                                        *)

\* While its port writes, the tags of a cache change by invalidation only.
LEMMA OnlyInvalidated ==
  ASSUME TypeInv, DistinctInv, CacheClock, NEW c \in Port,
         rw[c].state \in BeforeData \cup AfterData,
         NEW s \in Set, NEW w \in Way, tagMem'[c][s][w].valid
  PROVE  tagMem'[c][s][w] = tagMem[c][s][w] /\ ~(s = snoopWr[c].set /\ w \in snoopWr[c].ways)
<1>1. ~snoopWr[c].entry.valid /\ ~tagWr[c].entry.valid
  BY DEF DistinctInv, TagWriteFresh, BeforeData, AfterData
<1> QED BY <1>1, TagMemStep

\* While a port writes, its bridge and its snoop address stay.
LEMMA WriteLoc ==
  ASSUME TypeInv, WriterInv, WriterInv', MemoryClock, NEW c \in Port,
         rw[c].state \in BeforeData \cup AfterData,
         rw'[c].state \in BeforeData \cup AfterData
  PROVE  bridge'.loc = bridge.loc
<1>1. bridge.state \in {"W1", "W2"} /\ bridge'.state \in {"W1", "W2"} BY DEF WriterInv
<1>2. bridge \in [state : BridgeState, port : Port, loc : Loc, left : Word]
  BY DEF TypeInv, TypeOK, BridgeTypeOK
<1>3. BridgeIdle.state = "idle" BY DEF BridgeIdle
<1>4. CASE bridge.state = "W1" BY <1>2, <1>4, BridgeEdge
<1>5. CASE bridge.state = "W2" BY <1>1, <1>3, <1>5, BridgeEdge
<1> QED BY <1>1, <1>4, <1>5

LEMMA OwnCopyKept ==
  ASSUME TypeInv, DistinctInv, WriterInv, WriterInv', CacheClock, MemoryClock,
         WritesThroughCache, NEW c \in Port, LinesAskedFor(c), LinesAskedFor(c)', OwnCopy(c)
  PROVE  OwnCopy(c)'
<1> DEFINE W == BeforeData \cup AfterData
           rest == rw'[c].loc = rw[c].loc /\ rw'[c].way = rw[c].way
<1>1. /\ rw[c] \in [state : RwState, loc : Loc, ok : BOOLEAN, count : 0 .. Words, way : Way]
      /\ bridge \in [state : BridgeState, port : Port, loc : Loc, left : Word]
      /\ mem \in [Loc -> Val] /\ line[c] \in [Word -> Val]
  BY DEF TypeInv, TypeOK, CacheTypeOK, BridgeTypeOK
<1>2. PICK s \in Set, t \in Tags : s = rw[c].loc.set /\ t = rw[c].loc.tag BY <1>1 DEF Loc

<1>3. CASE rw[c].state \notin W /\ rw'[c].state \in W
  <2>1. /\ c \in MemAw /\ rw'[c].state \in {"CHECK_WR_HIT_1", "UNCACHED_WR_1"}
        /\ rw'[c].state = "CHECK_WR_HIT_1" => rw'[c].loc = Req[c].loc
        /\ rw'[c].state = "UNCACHED_WR_1" => ~Req[c].cached
    BY <1>3, WriteStarts
  <2>2. rw[c].state = "WAIT_REQ" /\ AWVALID(c) /\ Req[c].loc \in Loc BY <2>1, OneChannel
  <2>3. bridge'.loc = Req[c].loc
    <3>1. bridge' = [state |-> "W1", port |-> AwOwner, loc |-> MemAddr[AwOwner], left |-> 0]
          /\ c = AwOwner
      BY <2>1, BridgeEdge, WireStates DEF TypeInv
    <3> QED BY <2>2, <3>1 DEF MemAddr
  <2>4. rw'[c].state = "UNCACHED_WR_1" =>
          \A w \in Way : ~Holds(c, bridge.loc.set, w, bridge.loc.tag)'
    <3> SUFFICES ASSUME rw'[c].state = "UNCACHED_WR_1", NEW w \in Way,
                        Holds(c, bridge.loc.set, w, bridge.loc.tag)'
                 PROVE  FALSE
      OBVIOUS
    <3>1. CachedLine(c, bridge'.loc.set, bridge'.loc.tag)
      <4>1. bridge'.loc.set \in Set /\ bridge'.loc.tag \in Tags BY <2>2, <2>3 DEF Loc
      <4>2. rw'[c].state \notin Clearing BY DEF Clearing
      <4> QED BY <4>1, <4>2 DEF LinesAskedFor, CachedLine, Holds
    <3>2. cpu[c].req \in Requests[c] /\ cpu[c].req.op = "write" /\ Req[c] = cpu[c].req
      BY <2>2 DEF AWVALID, LinesAskedFor, Req
    <3>3. PICK r \in Requests[c] : r.op = "read" /\ r.cached /\ SameLine(cpu[c].req.loc, r.loc)
      BY <2>3, <3>1, <3>2 DEF CachedLine, SameLine
    <3> QED BY <2>1, <3>2, <3>3 DEF WritesThroughCache
  <2> QED BY <2>1, <2>3, <2>4 DEF OwnCopy

<1>4. CASE rw[c].state \in W /\ rw'[c].state \in W
  <2>1. bridge'.loc = bridge.loc BY <1>4, WriteLoc
  <2>2. \A w \in Way : tagMem'[c][s][w].valid => tagMem'[c][s][w] = tagMem[c][s][w]
    BY <1>4, OnlyInvalidated
  <2>3. \A w \in Way : Holds(c, s, w, t)' => Holds(c, s, w, t) BY <2>2 DEF Holds
  <2>4. CASE rw[c].state = "CHECK_WR_HIT_1"
    <3>1. rw'[c].state = "CHECK_WR_HIT_2" /\ rw'[c].loc = rw[c].loc BY <1>1, <2>4, RwEdge
    <3>2. rw[c].loc = bridge.loc BY <2>4 DEF OwnCopy, BeforeData
    <3> QED BY <2>1, <3>1, <3>2 DEF OwnCopy
  <2>5. CASE rw[c].state = "CHECK_WR_HIT_2"
    <3>1. rw'[c].state = "CHECK_WR_HIT_3" /\ rw'[c].loc = rw[c].loc BY <1>1, <2>5, RwEdge
    <3>2. rw[c].loc = bridge.loc BY <2>5 DEF OwnCopy, BeforeData
    <3>3. PICK early \in SUBSET Port :
            tagRd' = [d \in Port |-> TagRdNext(d, d \in early, rw'[d].state)]
      BY DEF CacheClock
    <3>4. tagRd'[c] \in {Applied(tagMem[c], snoopWr[c])[s], tagMem[c][s]}
      BY <1>2, <3>1, <3>3 DEF TagRdNext
    <3>5. /\ tagMem[c] \in [Set -> [Way -> Entry]] /\ snoopWr[c] \in TagWrite
          /\ ~snoopWr[c].entry.valid
      BY DEF TypeInv, TypeOK, CacheTypeOK, DistinctInv, TagWriteFresh
    <3>6. \A w \in Way : Applied(tagMem[c], snoopWr[c])[s][w] =
            IF s = snoopWr[c].set /\ w \in snoopWr[c].ways THEN snoopWr[c].entry
            ELSE tagMem[c][s][w]
      BY <3>5, AppliedOK
    <3>7. \A w \in Way : tagMem'[c][s][w].valid => tagRd'[c][w] = tagMem'[c][s][w]
      <4> SUFFICES ASSUME NEW w \in Way, tagMem'[c][s][w].valid
                   PROVE  tagRd'[c][w] = tagMem'[c][s][w]
        OBVIOUS
      <4>1. ~(s = snoopWr[c].set /\ w \in snoopWr[c].ways)
        BY <1>4, OnlyInvalidated
      <4> QED BY <2>2, <3>4, <3>6, <4>1
    <3>8. \A w \in Way : w \in HitWays(c)' => Holds(c, s, w, t)
      BY <1>2, <3>1, <3>4, <3>5, <3>6 DEF HitWays, Holds
    <3>9. \A v, w \in HitWays(c)' : v = w
      <4>1. Distinct(c) BY <2>5 DEF DistinctInv, Clearing
      <4>2. \A w \in HitWays(c)' : w \in Way BY DEF HitWays
      <4> QED BY <3>8, <4>1, <4>2 DEF Distinct
    <3> QED BY <1>2, <2>1, <3>1, <3>2, <3>7, <3>9 DEF OwnCopy
  <2>6. CASE rw[c].state = "CHECK_WR_HIT_3"
    <3>1. /\ rw[c].loc = bridge.loc
          /\ \A w \in Way : tagMem[c][s][w].valid => tagRd[c][w] = tagMem[c][s][w]
          /\ \A v, w \in HitWays(c) : v = w
      BY <1>2, <2>6 DEF OwnCopy, BeforeData
    <3>2. \A w \in Way : Holds(c, s, w, t) => w \in HitWays(c)
      BY <1>2, <3>1 DEF Holds, HitWays
    <3>3. CASE Hit(c)
      <4>1. /\ rw'[c].state = "HIT_WRITEBACK" /\ rw'[c].loc = rw[c].loc
            /\ rw'[c].way = HitWay(c)
        BY <1>1, <2>6, <3>3, RwEdge
      <4>2. HitWay(c) \in HitWays(c)
        <5>1. HitWays(c) \in SUBSET (0 .. Ways - 1) BY DEF HitWays, Way
        <5>2. PICK m \in HitWays(c) : \A v \in HitWays(c) : v <= m
          BY <3>3, <5>1, GreatestBounded, DimensionAssumption DEF Hit
        <5> QED BY <3>3, <5>2 DEF HitWay
      <4>3. \A w \in Way : w = HitWay(c) => (tagMem'[c][s][w].valid => tagMem'[c][s][w].tag = t)
        BY <1>2, <2>2, <3>1, <4>2 DEF HitWays
      <4>4. \A w \in Way : Holds(c, s, w, t)' => w = HitWay(c)
        BY <2>3, <3>1, <3>2, <4>2
      <4> QED BY <1>2, <2>1, <3>1, <4>1, <4>3, <4>4 DEF OwnCopy
    <3>4. CASE ~Hit(c)
      <4>1. rw'[c].state = "UNCACHED_WR_1" BY <1>1, <2>6, <3>4, RwEdge
      <4>2. \A w \in Way : ~Holds(c, s, w, t)' BY <2>3, <3>2, <3>4 DEF Hit
      <4> QED BY <1>2, <2>1, <3>1, <4>1, <4>2 DEF OwnCopy
    <3> QED BY <3>3, <3>4
  <2>7. CASE rw[c].state = "HIT_WRITEBACK"
    <3>1. /\ rw[c].loc = bridge.loc
          /\ \A w \in Way : w = rw[c].way => (tagMem[c][s][w].valid => tagMem[c][s][w].tag = t)
          /\ \A w \in Way : Holds(c, s, w, t) => w = rw[c].way
      BY <1>2, <2>7 DEF OwnCopy, BeforeData
    <3>2. rest /\ rw'[c].state \in {"HIT_WRITEBACK", "WR_ACK"}
      BY <1>1, <2>7, RwEdge
    <3>3. \A w \in Way : w = rw[c].way => (tagMem'[c][s][w].valid => tagMem'[c][s][w].tag = t)
      BY <2>2, <3>1
    <3>4. rw'[c].state = "WR_ACK" => line'[c][rw[c].loc.word] = mem'[rw[c].loc]
      <4> SUFFICES ASSUME rw'[c].state = "WR_ACK"
                   PROVE  line'[c][rw[c].loc.word] = mem'[rw[c].loc]
        OBVIOUS
      <4>1. c \in MemWr BY <1>1, <2>7, RwEdge
      <4>2. mem' = [mem EXCEPT ![bridge.loc] = WriteNumber]
        BY <4>1, BridgeEdge
      <4>3. line'[c] = [line[c] EXCEPT ![rw[c].loc.word] = WriteNumber]
        BY <2>7, <4>1 DEF CacheClock, LineNext
      <4> QED BY <1>1, <3>1, <4>2, <4>3 DEF Loc
    <3> QED BY <1>2, <2>1, <2>3, <3>1, <3>2, <3>3, <3>4 DEF OwnCopy
  <2>8. CASE rw[c].state = "WR_ACK"
    <3>1. /\ rw[c].loc = bridge.loc
          /\ \A w \in Way : w = rw[c].way => (tagMem[c][s][w].valid => tagMem[c][s][w].tag = t)
          /\ line[c][rw[c].loc.word] = mem[rw[c].loc]
      BY <1>2, <2>8 DEF OwnCopy, AfterData
    <3>2. rest /\ rw'[c].state = "WR_ACK"
      BY <1>4, <2>8, RwEdge DEF RwIdle, BeforeData, AfterData
    <3>3. line'[c] = line[c] BY <2>8 DEF CacheClock, LineNext
    <3>4. mem' = mem
      <4>1. bridge.state = "W2" BY <2>8 DEF WriterInv, AfterData
      <4> QED BY <4>1, BridgeEdge
    <3>5. \A w \in Way : w = rw[c].way => (tagMem'[c][s][w].valid => tagMem'[c][s][w].tag = t)
      BY <2>2, <3>1
    <3> QED BY <1>2, <2>1, <3>1, <3>2, <3>3, <3>4, <3>5 DEF OwnCopy
  <2>9. CASE rw[c].state = "UNCACHED_WR_1"
    <3>1. rw'[c].state \in {"UNCACHED_WR_1", "UNCACHED_WR_2"} BY <1>1, <2>9, RwEdge
    <3>2. \A w \in Way : ~Holds(c, bridge.loc.set, w, bridge.loc.tag)
      BY <2>9 DEF OwnCopy
    <3>3. bridge.loc.set \in Set BY <1>1 DEF Loc
    <3>4. \A w \in Way : ~Holds(c, bridge.loc.set, w, bridge.loc.tag)'
      BY <1>4, <2>1, <3>2, <3>3, OnlyInvalidated DEF Holds
    <3> QED BY <3>1, <3>4 DEF OwnCopy
  <2>10. CASE rw[c].state = "UNCACHED_WR_2"
    <3>1. rw'[c].state = "UNCACHED_WR_2"
      BY <1>4, <2>10, RwEdge DEF RwIdle, BeforeData, AfterData
    <3> QED BY <3>1 DEF OwnCopy
  <2> QED BY <1>4, <2>4, <2>5, <2>6, <2>7, <2>8, <2>9, <2>10 DEF BeforeData, AfterData
<1>5. CASE rw'[c].state \notin W BY <1>5 DEF OwnCopy, BeforeData, AfterData
<1> QED BY <1>3, <1>4, <1>5

-----------------------------------------------------------------------------
(* FillData, SnoopSees and SnoopHitsAll are kept.                          *)

LEMMA LastBeatEnds ==
  ASSUME TypeInv, CacheClock, NEW c \in Port, rw'[c].count = Words
  PROVE  rw[c].state = "FILL_RDATA" /\ c \in MemRd /\ LastBeat(c)
<1>1. PICK rand \in Way :
        rw' = [d \in Port |-> RwNext(d, Req, CpuAr, MemAw, MemWr, MemB, CpuRd, MemAr, MemRd,
                                     Snooped, SnoopAddr, rand)]
  BY IdleOK DEF CacheClock
<1> DEFINE cur == rw[c]
           next == RwNext(c, Req, CpuAr, MemAw, MemWr, MemB, CpuRd, MemAr, MemRd,
                          Snooped, SnoopAddr, rand)
<1>2. rw'[c] = next BY <1>1
<1>3. /\ cur \in [state : RwState, loc : Loc, ok : BOOLEAN, count : 0 .. Words, way : Way]
      /\ cur.count = Words => cur.state = "WAIT_REQ"
  BY DEF TypeInv, TypeOK, CacheTypeOK, FillsBounded
<1>4. Words \in Nat \ {0, 1} /\ RwIdle.count = 0 BY DimensionAssumption DEF RwIdle
<1>5. CASE cur.state = "WAIT_REQ" BY <1>4, <1>5, RwEdge
<1>6. CASE cur.state \in {"CHECK_RD_HIT_1", "CHECK_RD_HIT_2"}
  <2>1. \E s \in {"CHECK_RD_HIT_2", "CHECK_RD_HIT_3"} :
          next \in {[cur EXCEPT !.state = s], [[cur EXCEPT !.state = s] EXCEPT !.ok = FALSE]}
    BY <1>6 DEF RwNext
  <2>2. next.count = cur.count BY <1>3, <2>1
  <2> HIDE DEF next
  <2> QED BY <1>2, <1>3, <1>6, <2>2
<1>7. CASE cur.state \in {"HIT_READBACK", "UNCACHED_RD", "UNCACHED_WR_1", "UNCACHED_WR_2",
                          "HIT_WRITEBACK", "WR_ACK"}
  <2>1. next \in {cur, RwIdle} \cup {[cur EXCEPT !.state = s] : s \in {"WR_ACK", "UNCACHED_WR_2"}}
    BY <1>7 DEF RwNext
  <2>2. next.count \in {cur.count, 0} BY <1>3, <1>4, <2>1
  <2> HIDE DEF next
  <2> QED BY <1>2, <1>3, <1>4, <1>7, <2>2
<1>8. CASE cur.state \in {"CHECK_WR_HIT_1", "CHECK_WR_HIT_2", "CHECK_WR_HIT_3", "INIT_TAG_1"}
  <2>1. next.count = cur.count BY <1>3, <1>8 DEF RwNext
  <2> HIDE DEF next
  <2> QED BY <1>2, <1>3, <1>8, <2>1
<1>9. CASE cur.state \in {"CHECK_RD_HIT_3", "FILL_AR"}
  BY <1>3, <1>4, <1>9, RwEdge
<1>10. CASE cur.state = "INIT_TAG_2"
  <2>1. next \in {RwIdle, [cur EXCEPT !.state = "INIT_TAG_1", !.loc.set = @ + 1]}
    BY <1>10 DEF RwNext
  <2>2. next.count \in {cur.count, 0} BY <1>3, <1>4, <2>1
  <2> HIDE DEF next
  <2> QED BY <1>2, <1>3, <1>4, <1>10, <2>2
<1>11. CASE cur.state = "FILL_RDATA"
  <2>1. c \in MemRd /\ cur.count + 1 = Words BY <1>3, <1>11, RwEdge
  <2> QED BY <1>3, <1>4, <1>11, <2>1 DEF LastBeat
<1> QED BY <1>3, <1>5, <1>6, <1>7, <1>8, <1>9, <1>10, <1>11 DEF RwState

LEMMA FillDataKept ==
  ASSUME TypeInv, CacheClock, MemoryClock, NEW c \in Port, FillOwnsBridge(c), FillData(c)
  PROVE  FillData(c)'
<1>1. /\ rw[c].loc \in Loc /\ rw[c].loc.word \in Word /\ rw[c].count \in 0 .. Words
      /\ bridge.loc \in Loc /\ bridge.loc.word \in Word /\ bridge.left \in Word
      /\ line[c] \in [Word -> Val]
  BY DEF TypeInv, TypeOK, CacheTypeOK, BridgeTypeOK, Loc
<1>2. Words \in Nat \ {0, 1} BY DimensionAssumption
<1>3. ASSUME rw[c].state = "FILL_RDATA", c \in MemRd
      PROVE  /\ mem' = mem /\ rw'[c].loc = rw[c].loc /\ rw'[c].count = rw[c].count + 1
             /\ \A i \in Word : Offset(rw[c].loc.word, i) < rw[c].count + 1 =>
                  line'[c][i] = mem[LineLoc(c, i)]
  <2>1. mem' = mem /\ rw'[c].loc = rw[c].loc /\ rw'[c].count = rw[c].count + 1
    BY <1>3, BridgeEdge, RwEdge
  <2>2. /\ bridge.loc.set = rw[c].loc.set /\ bridge.loc.tag = rw[c].loc.tag
        /\ rw[c].count = Offset(rw[c].loc.word, bridge.loc.word)
        /\ rw[c].count \in 0 .. Words - 1
    BY <1>1, <1>2, <1>3 DEF FillOwnsBridge, Word
  <2>3. /\ FillWord(c) \in Word
        /\ Offset(rw[c].loc.word, FillWord(c)) = rw[c].count
    BY <1>1, <2>2, OffsetFacts, WordSteps DEF FillWord
  <2>4. bridge.loc.word = FillWord(c) BY <1>1, <2>2, <2>3, OffsetFacts
  <2>5. RDATA = mem[LineLoc(c, FillWord(c))]
    BY <1>1, <2>2, <2>4 DEF RDATA, LineLoc, Loc
  <2>6. line'[c] = [line[c] EXCEPT ![FillWord(c)] = RDATA]
    BY <1>3 DEF CacheClock, LineNext
  <2>7. ASSUME NEW i \in Word, Offset(rw[c].loc.word, i) < rw[c].count + 1
        PROVE  line'[c][i] = mem[LineLoc(c, i)]
    <3>1. CASE i = FillWord(c) BY <1>1, <2>3, <2>5, <2>6, <3>1
    <3>2. CASE i # FillWord(c)
      <4>0. 0 \in 0 .. Words - 1 BY <1>2
      <4>1. Offset(rw[c].loc.word, i) # rw[c].count
        BY <1>1, <2>3, <3>2, <4>0, OffsetFacts
      <4>2. Offset(rw[c].loc.word, i) \in 0 .. Words - 1 BY <1>1, <4>0, OffsetFacts
      <4>3. Offset(rw[c].loc.word, i) < rw[c].count BY <1>1, <1>2, <2>7, <4>1, <4>2
      <4>4. line[c][i] = mem[LineLoc(c, i)] BY <1>3, <4>3 DEF FillData
      <4> QED BY <1>1, <2>6, <3>2, <4>4
    <3> QED BY <3>1, <3>2
  <2> QED BY <2>1, <2>7
<1>4. ASSUME rw'[c].state = "FILL_RDATA", NEW i \in Word,
             Offset(rw'[c].loc.word, i) < rw'[c].count
      PROVE  line'[c][i] = mem'[LineLoc(c, i)']
  <2>1. CASE rw[c].state = "FILL_AR"
    <3>1. rw'[c].loc = rw[c].loc /\ rw'[c].count = 0 BY <1>4, <2>1, RwEdge DEF FillOwnsBridge
    <3>2. Offset(rw[c].loc.word, i) \in 0 .. Words - 1 BY <1>1, <1>2 DEF Offset, Word
    <3>3. Offset(rw[c].loc.word, i) < 0 BY <1>4, <3>1
    <3> QED BY <1>2, <3>2, <3>3
  <2>2. CASE rw[c].state = "FILL_RDATA" /\ c \notin MemRd
    <3>1. rw'[c] = rw[c] BY <2>2, RwEdge
    <3>2. line'[c] = line[c] BY <2>2 DEF CacheClock, LineNext
    <3>3. mem' = mem BY <2>2, BridgeEdge DEF FillOwnsBridge, Burst
    <3> QED BY <1>4, <2>2, <3>1, <3>2, <3>3 DEF FillData, LineLoc
  <2>3. CASE rw[c].state = "FILL_RDATA" /\ c \in MemRd
    BY <1>3, <1>4, <2>3 DEF LineLoc
  <2> QED BY <1>4, <2>1, <2>2, <2>3, RwCases
<1>5. ASSUME rw'[c].count = Words
      PROVE  /\ bridge'.state = "idle"
             /\ \A i \in Word : line'[c][i] = mem'[LineLoc(c, i)']
             /\ tagWr'[c].set = rw'[c].loc.set /\ tagWr'[c].ways = {rw'[c].way}
             /\ tagWr'[c].entry.valid => tagWr'[c].entry.tag = rw'[c].loc.tag
  <2>1. rw[c].state = "FILL_RDATA" /\ c \in MemRd /\ LastBeat(c) BY <1>5, LastBeatEnds
  <2>2. bridge.left = 0 BY <1>1, <1>2, <2>1 DEF FillOwnsBridge, LastBeat
  <2>3. bridge' = BridgeIdle BY <2>1, <2>2, BridgeEdge
  <2>4. tagWr'[c] = [set |-> rw[c].loc.set, ways |-> {rw[c].way},
                     entry |-> [valid |-> rw[c].ok, tag |-> rw[c].loc.tag]]
    BY <2>1 DEF CacheClock, TagWrNext
  <2>5. rw'[c].loc = rw[c].loc /\ rw'[c].way = rw[c].way BY <2>1, RwEdge
  <2>6. \A i \in Word : line'[c][i] = mem'[LineLoc(c, i)']
    <3> SUFFICES ASSUME NEW i \in Word PROVE line'[c][i] = mem'[LineLoc(c, i)']
      OBVIOUS
    <3>1. Offset(rw[c].loc.word, i) < rw[c].count + 1
      BY <1>1, <1>2, <2>1 DEF LastBeat, Offset, Word
    <3> QED BY <1>3, <2>1, <2>5, <3>1 DEF LineLoc
  <2> QED BY <2>3, <2>4, <2>5, <2>6 DEF BridgeIdle
<1>6. tagWr'[c].entry.valid => rw'[c].state = "FILL_RDATA" \/ rw'[c].count = Words
  <2>1. tagWr'[c] = TagWrNext(c) BY DEF CacheClock
  <2>2. tagWr'[c].entry.valid => rw[c].state = "FILL_RDATA" /\ LastBeat(c)
    BY <2>1 DEF TagWrNext, NoWrite
  <2>3. rw[c].state = "FILL_RDATA" /\ LastBeat(c) =>
          rw'[c].state = "FILL_RDATA" \/ rw'[c].count = Words
    BY <1>1, <1>2, RwEdge DEF LastBeat
  <2> QED BY <2>2, <2>3
<1> QED BY <1>4, <1>5, <1>6 DEF FillData

LEMMA SnoopKept ==
  ASSUME TypeInv, DistinctInv, CacheClock, SnoopClock, NEW c \in Port,
         SnoopWindow(c), SnoopSees(c)
  PROVE  SnoopSees(c)' /\ SnoopHitsAll(c)'
<1>1. /\ tagMem[c] \in [Set -> [Way -> Entry]] /\ tagWr[c] \in TagWrite
      /\ snoop[c].loc \in Loc
  BY DEF TypeInv, TypeOK, CacheTypeOK
<1>2. PICK s \in Set, t \in Tags : s = snoop[c].loc.set /\ t = snoop[c].loc.tag
  BY <1>1 DEF Loc
<1>3. snoop[c].state # "WAIT_REQ" =>
        tagWr[c].ways = {} /\ snoopWr[c].ways = {} /\ rw[c].state \notin Clearing
  BY DEF SnoopWindow
<1>4. snoop[c].state # "WAIT_REQ" => \A w \in Way : tagMem'[c][s][w] = tagMem[c][s][w]
  BY <1>3, TagMemStep
<1>5. ASSUME snoop'[c].state = "CHECK_HIT_3", NEW w \in Way
      PROVE  snoopRd'[c][w] = tagMem'[c][snoop'[c].loc.set][w]
  <2>1. snoop[c].state = "CHECK_HIT_2" /\ snoop'[c].loc = snoop[c].loc BY <1>5, SnoopEdge
  <2>2. PICK early \in SUBSET Port :
          snoopRd' = [d \in Port |-> SnoopRdNext(d, d \in early)]
    BY DEF SnoopClock
  <2>3. snoopRd'[c] \in {Applied(tagMem[c], tagWr[c])[s], tagMem[c][s]}
    BY <1>2, <2>1, <2>2 DEF SnoopRdNext
  <2>4. Applied(tagMem[c], tagWr[c])[s][w] = tagMem[c][s][w]
    <3>1. tagWr[c].ways = {} BY <1>3, <2>1
    <3>2. Applied(tagMem[c], tagWr[c])[s][w] =
            IF s = tagWr[c].set /\ w \in tagWr[c].ways THEN tagWr[c].entry ELSE tagMem[c][s][w]
      BY <1>1, AppliedOK
    <3> QED BY <3>1, <3>2
  <2> QED BY <1>2, <1>4, <2>1, <2>3, <2>4
<1>6. ASSUME snoopWr'[c].ways # {}
      PROVE  \A w \in Way : Holds(c, snoopWr[c].set, w, snoopWr[c].entry.tag)'
                              => w \in snoopWr'[c].ways
  <2>1. snoop[c].state = "CHECK_HIT_3" /\ snoopWr'[c] = SnoopWrNext(c) BY <1>6, SnoopEdge DEF SnoopClock
  <2>2. SnoopHits(c) # {} BY <1>6, <2>1 DEF SnoopWrNext, NoWrite
  <2>3. snoopWr'[c] = [set |-> s, ways |-> {SnoopHitWay(c)}, entry |-> [valid |-> FALSE, tag |-> t]]
    BY <1>2, <2>1, <2>2 DEF SnoopWrNext
  <2>4. SnoopHitWay(c) \in SnoopHits(c)
    <3>1. SnoopHits(c) \in SUBSET Nat BY DEF SnoopHits, Way
    <3>2. PICK m \in SnoopHits(c) : \A v \in SnoopHits(c) : m <= v BY <2>2, <3>1, LeastNat
    <3> QED BY <3>2 DEF SnoopHitWay
  <2>5. \A w \in Way : w \in SnoopHits(c) <=> Holds(c, s, w, t)
    BY <1>2, <2>1 DEF SnoopSees, SnoopHits, Holds
  <2>6. Distinct(c) BY <1>3, <2>1 DEF DistinctInv
  <2>7. SnoopHitWay(c) \in Way BY <2>4 DEF SnoopHits
  <2>8. \A w \in Way : Holds(c, s, w, t)' => w = SnoopHitWay(c)
    BY <1>4, <2>1, <2>4, <2>5, <2>6, <2>7 DEF Holds, Distinct
  <2> QED BY <2>3, <2>8 DEF Holds
<1> QED BY <1>5, <1>6 DEF SnoopSees, SnoopHitsAll

-----------------------------------------------------------------------------
(* Coherence.                                                              *)

\* A stale line stays stale, until the way that holds it is cleared.
LEMMA PendingStays ==
  ASSUME TypeInv, PortsInv, SnoopReady, DistinctInv, WriterInv,
         CacheClock, SnoopClock, MemoryClock,
         NEW c \in Port, SnoopSees(c), SnoopHitsAll(c), rw[c].state \notin Clearing,
         NEW s \in Set, NEW w \in Way, NEW t \in Tags, Holds(c, s, w, t),
         ~(s = snoopWr[c].set /\ w \in snoopWr[c].ways),
         NEW l \in Loc, l.set = s, l.tag = t, LineStale(c, l)
  PROVE  LineStale(c, l)'
<1>1. Other(c) \in Port /\ Other(Other(c)) = c BY PortFacts
<1>2. CASE /\ gen[Other(c)].state = "WAIT_ACK" /\ SameLine(gen[Other(c)].loc, l)
           /\ bridge.state = "W2"
  <2>1. CASE Other(c) \in MemB
    <3>1. snoop[c].state = "WAIT_REQ" BY <1>1, <1>2 DEF SnoopReady
    <3>2. snoop'[c].state = "CHECK_HIT_1" /\ snoop'[c].loc = gen[Other(c)].loc
      BY <2>1, <3>1, SnoopEdge
    <3> QED BY <1>2, <3>2 DEF LineStale, SameLine
  <2>2. CASE Other(c) \notin MemB
    <3>1. gen'[Other(c)] = gen[Other(c)] BY <1>1, <1>2, <2>2, GenEdge
    <3>2. CASE MemB = {}
      <4>1. bridge' = bridge BY <1>2, <3>2, BridgeEdge
      <4> QED BY <1>2, <3>1, <4>1 DEF LineStale, SameLine
    <3>3. CASE MemB # {}
      <4>1. Other(c) # bridge.port BY <1>2, <2>2, <3>3, BridgeEdge
      <4>2. gen[Other(c)].state = "WAIT_ACK" => bridge.port = Other(c)
        BY <1>1 DEF WriterInv
      <4> QED BY <1>2, <4>1, <4>2
    <3> QED BY <3>2, <3>3
  <2> QED BY <2>1, <2>2
<1>3. CASE snoop[c].state \in {"CHECK_HIT_1", "CHECK_HIT_2"} /\ SameLine(snoop[c].loc, l)
  BY <1>3, SnoopEdge DEF LineStale, SameLine
<1>4. CASE snoop[c].state = "CHECK_HIT_3" /\ SameLine(snoop[c].loc, l)
  <2>1. w \in SnoopHits(c) BY <1>4 DEF SnoopSees, SnoopHits, Holds, SameLine
  <2>2. snoopWr'[c] = [set |-> snoop[c].loc.set, ways |-> {SnoopHitWay(c)},
                       entry |-> [valid |-> FALSE, tag |-> snoop[c].loc.tag]]
    BY <1>4, <2>1 DEF SnoopClock, SnoopWrNext
  <2>3. /\ snoopWr'[c].ways # {} /\ snoopWr'[c].set = s /\ snoopWr'[c].entry.tag = t
    BY <1>4, <2>2 DEF SameLine
  <2> QED BY <2>3 DEF LineStale
<1>5. CASE snoopWr[c].ways # {} /\ snoopWr[c].set = l.set /\ snoopWr[c].entry.tag = l.tag
  BY <1>5 DEF SnoopHitsAll
<1>6. snoop[c].state \in SnoopState BY DEF TypeInv, TypeOK, CacheTypeOK
<1> QED BY <1>2, <1>3, <1>4, <1>5, <1>6 DEF LineStale, SnoopState

\* A word of a way after an edge that does not write the way's tag.
LEMMA DataStep ==
  ASSUME TypeInv, CacheClock, NEW c \in Port, FillData(c),
         NEW s \in Set, NEW w \in Way, NEW i \in Word,
         ~(s = tagWr[c].set /\ w \in tagWr[c].ways)
  PROVE  dataMem'[c][s][w][i] = IF WordLanding(c, s, w, i) THEN line[c][i]
                                ELSE dataMem[c][s][w][i]
<1>1. /\ dataMem[c] \in [Set -> [Way -> [Word -> Val]]]
      /\ rw[c].loc \in Loc /\ rw[c].loc.set \in Set /\ rw[c].loc.word \in Word
      /\ rw[c].way \in Way
      /\ rw[c].count = Words => rw[c].state = "WAIT_REQ"
  BY DEF TypeInv, TypeOK, CacheTypeOK, FillsBounded, Loc
<1>2. dataMem'[c] = DataNext(c) BY DEF CacheClock
<1>3. CASE rw[c].count = Words
  <2>1. ~(s = rw[c].loc.set /\ w = rw[c].way) BY <1>3 DEF FillData
  <2>2. DataNext(c)[s][w][i] = dataMem[c][s][w][i] BY <1>1, <1>3, <2>1 DEF DataNext
  <2> QED BY <1>1, <1>2, <1>3, <2>2 DEF WordLanding
<1>4. CASE rw[c].count # Words /\ rw[c].state = "WR_ACK"
  <2>1. DataNext(c)[s][w][i] =
          [dataMem[c] EXCEPT ![rw[c].loc.set][rw[c].way][rw[c].loc.word]
                               = line[c][rw[c].loc.word]][s][w][i]
    BY <1>4 DEF DataNext
  <2> QED BY <1>1, <1>2, <1>4, <2>1 DEF WordLanding
<1>5. CASE rw[c].count # Words /\ rw[c].state # "WR_ACK"
  BY <1>2, <1>5 DEF DataNext, WordLanding
<1> QED BY <1>3, <1>4, <1>5

\* A fill that is under way lands, at the latest on the edge after its last beat.
LEMMA FillLandingStays ==
  ASSUME TypeInv, CacheClock, NEW c \in Port, rw[c].state = "FILL_RDATA"
  PROVE  FillLanding(c, rw[c].loc.set, rw[c].way)'
         /\ rw'[c].loc = rw[c].loc /\ rw'[c].way = rw[c].way
<1>1. rw[c].count \in Nat /\ Words \in Nat
  BY DimensionAssumption DEF TypeInv, TypeOK, CacheTypeOK
<1>2. rw'[c].loc = rw[c].loc /\ rw'[c].way = rw[c].way BY RwEdge
<1>3. CASE c \notin MemRd
  <2>1. rw'[c] = rw[c] BY <1>3, RwEdge
  <2> QED BY <2>1 DEF FillLanding
<1>4. CASE c \in MemRd /\ LastBeat(c)
  <2>1. rw'[c].count = rw[c].count + 1 BY <1>4, RwEdge
  <2>2. rw'[c].count = Words BY <1>1, <1>4, <2>1 DEF LastBeat
  <2> QED BY <1>2, <2>2 DEF FillLanding
<1>5. CASE c \in MemRd /\ ~LastBeat(c)
  <2>1. rw'[c].state = "FILL_RDATA" BY <1>5, RwEdge
  <2> QED BY <1>2, <2>1 DEF FillLanding
<1> QED BY <1>2, <1>3, <1>4, <1>5

LEMMA CurrentKept ==
  ASSUME TypeInv, PortsInv, SnoopReady, DistinctInv, WriterInv,
         CacheClock, SnoopClock, MemoryClock, NEW c \in Port,
         OwnCopy(c), FillData(c), SnoopSees(c), SnoopHitsAll(c),
         rw[c].state \notin Clearing => Current(c),
         rw'[c].state \notin Clearing
  PROVE  Current(c)'
<1> SUFFICES ASSUME NEW s \in Set, NEW w \in Way, NEW t \in Tags, NEW i \in Word,
                    NEW l \in Loc, l = [set |-> s, tag |-> t, word |-> i],
                    Holds(c, s, w, t)'
             PROVE  \/ dataMem'[c][s][w][i] = mem'[l]
                    \/ LineStale(c, l)'
                    \/ FillLanding(c, s, w)'
                    \/ WordLanding(c, s, w, i)'
  <2>1. \A s \in Set, t \in Tags, i \in Word : [set |-> s, tag |-> t, word |-> i] \in Loc
    BY DEF Loc
  <2> QED BY <2>1 DEF Current
<1>1. /\ rw[c] \in [state : RwState, loc : Loc, ok : BOOLEAN, count : 0 .. Words, way : Way]
      /\ rw[c].loc \in Loc /\ mem \in [Loc -> Val] /\ line[c] \in [Word -> Val]
      /\ dataMem[c] \in [Set -> [Way -> [Word -> Val]]]
      /\ bridge.loc \in Loc /\ bridge.port \in Port
  BY DEF TypeInv, TypeOK, CacheTypeOK, BridgeTypeOK
<1>3. rw[c].state \notin Clearing BY ClearedAtEnd
<1>4. Current(c) /\ FillFresh(c) BY <1>3 DEF DistinctInv
<1>5. rw[c].state = "FILL_RDATA" /\ rw[c].loc.set = s /\ rw[c].way = w => FillLanding(c, s, w)'
  BY FillLandingStays
<1>6. CASE /\ tagWr[c].entry.valid /\ s = tagWr[c].set /\ w \in tagWr[c].ways
           /\ t = tagWr[c].entry.tag
  <2>1. CASE rw[c].state = "FILL_RDATA"
    BY <1>4, <1>5, <1>6, <2>1 DEF FillFresh
  <2>2. CASE rw[c].count = Words
    <3>1. /\ bridge.state = "idle" /\ line[c][i] = mem[LineLoc(c, i)]
          /\ s = rw[c].loc.set /\ w = rw[c].way /\ t = rw[c].loc.tag
      BY <1>6, <2>2 DEF FillData
    <3>2. mem' = mem BY <3>1, BridgeEdge
    <3>3. LineLoc(c, i) = l BY <3>1 DEF LineLoc
    <3>4. DataNext(c)[s][w][i] = line[c][i]
      <4>1. DataNext(c)[s][w][i]
              = [dataMem[c] EXCEPT ![s][w] = line[c]][s][w][i]
        <5>1. rw[c].state = "WAIT_REQ" BY <2>2 DEF TypeInv, FillsBounded
        <5> QED BY <2>2, <3>1, <5>1 DEF DataNext
      <4>2. dataMem[c] \in [Set -> [Way -> [Word -> Val]]] BY <1>1
      <4>3. [dataMem[c] EXCEPT ![s][w] = line[c]][s][w] = line[c] BY <4>2
      <4> QED BY <4>1, <4>3
    <3>5. dataMem'[c] = DataNext(c) BY DEF CacheClock
    <3> QED BY <3>1, <3>2, <3>3, <3>4, <3>5
  <2> QED BY <1>6, <2>1, <2>2 DEF FillData

<1>7. CASE /\ Holds(c, s, w, t)
           /\ ~(s = snoopWr[c].set /\ w \in snoopWr[c].ways)
           /\ ~(s = tagWr[c].set /\ w \in tagWr[c].ways)
  <2>1. dataMem'[c][s][w][i] = IF WordLanding(c, s, w, i) THEN line[c][i]
                               ELSE dataMem[c][s][w][i]
    BY <1>7, DataStep
  <2>2. CASE WordLanding(c, s, w, i)
    <3>1. rw[c].state = "WR_ACK" /\ rw[c].loc.set = s /\ rw[c].way = w /\ rw[c].loc.word = i
      BY <2>2 DEF WordLanding
    <3>2. t = rw[c].loc.tag /\ line[c][i] = mem[rw[c].loc]
      BY <1>7, <3>1 DEF OwnCopy, Holds
    <3>3. rw[c].loc = l BY <1>1, <3>1, <3>2 DEF Loc
    <3>4. bridge.state = "W2" BY <3>1 DEF WriterInv, AfterData
    <3>5. mem' = mem BY <3>4, BridgeEdge
    <3> QED BY <2>1, <2>2, <3>2, <3>3, <3>5
  <2>3. CASE ~WordLanding(c, s, w, i) /\ dataMem[c][s][w][i] = mem[l]
    <3>1. CASE mem'[l] = mem[l] BY <2>1, <2>3, <3>1
    <3>2. CASE mem'[l] # mem[l]
      <4>1. /\ bridge.state = "W1" /\ MemWr = {wrOwner} /\ MemB = {}
            /\ mem' = [mem EXCEPT ![bridge.loc] = WriteNumber]
        BY <3>2, BridgeEdge
      <4>2. bridge.loc = l BY <1>1, <3>2, <4>1
      <4>3. PICK p \in Port : p = bridge.port BY <1>1
      <4>4. /\ rw[p].state \in BeforeData /\ wrOwner = p
            /\ gen[p].state = "WAIT_ACK" /\ gen[p].loc = l
        BY <4>1, <4>2, <4>3 DEF WriterInv
      <4>5. CASE p = c
        <5>1. rw[c].state \in {"HIT_WRITEBACK", "UNCACHED_WR_1"}
          BY <4>1, <4>4, <4>5, WriteGoesOn
        <5>2. rw[c].state # "UNCACHED_WR_1" BY <1>7, <4>2 DEF OwnCopy
        <5>3. rw[c].loc = l /\ w = rw[c].way
          BY <1>7, <4>2, <5>1, <5>2 DEF OwnCopy, BeforeData
        <5>4. rw'[c].state = "WR_ACK" /\ rw'[c].loc = rw[c].loc /\ rw'[c].way = rw[c].way
          BY <4>1, <4>4, <4>5, <5>1, <5>2, RwEdge
        <5> QED BY <5>3, <5>4 DEF WordLanding
      <4>6. CASE p # c
        <5>1. p = Other(c) BY <4>6 DEF Port, Other
        <5>2. gen'[p] = gen[p] BY <4>1, <4>4, GenEdge
        <5>3. bridge'.state = "W2"
          <6>1. bridge' = [bridge EXCEPT !.state = "W2"] BY <4>1, BridgeEdge
          <6>2. bridge \in [state : BridgeState, port : Port, loc : Loc, left : Word]
            BY DEF TypeInv, TypeOK, BridgeTypeOK
          <6> QED BY <6>1, <6>2
        <5> QED BY <4>4, <5>1, <5>2, <5>3 DEF LineStale, SameLine
      <4> QED BY <4>5, <4>6
    <3> QED BY <3>1, <3>2
  <2>4. CASE LineStale(c, l)
    BY <1>3, <1>7, <2>4, PendingStays
  <2>5. CASE FillLanding(c, s, w)
    <3>1. rw[c].count # Words BY <1>7, <2>5 DEF FillLanding, FillData
    <3> QED BY <1>5, <2>5, <3>1 DEF FillLanding
  <2> QED BY <1>4, <1>7, <2>2, <2>3, <2>4, <2>5 DEF Current
<1> QED BY <1>6, <1>7, HoldsStep

LEMMA CoherenceInit == Init => CoherenceInv
<1> SUFFICES ASSUME Init PROVE CoherenceInv
  OBVIOUS
<1>1. \A c \in Port : /\ rw[c].state = "INIT_TAG_1" /\ rw[c].count = 0
                      /\ snoop[c].state = "WAIT_REQ" /\ snoopWr[c].ways = {}
                      /\ gen[c].state = "WAIT_REQ" /\ ~tagWr[c].entry.valid
                      /\ cpu[c].state = "idle"
  BY DEF Init, CacheInit, CpuInit, CpuIdle, RwIdle, SnoopIdle, NoWrite
<1>2. bridge.state = "idle" BY DEF Init, BridgeInit, BridgeIdle
<1>3. Words # 0 BY DimensionAssumption
<1>4. WriterInv BY <1>1, <1>2 DEF WriterInv, BeforeData, AfterData
<1>5. ASSUME NEW c \in Port
      PROVE  LinesAskedFor(c) /\ OwnCopy(c) /\ FillData(c) /\ SnoopSees(c) /\ SnoopHitsAll(c)
             /\ rw[c].state \in Clearing
  <2>1. LinesAskedFor(c) BY <1>1 DEF LinesAskedFor, Clearing
  <2>2. OwnCopy(c) BY <1>1 DEF OwnCopy, BeforeData, AfterData
  <2>3. FillData(c) /\ SnoopSees(c) /\ SnoopHitsAll(c)
    BY <1>1, <1>3 DEF FillData, SnoopSees, SnoopHitsAll
  <2> QED BY <1>1, <2>1, <2>2, <2>3 DEF Clearing
<1> QED BY <1>4, <1>5 DEF CoherenceInv

LEMMA CoherenceStep ==
  ASSUME TypeInv, PortsInv, SnoopReady, DistinctInv, CoherenceInv, WritesThroughCache, Clock
  PROVE  CoherenceInv'
<1> USE DEF Clock
<1>1. WriterInv' BY WriterKept DEF CoherenceInv
<1>2. ASSUME NEW c \in Port
      PROVE  /\ LinesAskedFor(c)' /\ OwnCopy(c)' /\ FillData(c)'
             /\ SnoopSees(c)' /\ SnoopHitsAll(c)'
             /\ rw'[c].state \notin Clearing => Current(c)'
  <2>1. /\ WriterInv /\ LinesAskedFor(c) /\ OwnCopy(c) /\ FillData(c)
        /\ SnoopSees(c) /\ SnoopHitsAll(c)
        /\ rw[c].state \notin Clearing => Current(c)
    BY DEF CoherenceInv
  <2>2. FillOwnsBridge(c) /\ SnoopWindow(c) BY DEF PortsInv
  <2>3. LinesAskedFor(c)' BY <2>1, LinesAskedForKept
  <2>4. OwnCopy(c)' BY <1>1, <2>1, <2>3, OwnCopyKept
  <2>5. FillData(c)' BY <2>1, <2>2, FillDataKept
  <2>6. SnoopSees(c)' /\ SnoopHitsAll(c)' BY <2>1, <2>2, SnoopKept
  <2>7. rw'[c].state \notin Clearing => Current(c)' BY <2>1, CurrentKept
  <2> QED BY <2>3, <2>4, <2>5, <2>6, <2>7
<1> QED BY <1>1, <1>2 DEF CoherenceInv

LEMMA CoherenceStutter ==
  ASSUME CoherenceInv, UNCHANGED vars
  PROVE  CoherenceInv'
<1>1. /\ cpu' = cpu /\ bridge' = bridge /\ mem' = mem /\ rw' = rw /\ line' = line
      /\ tagMem' = tagMem /\ dataMem' = dataMem /\ tagRd' = tagRd /\ tagWr' = tagWr
      /\ snoop' = snoop /\ snoopRd' = snoopRd /\ snoopWr' = snoopWr /\ gen' = gen
      /\ wrOwner' = wrOwner
  BY DEF vars
<1>2. WriterInv' BY <1>1 DEF CoherenceInv, WriterInv
<1>3. ASSUME NEW c \in Port
      PROVE  /\ LinesAskedFor(c)' = LinesAskedFor(c) /\ OwnCopy(c)' = OwnCopy(c)
             /\ FillData(c)' = FillData(c) /\ SnoopSees(c)' = SnoopSees(c)
             /\ SnoopHitsAll(c)' = SnoopHitsAll(c) /\ Current(c)' = Current(c)
  <2>1. LinesAskedFor(c)' = LinesAskedFor(c) BY <1>1 DEF LinesAskedFor, Holds
  <2>2. OwnCopy(c)' = OwnCopy(c) BY <1>1 DEF OwnCopy, Holds, HitWays
  <2>3. FillData(c)' = FillData(c) BY <1>1 DEF FillData, LineLoc
  <2>4. SnoopSees(c)' = SnoopSees(c) /\ SnoopHitsAll(c)' = SnoopHitsAll(c)
    BY <1>1 DEF SnoopSees, SnoopHitsAll, Holds
  <2>5. Current(c)' = Current(c)
    BY <1>1 DEF Current, Holds, LineStale, FillLanding, WordLanding
  <2> QED BY <2>1, <2>2, <2>3, <2>4, <2>5
<1> QED BY <1>1, <1>2, <1>3 DEF CoherenceInv

LEMMA CoherenceImplies == TypeInv /\ CoherenceInv => LinesCurrent
<1> SUFFICES ASSUME TypeInv, CoherenceInv, NEW c \in Port, Running(c),
                    NEW s \in Set, NEW w \in Way, NEW i \in Word, tagMem[c][s][w].valid
             PROVE  LET l == [set |-> s, tag |-> tagMem[c][s][w].tag, word |-> i] IN
                    \/ dataMem[c][s][w][i] = mem[l]
                    \/ InvalidationPending(c, l)
                    \/ Landing(c, s, w)
  BY DEF LinesCurrent
<1>1. PICK t \in Tags : t = tagMem[c][s][w].tag
  BY DEF TypeInv, TypeOK, CacheTypeOK, Entry
<1>2. Current(c) BY DEF CoherenceInv, Running, Clearing
<1>3. FillLanding(c, s, w) \/ WordLanding(c, s, w, i) => Landing(c, s, w)
  BY DEF FillLanding, WordLanding, Landing
<1>4. \A l \in Loc : LineStale(c, l) => InvalidationPending(c, l)
  BY DEF LineStale, InvalidationPending
<1>5. [set |-> s, tag |-> t, word |-> i] \in Loc BY DEF Loc
<1> QED BY <1>1, <1>2, <1>3, <1>4, <1>5 DEF Current, Holds

(***************************************************************************)
(* Coherence, for every size of the caches and every set of requests in    *)
(* which a CPU writes the lines it caches through its cache: a word of a   *)
(* valid line equals memory, or the line's invalidation is under way, or   *)
(* its contents are just landing.                                          *)
(***************************************************************************)
THEOREM CachesCoherent == WritesThroughCache => (Spec => []LinesCurrent)
<1> SUFFICES ASSUME WritesThroughCache PROVE Spec => []LinesCurrent
  OBVIOUS
<1> DEFINE IInv == TypeInv /\ PortsInv /\ SnoopReady /\ DistinctInv /\ CoherenceInv
<1>1. Init => IInv
  <2>1. Init => SnoopReady BY DEF Init, CacheInit, SnoopReady, SnoopIdle
  <2> QED BY <2>1, TypeInit, PortsInit, DistinctInit, CoherenceInit
<1>2. IInv /\ [Next]_vars => CoherenceInv'
  BY CoherenceStep, CoherenceStutter DEF Next
<1>3. TypeInv /\ [Next]_vars => TypeInv' BY TypeStep
<1>4. TypeInv /\ PortsInv /\ [Next]_vars => PortsInv' BY <1>3, PortsStep
<1>5. IInv => LinesCurrent BY CoherenceImplies
<1>6. Spec => [](SnoopReady) BY SnoopAlwaysReady
<1>7. Spec => []DistinctInv BY DistinctAlways
<1> QED BY <1>1, <1>2, <1>3, <1>4, <1>5, <1>6, <1>7, PTL DEF Spec
=============================================================================
