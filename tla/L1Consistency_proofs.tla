------------------------ MODULE L1Consistency_proofs ------------------------
(***************************************************************************)
(* Sequential consistency of L1Interconnect, for every size of the caches: *)
(* every read of a CPU returns a value that memory held at a moment not    *)
(* before what this CPU has read or written already.  It rests on the      *)
(* coherence that L1Safety_proofs establishes.                             *)
(***************************************************************************)
EXTENDS L1Safety_proofs

(***************************************************************************)
(* The argument for SequentiallyConsistent.  The log of the writes is one  *)
(* order for both CPUs, and each cache reflects a moment of it: Upto(c) is *)
(* the number of the last write that all of cache c reflects.  It is the   *)
(* latest write, except from the moment the other port's write is in       *)
(* memory until its invalidation is in the tags (Missed).  What CPU c      *)
(* knows never passes Upto(c), but for an edge or two after a write of its *)
(* own beyond the cache (OwnWindow), in which it can read nothing.         *)
(***************************************************************************)

\* Value v of location l is what memory held when write u was the latest.
AsOf(l, v, u) ==
  /\ v # 0 => log[v] = l
  /\ v <= u
  /\ \A i \in 1 .. Len(log) : log[i] = l /\ v < i => u < i

\* A write of the other port is in memory and has not reached the tags of cache c.
Missed(c) ==
  \/ bridge.state = "W2" /\ bridge.port = Other(c)
  \/ snoop[c].state # "WAIT_REQ"
  \/ snoopWr[c].ways # {}

\* The latest write is c's own if c knows it: then it is the one before that is missed.
Upto(c) ==
  IF ~Missed(c) THEN Len(log)
  ELSE IF horizon[c] = Len(log) THEN Len(log) - 2 ELSE Len(log) - 1

MemoryInv ==
  /\ \A l \in Loc : AsOf(l, mem[l], Len(log))
  /\ \A c \in Port : horizon[c] <= Len(log)

\* Where the other parties are while an invalidation is on its way to cache c.
Window(c) ==
  /\ snoop[c].state # "WAIT_REQ" \/ snoopWr[c].ways # {} =>
       (bridge.state \in {"W1", "W2"} => bridge.port = c)
  /\ snoop[c].state = "CHECK_HIT_2" =>
       rw[c].state \notin {"CHECK_WR_HIT_2", "CHECK_WR_HIT_3", "HIT_WRITEBACK", "WR_ACK"}
  /\ snoop[c].state = "CHECK_HIT_3" =>
       rw[c].state \notin {"CHECK_WR_HIT_3", "HIT_WRITEBACK", "WR_ACK"}
  /\ rw[c].count = Words => ~Missed(c)

\* CPU c has written past a write it missed, and cannot read before it is told.
OwnWindow(c) ==
  \/ snoop[c].state = "CHECK_HIT_3" /\ rw[c].state = "UNCACHED_WR_2"
  \/ /\ snoop[c].state = "WAIT_REQ" /\ snoopWr[c].ways # {}
     /\ rw[c].state \in {"UNCACHED_WR_2", "WAIT_REQ"}

KnowsMissed(c) == Missed(c) /\ horizon[c] = Len(log) => OwnWindow(c)

\* The words of cache c are what memory held when write Upto(c) was the latest.
WordsAsOf(c) ==
  \A s \in Set, w \in Way, t \in Tags, i \in Word :
    Holds(c, s, w, t) =>
      \/ AsOf([set |-> s, tag |-> t, word |-> i], dataMem[c][s][w][i], Upto(c))
      \/ FillLanding(c, s, w)
      \/ WordLanding(c, s, w, i)

\* The read that cache c is serving is the one its CPU waits for.
Serving(c) ==
  \/ rw[c].state \in {"CHECK_RD_HIT_1", "CHECK_RD_HIT_2", "CHECK_RD_HIT_3",
                      "HIT_READBACK", "FILL_AR"}
  \/ rw[c].state = "FILL_RDATA" /\ rw[c].count = 0

RequestHeld(c) ==
  /\ Serving(c) => cpu[c].state = "R" /\ rw[c].loc = cpu[c].req.loc
  /\ rw[c].state = "UNCACHED_RD" =>
       /\ cpu[c].state = "R"
       /\ bridge.state \in {"R1", "R2", "R3"} /\ bridge.port = c /\ bridge.loc = cpu[c].req.loc

\* CPU c may read value v of location l.
Readable(c, l, v) ==
  /\ v # 0 => log[v] = l
  /\ v <= Upto(c)
  /\ \A i \in 1 .. Len(log) : log[i] = l /\ v < i => horizon[c] < i

WayReadable(c, w) == Readable(c, rw[c].loc, dataMem[c][rw[c].loc.set][w][rw[c].loc.word])

HitReadable(c) ==
  rw[c].state = "HIT_READBACK" => \A w \in HitWays(c) : WayReadable(c, w)

ConsistencyInv ==
  /\ MemoryInv
  /\ \A c \in Port :
       /\ Window(c) /\ KnowsMissed(c) /\ RequestHeld(c) /\ HitReadable(c)
       /\ rw[c].state \notin Clearing => WordsAsOf(c)

(***************************************************************************)
(* In the edge of the readback the way that hits is compared again, and a  *)
(* snoop may have cleared it since: the word of way 0 is then taken.       *)
(***************************************************************************)
RightWay == \A c \in Port : rw[c].state = "HIT_READBACK" => Hit(c)

\* The program of port p writes the line.
WrittenLine(p, s, t) ==
  \E r \in Requests[p] : r.op = "write" /\ r.loc.set = s /\ r.loc.tag = t

\* A set of cache c in which a line may be invalidated.
SharedSet(c, s) == \E t \in Tags : CachedLine(c, s, t) /\ WrittenLine(Other(c), s, t)

(***************************************************************************)
(* A line that one CPU caches and the other writes has its set of that     *)
(* cache to itself.  The hypothesis is needed when there are several ways: *)
(* L1WrongWay shows a readback of another line's word without it.          *)
(***************************************************************************)
SharedLinesAlone ==
  \/ Ways = 1
  \/ \A c \in Port, s \in Set, t, u \in Tags :
       CachedLine(c, s, t) /\ WrittenLine(Other(c), s, t) /\ CachedLine(c, s, u) => t = u

\* A snoop names a line the other port writes, and invalidates nothing else.
SnoopsWrites(c) ==
  /\ gen[c].state = "WAIT_ACK" => WrittenLine(c, gen[c].loc.set, gen[c].loc.tag)
  /\ snoop[c].state # "WAIT_REQ" =>
       WrittenLine(Other(c), snoop[c].loc.set, snoop[c].loc.tag)
  /\ snoopWr[c].ways # {} =>
       WrittenLine(Other(c), snoopWr[c].set, snoopWr[c].entry.tag)
  /\ \A w \in snoopWr[c].ways :
       tagMem[c][snoopWr[c].set][w].valid =>
         tagMem[c][snoopWr[c].set][w].tag = snoopWr[c].entry.tag

\* The states in which a read of a line waits for its tags and its word.
Looking == {"CHECK_RD_HIT_2", "CHECK_RD_HIT_3", "HIT_READBACK"}

\* A line the other port never writes stays where the lookup found it.
Lookup(c) ==
  LET s == rw[c].loc.set
      t == rw[c].loc.tag
  IN  /\ rw[c].state \in Looking => CachedLine(c, s, t) /\ tagWr[c].ways = {}
      /\ rw[c].state \in {"CHECK_RD_HIT_3", "HIT_READBACK"} /\ ~WrittenLine(Other(c), s, t) =>
           \A w \in HitWays(c) : Holds(c, s, w, t)
      /\ rw[c].state = "HIT_READBACK" /\ ~WrittenLine(Other(c), s, t) => Hit(c)

\* A line that may be invalidated is in the first way.
FirstWay(c) ==
  /\ rw[c].state \notin Clearing =>
       \A s \in Set, w \in Way, t \in Tags : Holds(c, s, w, t) /\ SharedSet(c, s) => w = 0
  /\ SharedSet(c, rw[c].loc.set) =>
       /\ rw[c].state = "FILL_AR" /\ Ways # 1 => \A w \in Way : ~tagRd[c][w].valid
       /\ rw[c].state = "FILL_RDATA" \/ rw[c].count = Words => rw[c].way = 0

\* Its word is readable there from the moment the lookup succeeds.
FirstReadable(c) ==
  SharedSet(c, rw[c].loc.set) =>
    /\ rw[c].state \in {"CHECK_RD_HIT_3", "HIT_READBACK"} => HitWays(c) \subseteq {0}
    /\ rw[c].state = "CHECK_RD_HIT_3" => \A w \in HitWays(c) : WayReadable(c, w)
    /\ rw[c].state = "HIT_READBACK" => WayReadable(c, 0)

\* What a readback returns is readable, whichever way it comes from.
ReadbackOK(c) == rw[c].state = "HIT_READBACK" => WayReadable(c, HitWay(c))

-----------------------------------------------------------------------------
(* Edges of a read.                                                        *)

LEMMA ReadEdge ==
  ASSUME TypeInv, CacheClock, NEW c \in Port
  PROVE  /\ rw'[c].state = "HIT_READBACK" =>
              /\ rw[c].state \in {"CHECK_RD_HIT_3", "HIT_READBACK"} /\ rw'[c].loc = rw[c].loc
              /\ rw[c].state = "CHECK_RD_HIT_3" => Hit(c)
              /\ rw[c].state = "HIT_READBACK" => c \notin CpuRd
         /\ rw'[c].state = "UNCACHED_RD" =>
              \/ rw[c].state = "UNCACHED_RD" /\ c \notin CpuRd
              \/ rw[c].state = "WAIT_REQ" /\ c \in CpuAr /\ ~Req[c].cached
<1>1. PICK rand \in Way :
        rw' = [d \in Port |-> RwNext(d, Req, CpuAr, MemAw, MemWr, MemB, CpuRd, MemAr, MemRd,
                                     Snooped, SnoopAddr, rand)]
  BY IdleOK DEF CacheClock
<1> DEFINE cur == rw[c]
           next == RwNext(c, Req, CpuAr, MemAw, MemWr, MemB, CpuRd, MemAr, MemRd,
                          Snooped, SnoopAddr, rand)
<1>2. rw'[c] = next BY <1>1
<1>3. cur \in [state : RwState, loc : Loc, ok : BOOLEAN, count : 0 .. Words, way : Way]
  BY DEF TypeInv, TypeOK, CacheTypeOK
<1>4. CASE cur.state = "WAIT_REQ" BY <1>4, RwEdge
<1>5. CASE cur.state \in {"CHECK_RD_HIT_1", "CHECK_RD_HIT_2"} BY <1>5, RwEdge
<1>6. CASE cur.state = "CHECK_RD_HIT_3" BY <1>2, <1>3, <1>6 DEF RwNext
<1>7. CASE cur.state \in {"HIT_READBACK", "UNCACHED_RD"}
  <2>1. next = IF c \in CpuRd THEN RwIdle ELSE cur BY <1>7 DEF RwNext
  <2>2. RwIdle.state = "WAIT_REQ" BY DEF RwIdle
  <2> HIDE DEF next
  <2> QED BY <1>2, <1>7, <2>1, <2>2
<1>8. CASE cur.state \in {"FILL_AR", "FILL_RDATA"} BY <1>3, <1>8, RwEdge
<1>9. CASE cur.state \in BeforeData \cup AfterData
  <2>1. rw'[c].state \in BeforeData \cup AfterData \cup {"WAIT_REQ"} BY <1>9, WriteGoesOn
  <2> QED BY <2>1 DEF BeforeData, AfterData
<1>10. CASE cur.state \in Clearing
  <2>1. rw'[c].state \in Clearing \cup {"WAIT_REQ"} BY <1>10, RwCases
  <2> QED BY <2>1 DEF Clearing
<1> QED BY <1>3, <1>4, <1>5, <1>6, <1>7, <1>8, <1>9, <1>10
        DEF RwState, BeforeData, AfterData, Clearing

\* A read is served from its acceptance to its first word, and nothing is returned before.
LEMMA ServingEdge ==
  ASSUME TypeInv, CacheClock, NEW c \in Port, Serving(c)'
  PROVE  \/ Serving(c) /\ c \notin CpuRd /\ rw'[c].loc = rw[c].loc
         \/ c \in CpuAr /\ Req[c].cached /\ rw'[c].loc = Req[c].loc
<1>1. rw[c].state \notin {"HIT_READBACK", "UNCACHED_RD", "FILL_RDATA"} => c \notin CpuRd
  BY DEF CpuRd
<1>2. CASE rw'[c].state = "HIT_READBACK"
  <2>1. rw[c].state = "CHECK_RD_HIT_3" => c \notin CpuRd BY <1>1
  <2> QED BY <1>2, <2>1, ReadEdge DEF Serving
<1>3. CASE rw'[c].state \in Reading
  <2>1. CASE rw[c].state = "FILL_RDATA"
    <3>1. rw'[c].state = "FILL_RDATA" /\ rw'[c].count = 0
      BY <1>3, <2>1, RwEdge DEF Serving, Reading
    <3>2. rw[c].count \in Nat BY DEF TypeInv, TypeOK, CacheTypeOK
    <3>3. c \notin MemRd /\ rw'[c] = rw[c] BY <2>1, <3>1, <3>2, RwEdge
    <3>4. c \notin CpuRd BY <2>1, <3>3 DEF CpuRd
    <3> QED BY <2>1, <3>1, <3>3, <3>4 DEF Serving
  <2>2. CASE rw[c].state \in Reading \ {"FILL_RDATA"}
    <3>1. rw'[c].loc = rw[c].loc
      <4>1. rw[c].state # "WAIT_REQ" BY <2>2 DEF Reading
      <4> QED BY <1>3, <4>1, ReadStarts, WireStates DEF TypeInv
    <3> QED BY <1>1, <2>2, <3>1 DEF Serving, Reading
  <2>3. CASE rw[c].state \notin Reading BY <1>3, <2>3, ReadStarts
  <2> QED BY <2>1, <2>2, <2>3
<1> QED BY <1>2, <1>3 DEF Serving, Reading

LEMMA CpuReadEdge ==
  ASSUME TypeInv, CpuClock, NEW c \in Port
  PROVE  /\ c \in CpuAr => cpu'[c].state = "R" /\ cpu'[c].req = cpu[c].req
         /\ cpu[c].state = "R" /\ c \notin CpuRd => cpu'[c] = cpu[c]
<1>1. PICK ask0 \in Wanted(0), ask1 \in Wanted(1) :
        cpu' = [d \in Port |-> CpuNext(d, IF d = 0 THEN ask0 ELSE ask1,
                                       CpuAr, CpuRd, MemAw, MemWr, MemB)]
  BY DEF CpuClock
<1>2. PICK r \in Wanted(c) : cpu'[c] = CpuNext(c, r, CpuAr, CpuRd, MemAw, MemWr, MemB)
  <2>1. CASE c = 0 BY <1>1, <2>1
  <2>2. CASE c = 1 BY <1>1, <2>2
  <2> QED BY <2>1, <2>2 DEF Port
<1>3. cpu[c] \in [state : CpuState \ {"idle"}, req : Request] \cup {CpuIdle}
  BY DEF TypeInv, TypeOK, CpuTypeOK
<1>4. CASE c \in CpuAr
  <2>1. cpu[c].state = "AR" BY <1>4, WireStates DEF TypeInv, ARVALID
  <2>2. cpu[c] \in [state : CpuState \ {"idle"}, req : Request] BY <1>3, <2>1 DEF CpuIdle
  <2>3. cpu'[c] = [cpu[c] EXCEPT !.state = "R"] BY <1>2, <1>4, <2>1 DEF CpuNext
  <2> QED BY <2>1, <2>2, <2>3
<1>5. CASE cpu[c].state = "R" /\ c \notin CpuRd
  <2>1. cpu'[c] = cpu[c] BY <1>2, <1>5 DEF CpuNext
  <2>2. c \notin CpuAr BY <1>5, WireStates DEF TypeInv, ARVALID
  <2> QED BY <2>1, <2>2
<1> QED BY <1>4, <1>5

-----------------------------------------------------------------------------
(* The log and what the CPUs know of it.                                   *)

LEMMA LogEdge ==
  ASSUME TypeInv, MemoryClock, History
  PROVE  /\ MemWr = {} =>
              log' = log /\ mem' = mem
         /\ MemWr # {} =>
              /\ MemWr = {wrOwner} /\ bridge.state = "W1"
              /\ Len(log') = Len(log) + 1 /\ log'[Len(log) + 1] = bridge.loc
              /\ mem' = [mem EXCEPT ![bridge.loc] = Len(log) + 1]
         /\ \A i \in 1 .. Len(log) : log'[i] = log[i]
<1>1. log \in Seq(Loc) /\ bridge.loc \in Loc BY DEF TypeInv, TypeOK, BridgeTypeOK
<1>2. CASE MemWr = {}
  <2>1. log' = log /\ mem' = mem BY <1>2 DEF History, MemoryClock, MemNext
  <2> QED BY <1>2, <2>1
<1>3. CASE MemWr # {}
  <2>1. MemWr = {wrOwner} /\ bridge.state = "W1" BY <1>3 DEF MemWr, WREADY
  <2>2. mem' = [mem EXCEPT ![bridge.loc] = Len(log) + 1]
    BY <1>3 DEF MemoryClock, MemNext, WriteNumber
  <2>3. log' = Append(log, bridge.loc) BY <1>3 DEF History
  <2>4. /\ Len(log') = Len(log) + 1 /\ log'[Len(log) + 1] = bridge.loc
        /\ \A i \in 1 .. Len(log) : log'[i] = log[i]
    BY <1>1, <2>3
  <2> QED BY <1>3, <2>1, <2>2, <2>4
<1> QED BY <1>2, <1>3

\* A value that was right at an earlier moment stays right of that moment.
LEMMA AsOfStays ==
  ASSUME TypeInv, MemoryClock, History, NEW l, NEW v \in Nat, NEW u \in Int,
         u <= Len(log), AsOf(l, v, u)
  PROVE  AsOf(l, v, u)'
<1>1. Len(log) \in Nat BY DEF TypeInv, TypeOK
<1>2. v # 0 => v \in 1 .. Len(log) BY <1>1 DEF AsOf
<1>3. Len(log') = Len(log) \/ Len(log') = Len(log) + 1 BY LogEdge
<1>4. ASSUME NEW i \in 1 .. Len(log'), log'[i] = l, v < i
      PROVE  u < i
  <2>1. CASE i \in 1 .. Len(log) BY <1>4, <2>1, LogEdge DEF AsOf
  <2>2. CASE i \notin 1 .. Len(log) BY <1>1, <1>3, <2>2
  <2> QED BY <2>1, <2>2
<1>5. v # 0 => log'[v] = l BY <1>2, LogEdge DEF AsOf
<1> QED BY <1>4, <1>5 DEF AsOf

LEMMA ConsistencyTypes ==
  ASSUME TypeInv, NEW c \in Port
  PROVE  /\ Len(log) \in Nat /\ horizon[c] \in Nat /\ Upto(c) \in Int
         /\ Upto(c) <= Len(log)
         /\ ReadData(c) \in Nat
         /\ \A l \in Loc : mem[l] \in Nat
         /\ \A s \in Set, w \in Way, i \in Word : dataMem[c][s][w][i] \in Nat
         /\ rw[c].loc \in Loc /\ rw[c].loc.set \in Set /\ rw[c].loc.word \in Word
         /\ rw[c].loc.tag \in Tags /\ bridge.loc \in Loc
<1>1. /\ Len(log) \in Nat /\ horizon[c] \in Val /\ mem \in [Loc -> Val]
      /\ dataMem[c] \in [Set -> [Way -> [Word -> Val]]]
      /\ rw[c].loc \in Loc /\ bridge.loc \in Loc
  BY DEF TypeInv, TypeOK, BridgeTypeOK, CacheTypeOK
<1>2. Val \subseteq Nat BY DEF Val
<1>3. ReadData(c) \in Val BY DataOK DEF TypeInv
<1>4. Upto(c) \in Int /\ Upto(c) <= Len(log) BY <1>1 DEF Upto
<1>5. \A s \in Set, w \in Way, i \in Word : dataMem[c][s][w][i] \in Val BY <1>1
<1>6. rw[c].loc.set \in Set /\ rw[c].loc.word \in Word /\ rw[c].loc.tag \in Tags
  BY <1>1 DEF Loc
<1> QED BY <1>1, <1>2, <1>3, <1>4, <1>5, <1>6

\* What a CPU knows after an edge.
LEMMA HorizonEdge ==
  ASSUME TypeInv, History, NEW c \in Port
  PROVE  /\ c \in MemWr => c \notin CpuRd /\ horizon'[c] = Len(log) + 1
         /\ c \in CpuRd =>
              horizon'[c] = IF horizon[c] >= ReadData(c) THEN horizon[c] ELSE ReadData(c)
         /\ c \notin MemWr /\ c \notin CpuRd => horizon'[c] = horizon[c]
<1>1. c \in MemWr => WVALID(c) BY WireStates DEF TypeInv, MemWVALID
<1>2. c \in CpuRd => RREADY(c) BY WireStates DEF TypeInv
<1>3. c \in MemWr => c \notin CpuRd BY <1>1, <1>2 DEF WVALID, RREADY
<1> QED BY <1>3 DEF History, WriteNumber, AtLeast

\* A read returns a word of the cache, or what memory holds.
LEMMA ReadFrom ==
  ASSUME TypeInv, NEW c \in Port, c \in CpuRd
  PROVE  \/ rw[c].state = "HIT_READBACK" /\ ReadData(c) = HitData(c)
         \/ /\ c \in MemRd /\ ReadData(c) = mem[bridge.loc]
            /\ rw[c].state = "UNCACHED_RD" \/ (rw[c].state = "FILL_RDATA" /\ rw[c].count = 0)
BY DEF CpuRd, ReadData, RDATA

LEMMA ReadbackValue ==
  ASSUME NEW c \in Port, rw[c].state = "HIT_READBACK", ReadbackOK(c)
  PROVE  Readable(c, rw[c].loc, ReadData(c))
<1>1. ReadData(c) = HitData(c) BY DEF ReadData
<1>2. WayReadable(c, HitWay(c)) BY DEF ReadbackOK
<1> QED BY <1>1, <1>2 DEF WayReadable, HitData

\* What a CPU knows never passes the log.
LEMMA MemoryKept ==
  ASSUME TypeInv, MemoryClock, History, MemoryInv, \A c \in Port : ReadbackOK(c)
  PROVE  MemoryInv'
<1>1. \A c \in Port : horizon[c] <= Len(log) BY DEF MemoryInv
<1>2. Len(log) \in Nat BY DEF TypeInv, TypeOK
<1>3. ASSUME NEW l \in Loc PROVE AsOf(l, mem[l], Len(log))'
  <2>1. AsOf(l, mem[l], Len(log)) BY DEF MemoryInv
  <2>2. mem \in [Loc -> Val] /\ mem[l] \in Nat BY DEF TypeInv, TypeOK, BridgeTypeOK, Val
  <2>3. CASE MemWr = {}
    <3>1. log' = log /\ mem' = mem BY <2>3, LogEdge
    <3> QED BY <2>1, <3>1 DEF AsOf
  <2>4. CASE MemWr # {}
    <3>1. /\ Len(log') = Len(log) + 1 /\ log'[Len(log) + 1] = bridge.loc
          /\ mem' = [mem EXCEPT ![bridge.loc] = Len(log) + 1]
      BY <2>4, LogEdge
    <3>2. CASE l = bridge.loc
      <4>1. mem'[l] = Len(log) + 1 BY <2>2, <3>1, <3>2
      <4> QED BY <1>2, <3>1, <3>2, <4>1 DEF AsOf
    <3>3. CASE l # bridge.loc
      <4>1. mem'[l] = mem[l] BY <2>2, <3>1, <3>3
      <4>2. PICK u \in Nat, v \in Nat : u = Len(log) /\ v = mem[l] BY <1>2, <2>2
      <4>3. AsOf(l, v, u)' BY <1>2, <2>1, <4>2, AsOfStays
      <4>4. ASSUME NEW i \in 1 .. Len(log'), log'[i] = l, v < i PROVE Len(log') < i
        <5>1. u < i BY <4>3, <4>4 DEF AsOf
        <5>2. i = Len(log) + 1 BY <1>2, <3>1, <4>2, <5>1
        <5> QED BY <3>1, <3>3, <4>4, <5>2
      <4> QED BY <1>2, <3>1, <4>1, <4>2, <4>3, <4>4 DEF AsOf
    <3> QED BY <3>2, <3>3
  <2> QED BY <2>3, <2>4
<1>4. ASSUME NEW c \in Port PROVE horizon'[c] <= Len(log')
  <2>1. Len(log) <= Len(log') /\ (MemWr # {} => Len(log') = Len(log) + 1) BY <1>2, LogEdge
  <2>2. /\ horizon[c] \in Nat /\ Upto(c) \in Int /\ Upto(c) <= Len(log)
        /\ ReadData(c) \in Nat /\ bridge.loc \in Loc
    BY ConsistencyTypes
  <2>3. CASE c \in CpuRd
    <3>1. ReadData(c) <= Len(log)
      <4>1. CASE rw[c].state = "HIT_READBACK"
        <5>1. Readable(c, rw[c].loc, ReadData(c)) BY <4>1, ReadbackValue
        <5> QED BY <1>2, <2>2, <5>1 DEF Readable
      <4>2. CASE ReadData(c) = mem[bridge.loc] BY <2>2, <4>2 DEF MemoryInv, AsOf
      <4> QED BY <2>3, <4>1, <4>2, ReadFrom
    <3> QED BY <1>1, <1>2, <2>1, <2>2, <2>3, <3>1, HorizonEdge
  <2>4. CASE c \in MemWr BY <1>2, <2>1, <2>4, HorizonEdge
  <2>5. CASE c \notin MemWr /\ c \notin CpuRd BY <1>1, <1>2, <2>1, <2>2, <2>5, HorizonEdge
  <2> QED BY <2>3, <2>4, <2>5
<1> QED BY <1>3, <1>4 DEF MemoryInv

-----------------------------------------------------------------------------
(* The window in which a write is missed.                                  *)

\* Who may take the bridge, or write, while an invalidation is on its way.
LEMMA WindowFacts ==
  ASSUME TypeInv, PortsInv, WriterInv, NEW c \in Port, Window(c)
  PROVE  /\ snoop[c].state # "WAIT_REQ" => Other(c) \notin MemAw
         /\ snoop[c].state # "WAIT_REQ" \/ snoopWr[c].ways # {} => Other(c) \notin MemWr \cup MemB
         /\ Missed(c) => Other(c) \notin MemWr
         /\ c \in MemWr => bridge.state = "W1" /\ bridge.port = c
                           /\ rw[c].state \in {"HIT_WRITEBACK", "UNCACHED_WR_1"}
         /\ c \in MemRd => snoop[c].state = "WAIT_REQ" /\ bridge.state = "R3"
<1>1. Other(c) \in Port /\ Other(Other(c)) = c /\ Other(c) # c BY PortFacts
<1>2. Other(c) \in MemAw => ~SnoopStall(c) BY <1>1, WireStates DEF TypeInv, MemAWVALID
<1>3. \A p \in Port : p \in MemWr =>
        /\ bridge.state = "W1" /\ bridge.port = p
        /\ rw[p].state \in {"HIT_WRITEBACK", "UNCACHED_WR_1"}
  <2> SUFFICES ASSUME NEW p \in Port, p \in MemWr
               PROVE  /\ bridge.state = "W1" /\ bridge.port = p
                      /\ rw[p].state \in {"HIT_WRITEBACK", "UNCACHED_WR_1"}
    OBVIOUS
  <2>1. bridge.state = "W1" /\ p = wrOwner /\ MemWVALID(p) BY WireStates DEF TypeInv
  <2>2. bridge.port \in Port BY DEF TypeInv, TypeOK, BridgeTypeOK
  <2>3. rw[bridge.port].state \in BeforeData /\ wrOwner = bridge.port
    BY <2>1, <2>2 DEF WriterInv
  <2> QED BY <2>1, <2>3 DEF MemWVALID, BeforeData
<1>4. Other(c) \in MemB => bridge.state = "W2" /\ bridge.port = Other(c)
  BY <1>1, WireStates DEF TypeInv
<1>5. c \in MemRd => bridge.state = "R3" BY WireStates DEF TypeInv
<1>6. bridge.state = "R3" => snoop[c].state = "WAIT_REQ"
  <2>1. snoop[c].state \in SnoopState BY DEF TypeInv, TypeOK, CacheTypeOK
  <2> QED BY <2>1 DEF PortsInv, SnoopWindow, SnoopState
<1> QED BY <1>1, <1>2, <1>3, <1>4, <1>5, <1>6 DEF SnoopStall, Window, Missed

\* The bridge waits for a response to be taken from the beat of the write's data on.
LEMMA DataWritten ==
  ASSUME TypeInv, WriterInv, MemoryClock, bridge'.state = "W2"
  PROVE  \/ bridge.state = "W2" /\ bridge' = bridge
         \/ bridge.state = "W1" /\ MemWr = {wrOwner} /\ wrOwner = bridge.port
            /\ bridge'.port = bridge.port
<1>1. bridge \in [state : BridgeState, port : Port, loc : Loc, left : Word]
  BY DEF TypeInv, TypeOK, BridgeTypeOK
<1>2. BridgeIdle.state = "idle" BY DEF BridgeIdle
<1>3. CASE bridge.state = "idle" BY <1>3, BridgeEdge
<1>4. CASE bridge.state \in {"R1", "R2", "R4"} BY <1>1, <1>4, BridgeEdge
<1>5. CASE bridge.state = "R3"
  <2>1. \/ bridge' = bridge \/ bridge' = BridgeIdle
        \/ bridge' = [bridge EXCEPT !.state = "R4", !.loc = NextWord(@), !.left = @ - 1]
    BY <1>5, BridgeEdge
  <2> QED BY <1>1, <1>2, <1>5, <2>1
<1>6. CASE bridge.state = "W1"
  <2>1. wrOwner = bridge.port BY <1>1, <1>6 DEF WriterInv
  <2> QED BY <1>1, <1>6, <2>1, BridgeEdge
<1>7. CASE bridge.state = "W2" BY <1>2, <1>7, BridgeEdge
<1> QED BY <1>1, <1>3, <1>4, <1>5, <1>6, <1>7 DEF BridgeState

(***************************************************************************)
(* A write comes to be missed when its data reaches memory, and nothing is *)
(* written meanwhile but what the CPU behind the cache writes itself.      *)
(***************************************************************************)
LEMMA MissedEdge ==
  ASSUME TypeInv, PortsInv, WriterInv, SnoopClock, MemoryClock, NEW c \in Port,
         Window(c), Missed(c)'
  PROVE  /\ c \notin MemRd
         /\ \/ ~Missed(c) /\ MemWr = {Other(c)}
            \/ Missed(c) /\ MemWr = {}
            \/ /\ Missed(c) /\ MemWr = {c}
               /\ snoop[c].state \in {"CHECK_HIT_2", "CHECK_HIT_3"}
               /\ ~(bridge'.state = "W2" /\ bridge'.port = Other(c))
<1>1. Other(c) \in Port /\ Other(Other(c)) = c /\ Other(c) # c BY PortFacts
<1>2. /\ bridge \in [state : BridgeState, port : Port, loc : Loc, left : Word]
      /\ snoop[c].state \in SnoopState /\ snoop'[c].state \in SnoopState
  <2>1. snoop[c] \in [state : SnoopState, loc : Loc] /\ SnoopAddr[c] \in Loc
    BY ReqOK DEF TypeInv, TypeOK, CacheTypeOK
  <2>2. snoop'[c].state \in SnoopState
    BY <2>1 DEF SnoopClock, SnoopNext, SnoopState, SnoopIdle
  <2> QED BY <2>1, <2>2 DEF TypeInv, TypeOK, BridgeTypeOK
<1>3. bridge'.state = "W2" =>
        \/ bridge.state = "W2" /\ bridge' = bridge
        \/ bridge.state = "W1" /\ MemWr = {wrOwner} /\ wrOwner = bridge.port
           /\ bridge'.port = bridge.port
  BY DataWritten
<1>4. snoop'[c].state # "WAIT_REQ" =>
        \/ snoop[c].state = "WAIT_REQ" /\ Other(c) \in MemB
        \/ snoop[c].state \in {"CHECK_HIT_1", "CHECK_HIT_2"}
  BY <1>2, SnoopEdge DEF SnoopState
<1>5. snoopWr'[c].ways # {} => snoop[c].state = "CHECK_HIT_3" BY SnoopEdge
<1>6. MemWr = {} \/ (MemWr = {wrOwner} /\ wrOwner \in Port /\ bridge.state = "W1")
  BY BridgeEdge DEF TypeInv, TypeOK
<1>7. Other(c) \in MemB => bridge.state = "W2" /\ bridge.port = Other(c)
  BY <1>1, WireStates DEF TypeInv
<1>8. c \notin MemRd
  BY <1>3, <1>4, <1>5, <1>7, WindowFacts DEF Missed
<1>9. CASE MemWr = {}
  <2>1. Missed(c) BY <1>3, <1>4, <1>5, <1>7, <1>9 DEF Missed
  <2> QED BY <1>8, <1>9, <2>1
<1>10. CASE MemWr = {Other(c)}
  <2>1. ~Missed(c) BY <1>10, WindowFacts
  <2> QED BY <1>8, <1>10, <2>1
<1>11. CASE MemWr = {c}
  <2>1. bridge.state = "W1" /\ bridge.port = c BY <1>11, WindowFacts
  <2>2. ~(bridge'.state = "W2" /\ bridge'.port = Other(c)) BY <1>1, <1>3, <2>1
  <2>3. snoop[c].state # "WAIT_REQ" BY <1>4, <1>5, <1>7, <2>1, <2>2 DEF Missed
  <2>4. snoop[c].state # "CHECK_HIT_1" BY <2>1 DEF PortsInv, SnoopWindow
  <2> QED BY <1>2, <1>8, <1>11, <2>2, <2>3, <2>4 DEF Missed, SnoopState
<1>12. MemWr \in {{}, {c}, {Other(c)}}
  BY <1>6 DEF Port, Other
<1> QED BY <1>9, <1>10, <1>11, <1>12

LEMMA WindowKept ==
  ASSUME TypeInv, PortsInv, WriterInv, CacheClock, SnoopClock, MemoryClock,
         NEW c \in Port, Window(c)
  PROVE  Window(c)'
<1>1. Other(c) \in Port /\ Other(c) # c BY PortFacts
<1>2. /\ bridge \in [state : BridgeState, port : Port, loc : Loc, left : Word]
      /\ snoop[c].state \in SnoopState /\ rw[c].state \in RwState
  BY DEF TypeInv, TypeOK, BridgeTypeOK, CacheTypeOK
<1>3. ASSUME snoop'[c].state # "WAIT_REQ" \/ snoopWr'[c].ways # {},
             bridge'.state \in {"W1", "W2"}
      PROVE  bridge'.port = c
  <2>1. BridgeIdle.state = "idle" BY DEF BridgeIdle
  <2>2. snoop[c].state # "WAIT_REQ"
    <3>1. CASE snoop[c].state = "WAIT_REQ" /\ Other(c) \in MemB
      <4>1. bridge.state = "W2" /\ MemB # {} BY <3>1, <1>1, WireStates DEF TypeInv
      <4> QED BY <1>3, <2>1, <4>1, BridgeEdge
    <3>2. CASE snoop[c].state = "WAIT_REQ" /\ Other(c) \notin MemB
      <4>1. snoop'[c] = snoop[c] BY <3>2 DEF SnoopClock, SnoopNext, Snooped
      <4> QED BY <1>3, <3>2, <4>1, SnoopEdge
    <3> QED BY <3>1, <3>2
  <2>3. Other(c) \notin MemAw /\ (bridge.state \in {"W1", "W2"} => bridge.port = c)
    BY <2>2, WindowFacts DEF Window
  <2>4. CASE bridge.state = "idle"
    <3>1. MemAw = {AwOwner} /\ bridge'.port = AwOwner BY <1>2, <1>3, <2>4, BridgeEdge
    <3> QED BY <2>3, <3>1, OwnersOK DEF Port, Other
  <2>5. CASE bridge.state \in {"R1", "R2", "R4"} BY <1>2, <1>3, <2>5, BridgeEdge
  <2>6. CASE bridge.state = "R3"
    <3>1. \/ bridge' = bridge \/ bridge' = BridgeIdle
          \/ bridge' = [bridge EXCEPT !.state = "R4", !.loc = NextWord(@), !.left = @ - 1]
      BY <2>6, BridgeEdge
    <3> QED BY <1>2, <1>3, <2>1, <2>6, <3>1
  <2>7. CASE bridge.state = "W1"
    <3>1. bridge' \in {bridge, [bridge EXCEPT !.state = "W2"]} BY <2>7, BridgeEdge
    <3> QED BY <1>2, <2>3, <2>7, <3>1
  <2>8. CASE bridge.state = "W2" BY <1>3, <2>1, <2>3, <2>8, BridgeEdge
  <2> QED BY <1>2, <2>4, <2>5, <2>6, <2>7, <2>8 DEF BridgeState
<1>4. rw[c].state \notin BeforeData \cup AfterData =>
        rw'[c].state \notin {"CHECK_WR_HIT_2", "CHECK_WR_HIT_3", "HIT_WRITEBACK", "WR_ACK"}
  BY WriteStarts DEF BeforeData, AfterData
<1>5. snoop'[c].state = "CHECK_HIT_2" =>
        rw'[c].state \notin {"CHECK_WR_HIT_2", "CHECK_WR_HIT_3", "HIT_WRITEBACK", "WR_ACK"}
  <2>1. snoop'[c].state = "CHECK_HIT_2" => bridge.state = "idle"
    BY SnoopEdge DEF PortsInv, SnoopWindow
  <2>2. bridge.state = "idle" => rw[c].state \notin BeforeData \cup AfterData BY DEF WriterInv
  <2> QED BY <1>4, <2>1, <2>2
<1>6. snoop'[c].state = "CHECK_HIT_3" =>
        rw'[c].state \notin {"CHECK_WR_HIT_3", "HIT_WRITEBACK", "WR_ACK"}
  <2> SUFFICES ASSUME snoop'[c].state = "CHECK_HIT_3"
               PROVE  rw'[c].state \notin {"CHECK_WR_HIT_3", "HIT_WRITEBACK", "WR_ACK"}
    OBVIOUS
  <2>1. rw[c].state \notin {"CHECK_WR_HIT_2", "CHECK_WR_HIT_3", "HIT_WRITEBACK", "WR_ACK"}
    BY SnoopEdge DEF Window
  <2>2. CASE rw[c].state \notin BeforeData \cup AfterData BY <1>4, <2>2
  <2>3. CASE rw[c].state \in {"CHECK_WR_HIT_1", "UNCACHED_WR_1"} BY <2>3, RwEdge
  <2>4. CASE rw[c].state = "UNCACHED_WR_2"
    <3>1. rw'[c].state \in {"WAIT_REQ", "UNCACHED_WR_2"} BY <2>4, RwEdge
    <3> QED BY <3>1
  <2> QED BY <2>1, <2>2, <2>3, <2>4 DEF BeforeData, AfterData
<1>7. rw'[c].count = Words => ~Missed(c)' BY LastBeatEnds, MissedEdge
<1> QED BY <1>3, <1>5, <1>6, <1>7 DEF Window

(***************************************************************************)
(* The moment that a cache reflects stays where it is while a write is     *)
(* missed, and is the latest write otherwise: it never goes back.          *)
(***************************************************************************)
LEMMA UptoEdge ==
  ASSUME TypeInv, PortsInv, WriterInv, MemoryInv, CacheClock, SnoopClock, MemoryClock, History,
         NEW c \in Port, Window(c), KnowsMissed(c), ReadbackOK(c)
  PROVE  /\ Missed(c)' => Upto(c)' = Upto(c)
         /\ ~Missed(c)' => Upto(c)' = Len(log')
         /\ Upto(c) <= Upto(c)'
         /\ KnowsMissed(c)'
<1>1. /\ Len(log) \in Nat /\ horizon[c] \in Nat /\ Upto(c) \in Int /\ Upto(c) <= Len(log)
      /\ ReadData(c) \in Nat
  BY ConsistencyTypes
<1>2. Other(c) # c /\ horizon[c] <= Len(log) BY PortFacts DEF MemoryInv
<1>3. MemWr # {} => Len(log') = Len(log) + 1 BY LogEdge
<1>4. MemWr = {} => Len(log') = Len(log) BY LogEdge
<1>5. ~Missed(c)' => Upto(c)' = Len(log') /\ KnowsMissed(c)' BY DEF Upto, KnowsMissed
<1>6. ASSUME Missed(c)' PROVE Upto(c)' = Upto(c) /\ KnowsMissed(c)'
  <2>1. c \in CpuRd => ReadData(c) <= Upto(c)
    <3>1. c \in CpuRd => rw[c].state = "HIT_READBACK" BY <1>6, MissedEdge, ReadFrom
    <3> QED BY <3>1, ReadbackValue DEF Readable
  <2>2. CASE ~Missed(c) /\ MemWr = {Other(c)}
    <3>1. Upto(c) = Len(log) BY <2>2 DEF Upto
    <3>2. horizon'[c] <= Len(log) BY <1>1, <1>2, <2>1, <2>2, HorizonEdge
    <3>3. horizon'[c] # Len(log') /\ Len(log') = Len(log) + 1 
      <4>1. horizon'[c] \in {horizon[c], ReadData(c)} BY <1>2, <2>2, HorizonEdge
      <4> QED BY <1>1, <1>3, <2>2, <3>2, <4>1
    <3> QED BY <1>1, <1>6, <3>1, <3>3 DEF Upto, KnowsMissed
  <2>3. CASE Missed(c) /\ MemWr = {} /\ horizon[c] = Len(log)
    <3>1. Upto(c) = Len(log) - 2 BY <2>3 DEF Upto
    <3>2. horizon'[c] = Len(log)
      <4>1. c \in CpuRd => horizon[c] >= ReadData(c) BY <1>1, <2>1, <2>3, <3>1
      <4> QED BY <2>3, <4>1, HorizonEdge
    <3>3. Upto(c)' = Len(log) - 2 BY <1>4, <1>6, <2>3, <3>2 DEF Upto
    <3>4. OwnWindow(c) BY <2>3 DEF KnowsMissed
    <3>5. OwnWindow(c)'
      <4>1. ~(bridge'.state = "W2" /\ bridge'.port = Other(c))
        <5>1. bridge.state \in {"W1", "W2"} => bridge.port = c
          BY <3>4 DEF OwnWindow, Window
        <5>2. bridge.state = "W1" => bridge' = bridge BY <2>3, BridgeEdge
        <5> QED BY <1>2, <5>1, <5>2, DataWritten
      <4>2. Other(c) \notin MemB BY <3>4, WindowFacts DEF OwnWindow
      <4>3. snoop'[c].state = "WAIT_REQ"
        <5>1. snoop'[c] = SnoopNext(c, Snooped, SnoopAddr) /\ c \notin Snooped
          BY <4>2 DEF SnoopClock, Snooped
        <5> QED BY <3>4, <5>1 DEF OwnWindow, SnoopNext, SnoopIdle
      <4>4. snoopWr'[c].ways # {} BY <1>6, <4>1, <4>3 DEF Missed
      <4>5. rw[c].state = "UNCACHED_WR_2" BY <3>4, <4>4, SnoopEdge DEF OwnWindow
      <4>6. rw'[c].state \in {"UNCACHED_WR_2", "WAIT_REQ"} BY <4>5, RwEdge
      <4> QED BY <4>3, <4>4, <4>6 DEF OwnWindow
    <3> QED BY <3>1, <3>3, <3>5 DEF KnowsMissed
  <2>4. CASE Missed(c) /\ MemWr = {} /\ horizon[c] # Len(log)
    <3>1. Upto(c) = Len(log) - 1 BY <2>4 DEF Upto
    <3>2. horizon'[c] # Len(log) BY <1>1, <1>2, <2>1, <2>4, <3>1, HorizonEdge
    <3> QED BY <1>4, <1>6, <2>4, <3>1, <3>2 DEF Upto, KnowsMissed
  <2>5. CASE /\ Missed(c) /\ MemWr = {c}
             /\ snoop[c].state \in {"CHECK_HIT_2", "CHECK_HIT_3"}
             /\ ~(bridge'.state = "W2" /\ bridge'.port = Other(c))
    <3>1. rw[c].state = "UNCACHED_WR_1"
      BY <2>5, WindowFacts DEF Window
    <3>2. horizon[c] # Len(log) BY <2>5, <3>1 DEF KnowsMissed, OwnWindow
    <3>3. Upto(c) = Len(log) - 1 BY <2>5, <3>2 DEF Upto
    <3>4. horizon'[c] = Len(log') BY <1>3, <2>5, HorizonEdge
    <3>5. Upto(c)' = Len(log) - 1 BY <1>1, <1>3, <1>6, <2>5, <3>4 DEF Upto
    <3>6. rw'[c].state = "UNCACHED_WR_2" BY <2>5, <3>1, RwEdge
    <3>7. OwnWindow(c)'
      <4>1. CASE snoop[c].state = "CHECK_HIT_2"
        <5>1. snoop'[c].state = "CHECK_HIT_3" BY <4>1 DEF SnoopClock, SnoopNext, TypeInv, TypeOK, CacheTypeOK
        <5> QED BY <3>6, <5>1 DEF OwnWindow
      <4>2. CASE snoop[c].state = "CHECK_HIT_3"
        <5>1. snoop'[c].state = "WAIT_REQ" BY <4>2 DEF SnoopClock, SnoopNext, SnoopIdle
        <5> QED BY <1>6, <2>5, <3>6, <5>1 DEF OwnWindow, Missed
      <4> QED BY <2>5, <4>1, <4>2
    <3> QED BY <3>3, <3>5, <3>7 DEF KnowsMissed
  <2> QED BY <1>6, <2>2, <2>3, <2>4, <2>5, MissedEdge
<1> QED BY <1>1, <1>3, <1>4, <1>5, <1>6

-----------------------------------------------------------------------------
(* What the cache serves is what its CPU asked for.                        *)

\* A CPU that cannot have missed a write it knows has its knowledge behind the cache's.
LEMMA HorizonKnown ==
  ASSUME TypeInv, MemoryInv, NEW c \in Port, KnowsMissed(c), ~OwnWindow(c)
  PROVE  horizon[c] <= Upto(c)
<1>1. Len(log) \in Nat /\ horizon[c] \in Nat BY ConsistencyTypes
<1>2. horizon[c] <= Len(log) BY DEF MemoryInv
<1> QED BY <1>1, <1>2 DEF Upto, KnowsMissed

LEMMA RequestHeldKept ==
  ASSUME TypeInv, CacheClock, CpuClock, MemoryClock, NEW c \in Port, RequestHeld(c)
  PROVE  RequestHeld(c)'
<1>1. c \in CpuAr => Req[c] = cpu[c].req /\ ARVALID(c) /\ rw[c].state = "WAIT_REQ"
  BY ReqOK, WireStates DEF TypeInv
<1>2. Serving(c)' => cpu'[c].state = "R" /\ rw'[c].loc = cpu'[c].req.loc
  BY <1>1, ServingEdge, CpuReadEdge DEF RequestHeld
<1>3. ASSUME rw'[c].state = "UNCACHED_RD"
      PROVE  /\ cpu'[c].state = "R"
             /\ bridge'.state \in {"R1", "R2", "R3"} /\ bridge'.port = c
             /\ bridge'.loc = cpu'[c].req.loc
  <2>1. bridge \in [state : BridgeState, port : Port, loc : Loc, left : Word]
    BY DEF TypeInv, TypeOK, BridgeTypeOK
  <2>2. CASE rw[c].state = "WAIT_REQ" /\ c \in CpuAr /\ ~Req[c].cached
    <3>1. c \in MemAr BY <2>2 DEF CpuAr
    <3>2. bridge.state = "idle" BY <3>1, WireStates DEF TypeInv
    <3>3. MemAr = {ArOwner} BY <3>1, <3>2, BridgeEdge
    <3>4. ArOwner = c BY <3>1, <3>3
    <3>5. bridge' = [state |-> "R1", port |-> c, loc |-> MemAddr[c], left |-> MemLen[c]]
      BY <3>1, <3>2, <3>4, BridgeEdge
    <3>6. MemAddr[c] = cpu[c].req.loc BY <1>1, <2>2 DEF MemAddr
    <3> QED BY <2>2, <3>5, <3>6, CpuReadEdge
  <2>3. CASE rw[c].state = "UNCACHED_RD" /\ c \notin CpuRd
    <3>1. /\ cpu[c].state = "R" /\ bridge.state \in {"R1", "R2", "R3"} /\ bridge.port = c
          /\ bridge.loc = cpu[c].req.loc
      BY <2>3 DEF RequestHeld
    <3>2. cpu'[c] = cpu[c] BY <2>3, <3>1, CpuReadEdge
    <3>3. c \notin MemRd BY <2>3, <3>1 DEF CpuRd, RREADY
    <3>4. CASE bridge.state = "R1" BY <2>1, <3>1, <3>2, <3>4, BridgeEdge
    <3>5. CASE bridge.state = "R2" BY <2>1, <3>1, <3>2, <3>5, BridgeEdge
    <3>6. CASE bridge.state = "R3"
      <4>1. MemRd = {} BY <3>1, <3>3, <3>6, BridgeEdge
      <4>2. bridge' = bridge BY <3>6, <4>1, BridgeEdge
      <4> QED BY <3>1, <3>2, <4>2
    <3> QED BY <3>1, <3>4, <3>5, <3>6
  <2> QED BY <1>3, <2>2, <2>3, ReadEdge
<1> QED BY <1>2, <1>3 DEF RequestHeld

\* A read returns a value that its CPU may see.
LEMMA ReadAllowed ==
  ASSUME TypeInv, PortsInv, MemoryInv, NEW c \in CpuRd, RequestHeld(c), ReadbackOK(c)
  PROVE  LET v == ReadData(c)
             l == Req[c].loc
         IN  /\ v # 0 => log[v] = l
             /\ \A i \in 1 .. Len(log) : log[i] = l /\ v < i => horizon[c] < i
<1>1. c \in Port BY DEF CpuRd
<1>2. Req[c] = cpu[c].req BY <1>1 DEF Req
<1>3. CASE rw[c].state = "HIT_READBACK"
  <2>1. rw[c].loc = Req[c].loc BY <1>2, <1>3 DEF RequestHeld, Serving
  <2>2. Readable(c, Req[c].loc, ReadData(c)) BY <1>1, <1>3, <2>1, ReadbackValue
  <2> QED BY <2>2 DEF Readable
<1>4. CASE /\ c \in MemRd /\ ReadData(c) = mem[bridge.loc]
           /\ rw[c].state = "UNCACHED_RD" \/ (rw[c].state = "FILL_RDATA" /\ rw[c].count = 0)
  <2>1. bridge.loc \in Loc /\ rw[c].loc \in Loc /\ Len(log) \in Nat /\ mem[bridge.loc] \in Nat
    BY <1>1, ConsistencyTypes
  <2>2. bridge.loc = Req[c].loc
    <3>1. CASE rw[c].state = "UNCACHED_RD" BY <1>2, <3>1 DEF RequestHeld
    <3>2. CASE rw[c].state = "FILL_RDATA" /\ rw[c].count = 0
      <4>1. rw[c].loc = Req[c].loc BY <1>2, <3>2 DEF RequestHeld, Serving
      <4>2. /\ bridge.loc.set = rw[c].loc.set /\ bridge.loc.tag = rw[c].loc.tag
            /\ Offset(rw[c].loc.word, bridge.loc.word) = 0
        BY <1>1, <3>2 DEF PortsInv, FillOwnsBridge
      <4>3. bridge.loc.word \in Word /\ rw[c].loc.word \in Word BY <2>1 DEF Loc
      <4>4. bridge.loc.word = rw[c].loc.word
        <5>1. 0 \in 0 .. Words - 1 BY IdleOK DEF Word
        <5>2. Offset(rw[c].loc.word, rw[c].loc.word) = 0 BY <4>3, <5>1, OffsetFacts
        <5> QED BY <4>2, <4>3, <5>1, <5>2, OffsetFacts
      <4> QED BY <2>1, <4>1, <4>2, <4>4 DEF Loc
    <3> QED BY <1>4, <3>1, <3>2
  <2>3. AsOf(Req[c].loc, ReadData(c), Len(log)) BY <1>4, <2>1, <2>2 DEF MemoryInv
  <2>4. \A i \in 1 .. Len(log) : ~(log[i] = Req[c].loc /\ ReadData(c) < i)
    BY <2>1, <2>3 DEF AsOf
  <2> QED BY <2>3, <2>4 DEF AsOf
<1> QED BY <1>1, <1>3, <1>4, ReadFrom

-----------------------------------------------------------------------------
(* The words of a cache.                                                   *)

\* No write of the other port comes to be missed while a cache takes a word of its own.
LEMMA LandsAlone ==
  ASSUME TypeInv, PortsInv, WriterInv, SnoopClock, MemoryClock, NEW c \in Port, Window(c),
         rw[c].state = "WR_ACK"
  PROVE  ~Missed(c)'
<1>1. bridge.state = "W2" /\ bridge.port = c BY DEF WriterInv, AfterData
<1>2. Other(c) \in Port /\ Other(c) # c BY PortFacts
<1>3. ~(bridge'.state = "W2" /\ bridge'.port = Other(c)) BY <1>1, <1>2, DataWritten
<1>4. snoop[c].state = "WAIT_REQ"
  <2>1. snoop[c].state \in SnoopState BY DEF TypeInv, TypeOK, CacheTypeOK
  <2> QED BY <1>1, <2>1 DEF Window, PortsInv, SnoopWindow, SnoopState
<1>5. Other(c) \notin MemB BY <1>1, <1>2, WireStates DEF TypeInv
<1>6. snoop'[c].state = "WAIT_REQ"
  <2>1. c \notin Snooped BY <1>5 DEF Snooped
  <2> QED BY <1>4, <2>1 DEF SnoopClock, SnoopNext
<1>7. snoopWr'[c].ways = {} BY <1>4, SnoopEdge
<1> QED BY <1>3, <1>6, <1>7 DEF Missed

LEMMA WordsKept ==
  ASSUME TypeInv, PortsInv, DistinctInv, WriterInv, WriterInv', MemoryInv, MemoryInv',
         CacheClock, SnoopClock, MemoryClock, History, NEW c \in Port,
         FillData(c), Window(c), KnowsMissed(c), ReadbackOK(c),
         rw[c].state \notin Clearing => WordsAsOf(c),
         rw'[c].state \notin Clearing, Current(c)'
  PROVE  WordsAsOf(c)'
<1> SUFFICES ASSUME NEW s \in Set, NEW w \in Way, NEW t \in Tags, NEW i \in Word,
                    NEW l \in Loc, l = [set |-> s, tag |-> t, word |-> i],
                    Holds(c, s, w, t)'
             PROVE  \/ AsOf(l, dataMem[c][s][w][i], Upto(c))'
                    \/ FillLanding(c, s, w)'
                    \/ WordLanding(c, s, w, i)'
  <2>1. \A s \in Set, t \in Tags, i \in Word : [set |-> s, tag |-> t, word |-> i] \in Loc
    BY DEF Loc
  <2> QED BY <2>1 DEF WordsAsOf
<1>1. Other(c) \in Port BY PortFacts
<1>2. CASE ~Missed(c)'
  <2>1. Upto(c)' = Len(log') BY <1>2, UptoEdge
  <2>2. ~LineStale(c, l)'
    <3>1. gen'[Other(c)].state = "WAIT_ACK" => bridge'.port = Other(c)
      BY <1>1 DEF WriterInv
    <3> QED BY <1>2, <3>1 DEF LineStale, Missed
  <2>3. CASE dataMem'[c][s][w][i] = mem'[l]
    <3>1. AsOf(l, mem[l], Len(log))' BY DEF MemoryInv
    <3> QED BY <2>1, <2>3, <3>1 DEF AsOf
  <2> QED BY <2>2, <2>3 DEF Current
<1>3. CASE Missed(c)'
  <2>1. Upto(c)' = Upto(c) BY <1>3, UptoEdge
  <2>2. rw[c].state # "WR_ACK" BY <1>3, LandsAlone
  <2>3. WordsAsOf(c) /\ FillFresh(c)
    <3>1. rw[c].state \notin Clearing BY ClearedAtEnd
    <3> QED BY <3>1 DEF DistinctInv
  <2>4. CASE /\ tagWr[c].entry.valid /\ s = tagWr[c].set /\ w \in tagWr[c].ways
             /\ t = tagWr[c].entry.tag
    <3>1. CASE rw[c].state = "FILL_RDATA"
      BY <2>3, <2>4, <3>1, FillLandingStays DEF FillFresh
    <3>2. CASE rw[c].count = Words
      <4>1. ~Missed(c) /\ bridge.state = "idle" BY <3>2 DEF Window, FillData
      <4>2. MemWr = {} BY <4>1, BridgeEdge
      <4> QED BY <1>3, <4>1, <4>2, MissedEdge
    <3> QED BY <2>4, <3>1, <3>2 DEF FillData
  <2>5. CASE /\ Holds(c, s, w, t)
             /\ ~(s = snoopWr[c].set /\ w \in snoopWr[c].ways)
             /\ ~(s = tagWr[c].set /\ w \in tagWr[c].ways)
    <3>1. ~WordLanding(c, s, w, i) BY <2>2 DEF WordLanding
    <3>2. dataMem'[c][s][w][i] = dataMem[c][s][w][i] BY <2>5, <3>1, DataStep
    <3>3. CASE FillLanding(c, s, w)
      <4>1. rw[c].count # Words BY <2>5, <3>3 DEF FillLanding, FillData
      <4> QED BY <3>3, <4>1, FillLandingStays DEF FillLanding
    <3>4. CASE AsOf(l, dataMem[c][s][w][i], Upto(c))
      <4>1. PICK v \in Nat, u \in Int :
              v = dataMem[c][s][w][i] /\ u = Upto(c) /\ u <= Len(log)
        BY ConsistencyTypes
      <4>2. AsOf(l, v, u)' BY <3>4, <4>1, AsOfStays
      <4> QED BY <2>1, <3>2, <4>1, <4>2 DEF AsOf
    <3> QED BY <2>3, <2>5, <3>1, <3>3, <3>4 DEF WordsAsOf
  <2> QED BY <2>4, <2>5, HoldsStep
<1> QED BY <1>2, <1>3

-----------------------------------------------------------------------------
(* What a readback returns.                                                *)

\* What a CPU may read it may read until it reads or writes.
LEMMA ReadableStays ==
  ASSUME TypeInv, PortsInv, WriterInv, MemoryInv,
         CacheClock, SnoopClock, MemoryClock, History, NEW c \in Port,
         Window(c), KnowsMissed(c), ReadbackOK(c), c \notin CpuRd, c \notin MemWr,
         NEW l, NEW v \in Nat, Readable(c, l, v)
  PROVE  Readable(c, l, v)'
<1>1. Len(log) \in Nat /\ Upto(c) \in Int /\ Upto(c) <= Len(log) /\ horizon[c] \in Nat
  BY ConsistencyTypes
<1>2. horizon[c] <= Len(log) /\ horizon'[c] = horizon[c] BY HorizonEdge DEF MemoryInv
<1>3. PICK u \in Int : u = Upto(c) BY <1>1
<1>4. Upto(c)' \in Int
  <2>1. Upto(c)' \in {Len(log'), Upto(c)} BY UptoEdge
  <2>2. Len(log') \in Int BY <1>1, LogEdge
  <2> QED BY <1>1, <2>1, <2>2
<1>5. v <= Upto(c)' BY <1>1, <1>4, UptoEdge DEF Readable
<1>6. v # 0 => v \in 1 .. Len(log) BY <1>1 DEF Readable
<1>7. v # 0 => log'[v] = l BY <1>6, LogEdge DEF Readable
<1>8. Len(log') = Len(log) \/ Len(log') = Len(log) + 1 BY LogEdge
<1>9. ASSUME NEW i \in 1 .. Len(log'), log'[i] = l, v < i PROVE horizon'[c] < i
  <2>1. CASE i \in 1 .. Len(log) BY <1>2, <1>9, <2>1, LogEdge DEF Readable
  <2>2. CASE i \notin 1 .. Len(log) BY <1>1, <1>2, <1>8, <2>2
  <2> QED BY <2>1, <2>2
<1> QED BY <1>5, <1>7, <1>9 DEF Readable

\* A way that shows in the register of the tags holds its line in the RAM.
LEMMA TagReadEdge ==
  ASSUME TypeInv, DistinctInv, CacheClock, NEW c \in Port, NEW w \in Way, tagRd'[c][w].valid
  PROVE  tagRd'[c][w] = tagMem[c][rw[c].loc.set][w]
<1>1. PICK early \in BOOLEAN : tagRd'[c] = TagRdNext(c, early, rw'[c].state)
  <2>1. PICK ports \in SUBSET {d \in Port : snoopWr[d].ways # {}} :
          tagRd' = [d \in Port |-> TagRdNext(d, d \in ports, rw'[d].state)]
    BY DEF CacheClock
  <2>2. tagRd'[c] = TagRdNext(c, c \in ports, rw'[c].state) BY <2>1
  <2>3. (c \in ports) \in BOOLEAN OBVIOUS
  <2> QED BY <2>2, <2>3
<1>2. /\ tagMem[c] \in [Set -> [Way -> Entry]] /\ snoopWr[c] \in TagWrite
      /\ rw[c].loc.set \in Set
  BY DEF TypeInv, TypeOK, CacheTypeOK, Loc
<1>3. Applied(tagMem[c], snoopWr[c])[rw[c].loc.set][w]
        \in {snoopWr[c].entry, tagMem[c][rw[c].loc.set][w]}
  BY <1>2, AppliedOK
<1>4. ~snoopWr[c].entry.valid BY DEF DistinctInv, TagWriteFresh
<1>5. ~Blank[w].valid BY DEF Blank, NoWrite
<1>6. tagRd'[c][w] \in {Blank[w], Applied(tagMem[c], snoopWr[c])[rw[c].loc.set][w],
                        tagMem[c][rw[c].loc.set][w]}
  BY <1>1 DEF TagRdNext
<1> QED BY <1>3, <1>4, <1>5, <1>6

\* While a read looks for its line, the addressed word of a way that holds the line is readable.
LEMMA HeldReadable ==
  ASSUME TypeInv, MemoryInv, NEW c \in Port, KnowsMissed(c), rw[c].state \in Looking,
         WordsAsOf(c), NEW w \in Way, Holds(c, rw[c].loc.set, w, rw[c].loc.tag)
  PROVE  WayReadable(c, w)
<1>1. /\ rw[c].loc \in Loc /\ rw[c].loc.set \in Set /\ rw[c].loc.tag \in Tags
      /\ rw[c].loc.word \in Word
      /\ rw[c].loc = [set |-> rw[c].loc.set, tag |-> rw[c].loc.tag, word |-> rw[c].loc.word]
  BY ConsistencyTypes DEF Loc
<1>2. AsOf(rw[c].loc, dataMem[c][rw[c].loc.set][w][rw[c].loc.word], Upto(c))
  <2>1. rw[c].count # Words BY DEF TypeInv, FillsBounded, Looking
  <2> QED BY <1>1, <2>1 DEF WordsAsOf, FillLanding, WordLanding, Looking
<1>3. horizon[c] <= Upto(c) BY HorizonKnown DEF OwnWindow, Looking
<1>4. /\ Upto(c) \in Int /\ horizon[c] \in Nat /\ Len(log) \in Nat
      /\ dataMem[c][rw[c].loc.set][w][rw[c].loc.word] \in Nat
  BY <1>1, ConsistencyTypes
<1>5. PICK l \in Loc, v \in Nat, u \in Int :
        /\ l = rw[c].loc /\ v = dataMem[c][rw[c].loc.set][w][rw[c].loc.word]
        /\ u = Upto(c) /\ AsOf(l, v, u) /\ horizon[c] <= u
  BY <1>1, <1>2, <1>3, <1>4
<1>6. ASSUME NEW i \in 1 .. Len(log), log[i] = l, v < i PROVE horizon[c] < i
  <2>1. u < i BY <1>5, <1>6 DEF AsOf
  <2>2. i \in Int /\ horizon[c] \in Int BY <1>4
  <2>3. horizon[c] <= u BY <1>5
  <2> QED BY <2>1, <2>2, <2>3
<1>7. (v # 0 => log[v] = l) /\ v <= Upto(c) BY <1>5 DEF AsOf
<1>8. Readable(c, l, v) BY <1>6, <1>7 DEF Readable
<1> QED BY <1>5, <1>8 DEF WayReadable

\* And it stays readable until the CPU takes it.
LEMMA WayReadableStays ==
  ASSUME TypeInv, PortsInv, WriterInv, MemoryInv,
         CacheClock, SnoopClock, MemoryClock, History, NEW c \in Port,
         Window(c), KnowsMissed(c), ReadbackOK(c), c \notin CpuRd,
         rw[c].state \in Looking, rw'[c].loc = rw[c].loc,
         NEW w \in Way, WayReadable(c, w)
  PROVE  WayReadable(c, w)'
<1>1. c \notin MemWr BY WireStates DEF TypeInv, MemWVALID, Looking
<1>2. dataMem'[c] = dataMem[c]
  <2>1. rw[c].count # Words BY DEF TypeInv, FillsBounded, Looking
  <2> QED BY <2>1 DEF CacheClock, DataNext, Looking
<1>3. PICK l \in Loc, v \in Nat :
        l = rw[c].loc /\ v = dataMem[c][rw[c].loc.set][w][rw[c].loc.word]
  BY ConsistencyTypes
<1>4. Readable(c, l, v)' BY <1>1, <1>3, ReadableStays DEF WayReadable
<1> QED BY <1>2, <1>3, <1>4 DEF WayReadable

LEMMA HitReadableKept ==
  ASSUME TypeInv, PortsInv, DistinctInv, WriterInv, MemoryInv,
         CacheClock, SnoopClock, MemoryClock, History, NEW c \in Port,
         Window(c), KnowsMissed(c), ReadbackOK(c),
         rw[c].state \notin Clearing => WordsAsOf(c)
  PROVE  HitReadable(c)'
<1> SUFFICES ASSUME rw'[c].state = "HIT_READBACK", NEW w \in Way, (w \in HitWays(c))'
             PROVE  WayReadable(c, w)'
  BY DEF HitReadable, HitWays
<1>1. rw[c].state \in {"CHECK_RD_HIT_3", "HIT_READBACK"} /\ rw'[c].loc = rw[c].loc BY ReadEdge
<1>2. c \notin CpuRd BY <1>1, ReadEdge DEF CpuRd
<1>3. WordsAsOf(c) BY <1>1 DEF Clearing
<1>4. Holds(c, rw[c].loc.set, w, rw[c].loc.tag) BY <1>1, TagReadEdge DEF HitWays, Holds
<1>5. WayReadable(c, w) BY <1>1, <1>3, <1>4, HeldReadable DEF Looking
<1> QED BY <1>1, <1>2, <1>5, WayReadableStays DEF Looking

-----------------------------------------------------------------------------
(* ConsistencyInv is inductive, as long as readbacks return readable words. *)

LEMMA ConsistencyInit == Init => ConsistencyInv
<1> SUFFICES ASSUME Init PROVE ConsistencyInv
  OBVIOUS
<1>1. /\ log = <<>> /\ Len(log) = 0
      /\ \A l \in Loc : mem[l] = 0
      /\ \A c \in Port : horizon[c] = 0
      /\ bridge.state = "idle"
  BY DEF Init, BridgeInit, BridgeIdle
<1>2. \A c \in Port : /\ rw[c].state = "INIT_TAG_1" /\ rw[c].count = 0
                      /\ snoop[c].state = "WAIT_REQ" /\ snoopWr[c].ways = {}
  BY DEF Init, CacheInit, RwIdle, SnoopIdle, NoWrite
<1>3. Words # 0 BY DimensionAssumption
<1>4. MemoryInv BY <1>1 DEF MemoryInv, AsOf
<1>5. \A c \in Port : ~Missed(c) BY <1>1, <1>2 DEF Missed
<1>6. \A c \in Port : Window(c) /\ KnowsMissed(c) /\ RequestHeld(c) /\ HitReadable(c)
  BY <1>2, <1>3, <1>5 DEF Window, KnowsMissed, RequestHeld, Serving, HitReadable
<1>7. \A c \in Port : rw[c].state \in Clearing BY <1>2 DEF Clearing
<1> QED BY <1>4, <1>6, <1>7 DEF ConsistencyInv

LEMMA ConsistencyStutter ==
  ASSUME ConsistencyInv, UNCHANGED vars
  PROVE  ConsistencyInv'
<1>1. /\ cpu' = cpu /\ bridge' = bridge /\ mem' = mem /\ rw' = rw
      /\ tagMem' = tagMem /\ dataMem' = dataMem /\ tagRd' = tagRd
      /\ snoop' = snoop /\ snoopWr' = snoopWr /\ log' = log /\ horizon' = horizon
  BY DEF vars
<1>2. MemoryInv' BY <1>1 DEF ConsistencyInv, MemoryInv, AsOf
<1>3. ASSUME NEW c \in Port
      PROVE  /\ Window(c)' = Window(c) /\ KnowsMissed(c)' = KnowsMissed(c)
             /\ RequestHeld(c)' = RequestHeld(c) /\ HitReadable(c)' = HitReadable(c)
             /\ WordsAsOf(c)' = WordsAsOf(c)
  <2>1. Window(c)' = Window(c) BY <1>1 DEF Window, Missed
  <2>2. KnowsMissed(c)' = KnowsMissed(c) BY <1>1 DEF KnowsMissed, Missed, OwnWindow
  <2>3. RequestHeld(c)' = RequestHeld(c) BY <1>1 DEF RequestHeld, Serving
  <2>4. HitReadable(c)' = HitReadable(c)
    BY <1>1 DEF HitReadable, HitWays, WayReadable, Readable, Upto, Missed
  <2>5. WordsAsOf(c)' = WordsAsOf(c)
    BY <1>1 DEF WordsAsOf, Holds, AsOf, Upto, Missed, FillLanding, WordLanding
  <2> QED BY <2>1, <2>2, <2>3, <2>4, <2>5
<1> QED BY <1>1, <1>2, <1>3 DEF ConsistencyInv

LEMMA ConsistencyStep ==
  ASSUME TypeInv, PortsInv, DistinctInv, CoherenceInv, CoherenceInv', ConsistencyInv,
         \A c \in Port : ReadbackOK(c), Clock
  PROVE  ConsistencyInv'
<1> USE DEF Clock
<1>1. MemoryInv /\ MemoryInv' BY MemoryKept DEF ConsistencyInv
<1>2. ASSUME NEW c \in Port
      PROVE  /\ Window(c)' /\ KnowsMissed(c)' /\ RequestHeld(c)' /\ HitReadable(c)'
             /\ rw'[c].state \notin Clearing => WordsAsOf(c)'
  <2>1. /\ Window(c) /\ KnowsMissed(c) /\ RequestHeld(c)
        /\ rw[c].state \notin Clearing => WordsAsOf(c)
    BY DEF ConsistencyInv
  <2>2. WriterInv /\ WriterInv' /\ FillData(c) /\ (rw'[c].state \notin Clearing => Current(c)')
    BY DEF CoherenceInv
  <2>3. Window(c)' BY <2>1, <2>2, WindowKept
  <2>4. KnowsMissed(c)' BY <1>1, <2>1, <2>2, UptoEdge
  <2>5. RequestHeld(c)' BY <2>1, RequestHeldKept
  <2>6. HitReadable(c)' BY <1>1, <2>1, <2>2, HitReadableKept
  <2>7. rw'[c].state \notin Clearing => WordsAsOf(c)' BY <1>1, <2>1, <2>2, WordsKept
  <2> QED BY <2>3, <2>4, <2>5, <2>6, <2>7
<1> QED BY <1>1, <1>2 DEF ConsistencyInv

LEMMA ConsistencyImplies ==
  ASSUME TypeInv, PortsInv, ConsistencyInv, \A c \in Port : ReadbackOK(c)
  PROVE  SequentiallyConsistent
<1>1. \A c \in CpuRd : c \in Port BY DEF CpuRd
<1>2. \A c \in Port : MemoryInv /\ RequestHeld(c) BY DEF ConsistencyInv
<1> QED BY <1>1, <1>2, ReadAllowed DEF SequentiallyConsistent

\* The way that hits is one of those that do.
LEMMA HitWayHits ==
  ASSUME NEW c \in Port, Hit(c)
  PROVE  HitWay(c) \in HitWays(c)
<1>1. HitWays(c) \in SUBSET (0 .. Ways - 1) /\ HitWays(c) # {} /\ Ways \in Nat
  BY DimensionAssumption DEF HitWays, Hit, Way
<1>2. \E m \in HitWays(c) : \A n \in HitWays(c) : n <= m BY <1>1, GreatestBounded
<1> QED BY <1>2 DEF HitWay

LEMMA RightWayReadable ==
  ASSUME ConsistencyInv, RightWay, NEW c \in Port
  PROVE  ReadbackOK(c)
BY HitWayHits DEF ReadbackOK, RightWay, ConsistencyInv, HitReadable

(***************************************************************************)
(* Sequential consistency of every behaviour in which the way a readback   *)
(* takes its word from is the way that hit.                                *)
(***************************************************************************)
THEOREM ConsistentWithRightWay ==
  WritesThroughCache => (Spec /\ []RightWay => []SequentiallyConsistent)
<1> SUFFICES ASSUME WritesThroughCache PROVE Spec /\ []RightWay => []SequentiallyConsistent
  OBVIOUS
<1> DEFINE Base == TypeInv /\ PortsInv /\ SnoopReady /\ DistinctInv /\ CoherenceInv
           IInv == Base /\ ConsistencyInv
<1>1. Init => IInv
  <2>1. Init => SnoopReady BY DEF Init, CacheInit, SnoopReady, SnoopIdle
  <2> QED BY <2>1, TypeInit, PortsInit, DistinctInit, CoherenceInit, ConsistencyInit
<1>2. IInv /\ [Next]_vars => CoherenceInv'
  BY CoherenceStep, CoherenceStutter DEF Next
<1>3. IInv /\ RightWay /\ [Next]_vars => ConsistencyInv'
  BY <1>2, RightWayReadable, ConsistencyStep, ConsistencyStutter DEF Next
<1>4. TypeInv /\ [Next]_vars => TypeInv' BY TypeStep
<1>5. TypeInv /\ PortsInv /\ [Next]_vars => PortsInv' BY <1>4, PortsStep
<1>6. IInv /\ RightWay => SequentiallyConsistent BY RightWayReadable, ConsistencyImplies
<1>7. Spec => [](SnoopReady) BY SnoopAlwaysReady
<1>8. Spec => []DistinctInv BY DistinctAlways
<1> QED BY <1>1, <1>2, <1>3, <1>4, <1>5, <1>6, <1>7, <1>8, PTL DEF Spec

-----------------------------------------------------------------------------
(* Lines that are never invalidated stay where they are found, and lines   *)
(* that may be are found in the first way.                                 *)

LEMMA SnoopsWritesKept ==
  ASSUME TypeInv, PortsInv, WriterInv, CacheClock, SnoopClock, NEW c \in Port,
         LinesAskedFor(c), SnoopSees(c), SnoopsWrites(c), SnoopsWrites(Other(c))
  PROVE  SnoopsWrites(c)'
<1>1. Other(c) \in Port BY PortFacts
<1>2. /\ gen[c].state \in {"WAIT_REQ", "WAIT_ACK"} /\ snoop[c].state \in SnoopState
      /\ snoop'[c].state \in SnoopState /\ snoop[c].loc.set \in Set
  <2>1. snoop[c] \in [state : SnoopState, loc : Loc] /\ SnoopAddr[c] \in Loc
    BY ReqOK DEF TypeInv, TypeOK, CacheTypeOK
  <2>2. snoop'[c].state \in SnoopState
    BY <2>1 DEF SnoopClock, SnoopNext, SnoopState, SnoopIdle
  <2>3. gen[c].state \in {"WAIT_REQ", "WAIT_ACK"} BY DEF TypeInv, TypeOK, CacheTypeOK
  <2> QED BY <2>1, <2>2, <2>3 DEF Loc
<1>3. ASSUME gen'[c].state = "WAIT_ACK"
      PROVE  WrittenLine(c, gen'[c].loc.set, gen'[c].loc.tag)
  <2>1. CASE gen[c].state = "WAIT_ACK" BY <1>3, <2>1, GenEdge DEF SnoopsWrites
  <2>2. CASE gen[c].state = "WAIT_REQ"
    <3>1. c \in MemAw /\ gen'[c].loc = Req[c].loc BY <1>3, <2>2, GenEdge
    <3>2. AWVALID(c) /\ Req[c] = cpu[c].req BY <3>1, OneChannel, ReqOK DEF TypeInv
    <3>3. cpu[c].req \in Requests[c] /\ cpu[c].req.op = "write"
      BY <3>2 DEF AWVALID, LinesAskedFor
    <3> QED BY <3>1, <3>2, <3>3 DEF WrittenLine
  <2> QED BY <1>2, <2>1, <2>2
<1>4. ASSUME snoop'[c].state # "WAIT_REQ"
      PROVE  WrittenLine(Other(c), snoop'[c].loc.set, snoop'[c].loc.tag)
  <2>1. CASE snoop'[c].state = "CHECK_HIT_1"
    <3>1. Other(c) \in MemB /\ snoop'[c].loc = gen[Other(c)].loc BY <2>1, SnoopEdge
    <3>2. bridge.state = "W2" /\ bridge.port = Other(c) BY <3>1, WireStates DEF TypeInv
    <3>3. gen[Other(c)].state = "WAIT_ACK" BY <1>1, <3>2 DEF WriterInv
    <3> QED BY <3>1, <3>3 DEF SnoopsWrites
  <2>2. CASE snoop'[c].state \in {"CHECK_HIT_2", "CHECK_HIT_3"}
    BY <2>2, SnoopEdge DEF SnoopsWrites
  <2> QED BY <1>2, <1>4, <2>1, <2>2 DEF SnoopState
<1>5. ASSUME snoopWr'[c].ways # {}
      PROVE  /\ WrittenLine(Other(c), snoopWr'[c].set, snoopWr'[c].entry.tag)
             /\ \A w \in snoopWr'[c].ways :
                  tagMem'[c][snoopWr'[c].set][w].valid =>
                    tagMem'[c][snoopWr'[c].set][w].tag = snoopWr'[c].entry.tag
  <2>1. snoop[c].state = "CHECK_HIT_3" /\ snoopWr'[c] = SnoopWrNext(c)
    BY <1>5, SnoopEdge DEF SnoopClock
  <2>2. SnoopHits(c) # {} BY <1>5, <2>1 DEF SnoopWrNext, NoWrite
  <2>3. snoopWr'[c] = [set |-> snoop[c].loc.set, ways |-> {SnoopHitWay(c)},
                       entry |-> [valid |-> FALSE, tag |-> snoop[c].loc.tag]]
    BY <2>1, <2>2 DEF SnoopWrNext
  <2>4. SnoopHitWay(c) \in SnoopHits(c)
    <3>1. SnoopHits(c) \in SUBSET Nat BY DEF SnoopHits, Way
    <3>2. PICK m \in SnoopHits(c) : \A v \in SnoopHits(c) : m <= v BY <2>2, <3>1, LeastNat
    <3> QED BY <3>2 DEF SnoopHitWay
  <2>5. PICK w \in Way : w = SnoopHitWay(c) /\ tagMem[c][snoop[c].loc.set][w].tag = snoop[c].loc.tag
    BY <2>1, <2>4 DEF SnoopHits, SnoopSees
  <2>6. tagWr[c].ways = {} /\ snoopWr[c].ways = {} BY <2>1 DEF PortsInv, SnoopWindow
  <2>7. tagMem'[c][snoop[c].loc.set][w] = tagMem[c][snoop[c].loc.set][w]
    BY <1>2, <2>6, TagMemStep
  <2>8. WrittenLine(Other(c), snoop[c].loc.set, snoop[c].loc.tag) BY <2>1 DEF SnoopsWrites
  <2>9. /\ snoopWr'[c].set = snoop[c].loc.set /\ snoopWr'[c].ways = {w}
        /\ snoopWr'[c].entry.tag = snoop[c].loc.tag
    BY <2>3, <2>5
  <2> QED BY <2>5, <2>7, <2>8, <2>9
<1> QED BY <1>3, <1>4, <1>5 DEF SnoopsWrites, WrittenLine

\* How a read comes to wait for its tags and its word.
LEMMA LookingEdge ==
  ASSUME TypeInv, CacheClock, NEW c \in Port, rw'[c].state \in Looking
  PROVE  /\ rw[c].state \in Looking \cup {"CHECK_RD_HIT_1"} /\ rw'[c].loc = rw[c].loc
         /\ rw'[c].state # "CHECK_RD_HIT_2" => rw[c].state \in Looking
         /\ rw'[c].state = "CHECK_RD_HIT_3" => rw[c].state = "CHECK_RD_HIT_2"
         /\ c \notin CpuRd
<1>1. CASE rw'[c].state = "CHECK_RD_HIT_2"
  <2>1. rw[c].state = "CHECK_RD_HIT_1" /\ rw'[c].loc = rw[c].loc
    <3>1. CASE rw[c].state = "WAIT_REQ" BY <1>1, <3>1, RwEdge
    <3>2. CASE rw[c].state # "WAIT_REQ"
      <4>1. rw[c].state \in Reading /\ rw'[c].loc = rw[c].loc
        BY <1>1, <3>2, ReadStarts, WireStates DEF Reading, TypeInv
      <4>2. rw[c].state \notin {"CHECK_RD_HIT_2", "CHECK_RD_HIT_3"} BY <1>1, RwEdge
      <4>3. rw[c].state # "FILL_AR"
        <5>1. rw[c].state = "FILL_AR" => rw'[c].state \in {"FILL_AR", "FILL_RDATA"} BY RwEdge
        <5> QED BY <1>1, <5>1
      <4>4. rw[c].state # "FILL_RDATA" BY <1>1, RwCases
      <4> QED BY <4>1, <4>2, <4>3, <4>4 DEF Reading
    <3> QED BY <3>1, <3>2
  <2> QED BY <1>1, <2>1 DEF CpuRd
<1>2. CASE rw'[c].state = "CHECK_RD_HIT_3" BY <1>2, RwCases DEF Looking, CpuRd
<1>3. CASE rw'[c].state = "HIT_READBACK"
  <2>1. rw[c].state = "CHECK_RD_HIT_3" => c \notin CpuRd BY DEF CpuRd
  <2> QED BY <1>3, <2>1, ReadEdge DEF Looking
<1> QED BY <1>1, <1>2, <1>3 DEF Looking

\* A way that no snoop invalidates shows in the register as it is in the RAM.
LEMMA TagSeen ==
  ASSUME TypeInv, CacheClock, NEW c \in Port, NEW w \in Way,
         rw'[c].state \in {"CHECK_RD_HIT_3", "HIT_READBACK"},
         ~(rw[c].loc.set = snoopWr[c].set /\ w \in snoopWr[c].ways)
  PROVE  tagRd'[c][w] = tagMem[c][rw[c].loc.set][w]
<1>1. PICK early \in BOOLEAN : tagRd'[c] = TagRdNext(c, early, rw'[c].state)
  <2>1. PICK ports \in SUBSET {d \in Port : snoopWr[d].ways # {}} :
          tagRd' = [d \in Port |-> TagRdNext(d, d \in ports, rw'[d].state)]
    BY DEF CacheClock
  <2>2. tagRd'[c] = TagRdNext(c, c \in ports, rw'[c].state) BY <2>1
  <2>3. (c \in ports) \in BOOLEAN OBVIOUS
  <2> QED BY <2>2, <2>3
<1>2. /\ tagMem[c] \in [Set -> [Way -> Entry]] /\ snoopWr[c] \in TagWrite
      /\ rw[c].loc.set \in Set
  BY DEF TypeInv, TypeOK, CacheTypeOK, Loc
<1>3. Applied(tagMem[c], snoopWr[c])[rw[c].loc.set][w] = tagMem[c][rw[c].loc.set][w]
  BY <1>2, AppliedOK
<1>4. tagRd'[c][w] \in {Applied(tagMem[c], snoopWr[c])[rw[c].loc.set][w],
                        tagMem[c][rw[c].loc.set][w]}
  BY <1>1 DEF TagRdNext
<1> QED BY <1>3, <1>4

LEMMA LookupKept ==
  ASSUME TypeInv, DistinctInv, CacheClock, NEW c \in Port,
         LinesAskedFor(c), SnoopsWrites(c), Lookup(c)
  PROVE  Lookup(c)'
<1> SUFFICES ASSUME rw'[c].state \in Looking PROVE Lookup(c)'
  BY DEF Lookup, Looking
<1>1. rw[c].state \in Looking \cup {"CHECK_RD_HIT_1"} /\ rw'[c].loc = rw[c].loc
  BY LookingEdge
<1>2. PICK s \in Set, t \in Tags : s = rw[c].loc.set /\ t = rw[c].loc.tag
  BY DEF TypeInv, TypeOK, CacheTypeOK, Loc
<1>3. CachedLine(c, s, t) /\ tagWr'[c].ways = {}
  <2>1. CachedLine(c, s, t) BY <1>1, <1>2 DEF Lookup, LinesAskedFor, Looking
  <2>2. tagWr'[c].ways = {} BY <1>1, TagWrEdge DEF Looking, Clearing
  <2> QED BY <2>1, <2>2
<1>4. ASSUME rw'[c].state \in {"CHECK_RD_HIT_3", "HIT_READBACK"}, ~WrittenLine(Other(c), s, t)
      PROVE  /\ \A w \in (HitWays(c))' : Holds(c, s, w, t)'
             /\ rw'[c].state = "HIT_READBACK" => Hit(c)'
  <2>1. rw[c].state \in Looking /\ tagWr[c].ways = {} BY <1>4, LookingEdge DEF Lookup
  <2>2. ASSUME NEW w \in Way, Holds(c, s, w, t)
        PROVE  ~(s = snoopWr[c].set /\ w \in snoopWr[c].ways)
    BY <1>4, <2>2 DEF SnoopsWrites, Holds
  <2>3. ASSUME NEW w \in Way, Holds(c, s, w, t) PROVE Holds(c, s, w, t)'
    <3>1. tagMem'[c][s][w] = tagMem[c][s][w] BY <2>1, <2>2, <2>3, TagMemStep
    <3> QED BY <2>3, <3>1 DEF Holds
  <2>4. ASSUME NEW w \in Way, (w \in HitWays(c))' PROVE Holds(c, s, w, t)'
    <3>1. Holds(c, s, w, t) BY <1>1, <1>2, <2>4, TagReadEdge DEF HitWays, Holds
    <3> QED BY <2>3, <3>1
  <2>5. ASSUME rw'[c].state = "HIT_READBACK" PROVE Hit(c)'
    <3>1. rw[c].state \in {"CHECK_RD_HIT_3", "HIT_READBACK"} BY <2>5, ReadEdge
    <3>2. Hit(c) BY <1>2, <1>4, <2>5, <3>1, ReadEdge DEF Lookup
    <3>3. PICK w \in Way : w \in HitWays(c) /\ Holds(c, s, w, t)
      BY <1>2, <1>4, <3>1, <3>2 DEF Lookup, Hit, HitWays
    <3>4. tagRd'[c][w] = tagMem[c][s][w] BY <1>2, <1>4, <2>2, <3>3, TagSeen
    <3> QED BY <1>1, <1>2, <3>3, <3>4 DEF Hit, HitWays, Holds
  <2> QED BY <2>4, <2>5 DEF HitWays
<1> QED BY <1>1, <1>2, <1>3, <1>4 DEF Lookup, CachedLine, WrittenLine

\* A fill goes to the first way of a set that shows no valid entry.
LEMMA FillStarts ==
  ASSUME TypeInv, CacheClock, NEW c \in Port, rw[c].state = "FILL_AR",
         rw'[c].state = "FILL_RDATA", Ways # 1 => \A w \in Way : ~tagRd[c][w].valid
  PROVE  rw'[c].way = 0
<1>1. PICK rand \in Way :
        rw' = [d \in Port |-> RwNext(d, Req, CpuAr, MemAw, MemWr, MemB, CpuRd, MemAr, MemRd,
                                     Snooped, SnoopAddr, rand)]
  BY IdleOK DEF CacheClock
<1>2. rw[c] \in [state : RwState, loc : Loc, ok : BOOLEAN, count : 0 .. Words, way : Way]
  BY DEF TypeInv, TypeOK, CacheTypeOK
<1>3. rw'[c] \in {[rw[c] EXCEPT !.state = "FILL_RDATA", !.way = WaySel(c, rand)], rw[c]}
  BY <1>1 DEF RwNext
<1>4. rw'[c].way = WaySel(c, rand) BY <1>2, <1>3
<1>5. WaySel(c, rand) \in Way BY DataOK DEF TypeInv
<1>6. CASE Ways = 1
  <2>1. Way = {0} BY <1>6 DEF Way
  <2> QED BY <1>4, <1>5, <2>1
<1>7. CASE Ways # 1
  <2>1. {w \in Way : ~tagRd[c][w].valid} = Way /\ Way # {} BY <1>7, IdleOK
  <2>2. WaySel(c, rand) = CHOOSE w \in Way : \A v \in Way : w <= v BY <2>1 DEF WaySel
  <2>3. 0 \in Way /\ \A v \in Way : 0 <= v BY IdleOK DEF Way
  <2>4. \A w \in Way : w <= 0 => w = 0 BY DEF Way
  <2> QED BY <1>4, <2>2, <2>3, <2>4
<1> QED BY <1>6, <1>7

LEMMA FirstWayKept ==
  ASSUME TypeInv, DistinctInv, SharedLinesAlone, CacheClock, NEW c \in Port,
         LinesAskedFor(c), FillData(c), FirstWay(c)
  PROVE  FirstWay(c)'
<1>1. /\ rw[c].way \in Way /\ rw[c].loc.set \in Set /\ rw[c].loc.tag \in Tags
      /\ tagMem[c] \in [Set -> [Way -> Entry]]
  BY DEF TypeInv, TypeOK, CacheTypeOK, Loc
<1>2. Ways = 1 => \A w \in Way : w = 0 BY DEF Way
<1>3. rw[c].state \notin Clearing => FillFresh(c) BY DEF DistinctInv
<1>4. ASSUME rw'[c].state \notin Clearing, NEW s \in Set, NEW w \in Way, NEW t \in Tags,
             Holds(c, s, w, t)', SharedSet(c, s)
      PROVE  w = 0
  <2>1. rw[c].state \notin Clearing BY <1>4, ClearedAtEnd
  <2>2. CASE /\ tagWr[c].entry.valid /\ s = tagWr[c].set /\ w \in tagWr[c].ways
             /\ t = tagWr[c].entry.tag
    <3>1. rw[c].loc.set = s /\ rw[c].way = w
      BY <1>3, <2>1, <2>2 DEF FillData, FillFresh
    <3> QED BY <1>4, <2>2, <3>1 DEF FirstWay, FillData
  <2>3. CASE Holds(c, s, w, t) BY <1>4, <2>1, <2>3 DEF FirstWay
  <2> QED BY <1>4, <2>2, <2>3, HoldsStep
<1>5. ASSUME rw'[c].state = "FILL_AR", Ways # 1, SharedSet(c, rw[c].loc.set), NEW w \in Way
      PROVE  ~tagRd'[c][w].valid
  <2> SUFFICES ASSUME tagRd'[c][w].valid PROVE FALSE
    OBVIOUS
  <2>1. PICK s \in Set, t \in Tags, u \in Tags :
          s = rw[c].loc.set /\ t = rw[c].loc.tag /\ u = tagMem[c][rw[c].loc.set][w].tag
    BY <1>1 DEF Entry
  <2>2. rw[c].state = "FILL_AR" \/ (rw[c].state = "CHECK_RD_HIT_3" /\ ~Hit(c))
    BY <1>5, RwCases
  <2>3. Holds(c, s, w, u) BY <2>1, TagReadEdge DEF Holds
  <2>4. CachedLine(c, s, t) /\ CachedLine(c, s, u)
    BY <2>1, <2>2, <2>3 DEF LinesAskedFor, Clearing
  <2>5. t = u BY <1>5, <2>1, <2>4 DEF SharedLinesAlone, SharedSet
  <2> QED BY <1>3, <2>1, <2>2, <2>3, <2>5 DEF FillFresh, Hit, Clearing
<1>6. ASSUME rw'[c].state = "FILL_RDATA", SharedSet(c, rw[c].loc.set) PROVE rw'[c].way = 0
  <2>1. CASE rw[c].state = "FILL_AR" BY <1>6, <2>1, FillStarts DEF FirstWay
  <2>2. CASE rw[c].state = "FILL_RDATA" /\ rw'[c].way = rw[c].way BY <1>6, <2>2 DEF FirstWay
  <2> QED BY <1>6, <2>1, <2>2, RwCases
<1>7. ASSUME rw'[c].count = Words, SharedSet(c, rw[c].loc.set) PROVE rw'[c].way = 0
  <2>1. rw[c].state = "FILL_RDATA" /\ rw'[c].way = rw[c].way
    BY <1>7, LastBeatEnds, RwEdge
  <2> QED BY <1>7, <2>1 DEF FirstWay
<1>8. rw'[c].state \in {"FILL_AR", "FILL_RDATA"} \/ rw'[c].count = Words =>
        rw'[c].loc = rw[c].loc
  BY RwCases, LastBeatEnds, FillLandingStays
<1> QED BY <1>4, <1>5, <1>6, <1>7, <1>8 DEF FirstWay, SharedSet, CachedLine, WrittenLine

LEMMA FirstReadableKept ==
  ASSUME TypeInv, PortsInv, DistinctInv, WriterInv, MemoryInv,
         CacheClock, SnoopClock, MemoryClock, History, NEW c \in Port,
         Window(c), KnowsMissed(c), ReadbackOK(c),
         rw[c].state \notin Clearing => WordsAsOf(c), FirstWay(c), FirstReadable(c)
  PROVE  FirstReadable(c)'
<1> SUFFICES ASSUME rw'[c].state \in {"CHECK_RD_HIT_3", "HIT_READBACK"},
                    SharedSet(c, rw[c].loc.set)
             PROVE  /\ (HitWays(c))' \subseteq {0}
                    /\ rw'[c].state = "CHECK_RD_HIT_3" =>
                         \A w \in (HitWays(c))' : WayReadable(c, w)'
                    /\ rw'[c].state = "HIT_READBACK" => WayReadable(c, 0)'
  <2>1. rw'[c].state \in {"CHECK_RD_HIT_3", "HIT_READBACK"} => rw'[c].loc = rw[c].loc
    BY LookingEdge DEF Looking
  <2> QED BY <2>1 DEF FirstReadable, SharedSet, CachedLine, WrittenLine
<1>1. rw[c].state \in Looking /\ rw'[c].loc = rw[c].loc /\ c \notin CpuRd
  BY LookingEdge DEF Looking
<1>2. WordsAsOf(c) /\ rw[c].state \notin Clearing BY <1>1 DEF Looking, Clearing
<1>3. rw[c].loc.set \in Set /\ rw[c].loc.tag \in Tags BY ConsistencyTypes
<1>4. ASSUME NEW w \in (HitWays(c))' PROVE w \in Way /\ Holds(c, rw[c].loc.set, w, rw[c].loc.tag)
  <2>1. w \in Way /\ tagRd'[c][w].valid /\ tagRd'[c][w].tag = rw[c].loc.tag
    BY <1>1 DEF HitWays
  <2> QED BY <2>1, TagReadEdge DEF Holds
<1>5. (HitWays(c))' \subseteq {0} BY <1>2, <1>3, <1>4 DEF FirstWay
<1>6. ASSUME NEW w \in (HitWays(c))' PROVE WayReadable(c, w)'
  <2>1. w \in Way /\ WayReadable(c, w) BY <1>1, <1>2, <1>4, HeldReadable
  <2> QED BY <1>1, <2>1, WayReadableStays
<1>7. ASSUME rw'[c].state = "HIT_READBACK" PROVE WayReadable(c, 0)'
  <2>1. WayReadable(c, 0)
    <3>1. CASE rw[c].state = "CHECK_RD_HIT_3"
      <4>1. Hit(c) /\ HitWays(c) \subseteq {0} BY <1>7, <3>1, ReadEdge DEF FirstReadable
      <4>2. 0 \in HitWays(c) BY <4>1 DEF Hit
      <4> QED BY <3>1, <4>2 DEF FirstReadable
    <3>2. CASE rw[c].state = "HIT_READBACK" BY <3>2 DEF FirstReadable
    <3> QED BY <1>7, <3>1, <3>2, ReadEdge
  <2> QED BY <1>1, <2>1, WayReadableStays, IdleOK
<1> QED BY <1>5, <1>6, <1>7

\* A readback returns a readable word, from the way that hits or else from the first way.
LEMMA ReadbackReadable ==
  ASSUME ConsistencyInv, NEW c \in Port, Lookup(c), FirstReadable(c), TypeInv
  PROVE  ReadbackOK(c)
<1> SUFFICES ASSUME rw[c].state = "HIT_READBACK" PROVE WayReadable(c, HitWay(c))
  BY DEF ReadbackOK
<1>1. CASE Hit(c) BY <1>1, HitWayHits DEF ConsistencyInv, HitReadable
<1>2. CASE ~Hit(c)
  <2>1. SharedSet(c, rw[c].loc.set)
    <3>1. rw[c].loc.tag \in Tags BY ConsistencyTypes
    <3> QED BY <1>2, <3>1 DEF Lookup, Looking, SharedSet
  <2>2. WayReadable(c, 0) BY <2>1 DEF FirstReadable
  <2> QED BY <1>2, <2>2 DEF HitWay
<1> QED BY <1>1, <1>2

FirstInv == \A c \in Port : SnoopsWrites(c) /\ Lookup(c) /\ FirstWay(c) /\ FirstReadable(c)

LEMMA FirstInit == Init => FirstInv
<1> SUFFICES ASSUME Init PROVE FirstInv
  OBVIOUS
<1>1. \A c \in Port : /\ rw[c].state = "INIT_TAG_1" /\ rw[c].count = 0
                      /\ snoop[c].state = "WAIT_REQ" /\ snoopWr[c].ways = {}
                      /\ gen[c].state = "WAIT_REQ"
  BY DEF Init, CacheInit, RwIdle, SnoopIdle, NoWrite
<1>2. Words # 0 BY DimensionAssumption
<1>3. \A c \in Port : SnoopsWrites(c) BY <1>1 DEF SnoopsWrites
<1>4. \A c \in Port : Lookup(c) /\ FirstWay(c) /\ FirstReadable(c)
  BY <1>1, <1>2 DEF Lookup, Looking, FirstWay, FirstReadable, Clearing
<1> QED BY <1>3, <1>4 DEF FirstInv

LEMMA FirstStutter ==
  ASSUME FirstInv, UNCHANGED vars
  PROVE  FirstInv'
<1>1. /\ rw' = rw /\ tagMem' = tagMem /\ dataMem' = dataMem /\ tagRd' = tagRd /\ tagWr' = tagWr
      /\ snoop' = snoop /\ snoopWr' = snoopWr /\ gen' = gen /\ bridge' = bridge
      /\ log' = log /\ horizon' = horizon
  BY DEF vars
<1>2. ASSUME NEW c \in Port
      PROVE  /\ SnoopsWrites(c)' = SnoopsWrites(c) /\ Lookup(c)' = Lookup(c)
             /\ FirstWay(c)' = FirstWay(c) /\ FirstReadable(c)' = FirstReadable(c)
  <2>1. SnoopsWrites(c)' = SnoopsWrites(c) BY <1>1 DEF SnoopsWrites, WrittenLine
  <2>2. Lookup(c)' = Lookup(c)
    BY <1>1 DEF Lookup, Holds, Hit, HitWays, WrittenLine, CachedLine
  <2>3. FirstWay(c)' = FirstWay(c)
    BY <1>1 DEF FirstWay, Holds, SharedSet, WrittenLine, CachedLine
  <2>4. \A w : WayReadable(c, w)' = WayReadable(c, w)
    BY <1>1 DEF WayReadable, Readable, Upto, Missed
  <2>5. FirstReadable(c)' = FirstReadable(c)
    BY <1>1, <2>4 DEF FirstReadable, HitWays, SharedSet, WrittenLine, CachedLine
  <2> QED BY <2>1, <2>2, <2>3, <2>5
<1> QED BY <1>2 DEF FirstInv

LEMMA FirstStep ==
  ASSUME TypeInv, PortsInv, DistinctInv, CoherenceInv, ConsistencyInv, FirstInv,
         SharedLinesAlone, \A c \in Port : ReadbackOK(c), Clock
  PROVE  FirstInv'
<1> USE DEF Clock
<1> SUFFICES ASSUME NEW c \in Port
             PROVE  SnoopsWrites(c)' /\ Lookup(c)' /\ FirstWay(c)' /\ FirstReadable(c)'
  BY DEF FirstInv
<1>1. WriterInv /\ LinesAskedFor(c) /\ FillData(c) /\ SnoopSees(c) BY DEF CoherenceInv
<1>2. /\ MemoryInv /\ Window(c) /\ KnowsMissed(c) /\ ReadbackOK(c)
      /\ rw[c].state \notin Clearing => WordsAsOf(c)
  BY DEF ConsistencyInv
<1>3. SnoopsWrites(c) /\ Lookup(c) /\ FirstWay(c) /\ FirstReadable(c) BY DEF FirstInv
<1>4. SnoopsWrites(c)'
  <2>1. SnoopsWrites(Other(c)) BY PortFacts DEF FirstInv
  <2> QED BY <1>1, <1>3, <2>1, SnoopsWritesKept
<1>5. Lookup(c)' BY <1>1, <1>3, LookupKept
<1>6. FirstWay(c)' BY <1>1, <1>3, FirstWayKept
<1>7. FirstReadable(c)' BY <1>1, <1>2, <1>3, FirstReadableKept
<1> QED BY <1>4, <1>5, <1>6, <1>7

(***************************************************************************)
(* Sequential consistency, for every size of the caches and every set of   *)
(* requests in which a CPU writes the lines it caches through its cache,   *)
(* and in which a line that one CPU caches and the other writes has its    *)
(* set to itself (in a cache of one way there is no such condition).       *)
(***************************************************************************)
THEOREM MemoryConsistent ==
  WritesThroughCache /\ SharedLinesAlone => (Spec => []SequentiallyConsistent)
<1> SUFFICES ASSUME WritesThroughCache, SharedLinesAlone
             PROVE  Spec => []SequentiallyConsistent
  OBVIOUS
<1> DEFINE Base == TypeInv /\ PortsInv /\ SnoopReady /\ DistinctInv /\ CoherenceInv
           IInv == Base /\ ConsistencyInv /\ FirstInv
<1>1. Init => IInv
  <2>1. Init => SnoopReady BY DEF Init, CacheInit, SnoopReady, SnoopIdle
  <2> QED BY <2>1, TypeInit, PortsInit, DistinctInit, CoherenceInit, ConsistencyInit, FirstInit
<1>2. IInv /\ [Next]_vars => CoherenceInv'
  BY CoherenceStep, CoherenceStutter DEF Next
<1>3. IInv => \A c \in Port : ReadbackOK(c) BY ReadbackReadable DEF FirstInv
<1>4. IInv /\ [Next]_vars => ConsistencyInv'
  BY <1>2, <1>3, ConsistencyStep, ConsistencyStutter DEF Next
<1>5. IInv /\ [Next]_vars => FirstInv' BY <1>3, FirstStep, FirstStutter DEF Next
<1>6. TypeInv /\ [Next]_vars => TypeInv' BY TypeStep
<1>7. TypeInv /\ PortsInv /\ [Next]_vars => PortsInv' BY <1>6, PortsStep
<1>8. IInv => SequentiallyConsistent BY <1>3, ConsistencyImplies
<1>9. Spec => [](SnoopReady) BY SnoopAlwaysReady
<1>10. Spec => []DistinctInv BY DistinctAlways
<1> QED BY <1>1, <1>2, <1>4, <1>5, <1>6, <1>7, <1>8, <1>9, <1>10, PTL DEF Spec
=============================================================================
