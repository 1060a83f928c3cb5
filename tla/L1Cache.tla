------------------------------ MODULE L1Cache -------------------------------
(***************************************************************************)
(* The write-through L1 cache axi4_l1_cache_2, one per port: the           *)
(* read/write state machine, the snoop state machine, the snoop generator, *)
(* and the tag and data RAMs with the latency of their ports.  Every       *)
(* operator ending in Next is the value a register takes on a clock edge.  *)
(*                                                                         *)
(* Left out: ST_FILL_STALL (both kinds of master hold RREADY from the      *)
(* address handshake to the last beat), ST_WR_MISS, ST_UNCACHED_AW/BR/AR   *)
(* (never entered), byte enables (a write stores a whole word), and the    *)
(* contents of a register while nothing looks at it: it then holds a fixed *)
(* value.                                                                  *)
(***************************************************************************)
EXTENDS L1Params

VARIABLES
  rw,         \* rw_state with the registers of the request being served
  line,       \* data_wdata: the words of the line being filled or written
  tagMem,     \* tagMem[c][s][w]: the tag RAM of way w
  dataMem,    \* dataMem[c][s][w]: the line in the data RAM of way w
  tagRd,      \* read_data_a_r of the tag RAMs
  tagWr,      \* write_enable_a_r, address_a_r and write_data_a_r of the tag RAMs
  snoop,      \* snoop_state, snoop_tag_data_address and snoop_tag
  snoopRd,    \* read_data_b_r of the tag RAMs
  snoopWr,    \* write_enable_b_r, address_b_r and write_data_b_r of the tag RAMs
  gen         \* snoop_gen_state and snoop_gen_addr_r

cacheVars == <<rw, line, tagMem, dataMem, tagRd, tagWr, snoop, snoopRd, snoopWr, gen>>

RwState ==
  {"WAIT_REQ", "CHECK_RD_HIT_1", "CHECK_RD_HIT_2", "CHECK_RD_HIT_3", "HIT_READBACK",
   "CHECK_WR_HIT_1", "CHECK_WR_HIT_2", "CHECK_WR_HIT_3", "UNCACHED_RD", "UNCACHED_WR_1",
   "UNCACHED_WR_2", "HIT_WRITEBACK", "WR_ACK", "FILL_AR", "FILL_RDATA",
   "INIT_TAG_1", "INIT_TAG_2"}

SnoopState == {"WAIT_REQ", "CHECK_HIT_1", "CHECK_HIT_2", "CHECK_HIT_3"}

\* A registered write of a tag RAM port: the ways of the set that take the entry.
TagWrite == [set : Set, ways : SUBSET Way, entry : Entry]
NoWrite  == [set |-> 0, ways |-> {}, entry |-> [valid |-> FALSE, tag |-> CHOOSE t \in Tags : TRUE]]

Blank == [w \in Way |-> NoWrite.entry]
ZeroLine == [i \in Word |-> 0]
RwIdle == [state |-> "WAIT_REQ", loc |-> SomeLoc, ok |-> FALSE, count |-> 0, way |-> 0]
SnoopIdle == [state |-> "WAIT_REQ", loc |-> SomeLoc]

CacheTypeOK ==
  /\ rw \in [Port -> [state : RwState, loc : Loc, ok : BOOLEAN, count : 0 .. Words, way : Way]]
  /\ line \in [Port -> [Word -> Val]]
  /\ tagMem \in [Port -> [Set -> [Way -> Entry]]]
  /\ dataMem \in [Port -> [Set -> [Way -> [Word -> Val]]]]
  /\ tagRd \in [Port -> [Way -> Entry]]
  /\ tagWr \in [Port -> TagWrite]
  /\ snoop \in [Port -> [state : SnoopState, loc : Loc]]
  /\ snoopRd \in [Port -> [Way -> Entry]]
  /\ snoopWr \in [Port -> TagWrite]
  /\ gen \in [Port -> [state : {"WAIT_REQ", "WAIT_ACK"}, loc : Loc]]

(***************************************************************************)
(* After reset the tag RAMs hold anything (INITIALIZE_TO_ZERO is 0) and    *)
(* the state machine walks the sets to clear them.  (The same junk in all  *)
(* sets of both caches, to keep the initial states few.)                   *)
(***************************************************************************)
CacheInit ==
  /\ rw = [c \in Port |-> [RwIdle EXCEPT !.state = "INIT_TAG_1", !.loc.set = 0]]
  /\ line = [c \in Port |-> ZeroLine]
  /\ \E junk \in [Way -> Entry] : tagMem = [c \in Port |-> [s \in Set |-> junk]]
  /\ dataMem = [c \in Port |-> [s \in Set |-> [w \in Way |-> ZeroLine]]]
  /\ tagRd = [c \in Port |-> Blank]
  /\ tagWr = [c \in Port |-> NoWrite]
  /\ snoop = [c \in Port |-> SnoopIdle]
  /\ snoopRd = [c \in Port |-> Blank]
  /\ snoopWr = [c \in Port |-> NoWrite]
  /\ gen = [c \in Port |-> SnoopIdle]

-----------------------------------------------------------------------------
(* The combinational outputs.                                              *)

\* Mutant: the comparison loop stops one way short.
HitWaysButLast(c) ==
  {w \in 0 .. Ways - 2 : tagRd[c][w].valid /\ tagRd[c][w].tag = rw[c].loc.tag}

\* hit_w and hit_way: the ways whose tag, as last read, is the request's.
HitWays(c) == {w \in Way : tagRd[c][w].valid /\ tagRd[c][w].tag = rw[c].loc.tag}
Hit(c)     == HitWays(c) # {}
HitWay(c)  == IF Hit(c) THEN CHOOSE w \in HitWays(c) : \A v \in HitWays(c) : v <= w ELSE 0

\* way_sel: the first way that is not valid, else the running counter way_sel_rand.
WaySel(c, rand) ==
  LET free == {w \in Way : ~tagRd[c][w].valid}
  IN  IF free = {} THEN rand ELSE CHOOSE w \in free : \A v \in free : w <= v

\* hit_data: the addressed word of the way that hits now.
HitData(c) == dataMem[c][rw[c].loc.set][HitWay(c)][rw[c].loc.word]

\* Mutant: the comparison loop of the snoop stops one way short.
SnoopHitsButLast(c) ==
  {w \in 0 .. Ways - 2 : snoopRd[c][w].valid /\ snoopRd[c][w].tag = snoop[c].loc.tag}

\* snoop_hit and snoop_hit_way: the first way with the snooped tag.
SnoopHits(c) == {w \in Way : snoopRd[c][w].valid /\ snoopRd[c][w].tag = snoop[c].loc.tag}
SnoopHitWay(c) == CHOOSE w \in SnoopHits(c) : \A v \in SnoopHits(c) : w <= v

\* Mutant: the snoop machine never asks for a stall.
NeverStall(c) == FALSE

\* o_snoop_stall, which holds back the writes of the other port.
SnoopStall(c) == snoop[c].state # "WAIT_REQ"

FillWord(c) == (rw[c].loc.word + rw[c].count) % Words
LastBeat(c) == rw[c].count = Words - 1
-----------------------------------------------------------------------------
(* The read/write state machine.  req is the access on the port; ar, aw,   *)
(* wr, b and rd are the ports whose channel to the CPU transfers, fillAr   *)
(* and beat those whose AR and R channels to the memory do; snooped are    *)
(* the ports that get a snoop pulse, for address snoopAddr.                *)

RwNext(c, req, ar, aw, wr, b, rd, fillAr, beat, snooped, snoopAddr, rand) ==
  LET cur   == rw[c]
      to(s) == [cur EXCEPT !.state = s]
      hitBySnoop(l) == c \in snooped /\ snoopAddr[c].set = l.set
      \* a snoop of the request's set clears tag_valid
      kept(r) == IF hitBySnoop(cur.loc) THEN [r EXCEPT !.ok = FALSE] ELSE r
      start(s, ok) == [RwIdle EXCEPT !.state = s, !.loc = req[c].loc, !.ok = ok]
  IN
  CASE cur.state = "WAIT_REQ" ->
         IF c \in ar
           THEN IF req[c].cached
                  THEN start("CHECK_RD_HIT_1", ~hitBySnoop(req[c].loc))
                  ELSE [RwIdle EXCEPT !.state = "UNCACHED_RD"]
         ELSE IF c \in aw
           THEN IF req[c].cached
                  THEN start("CHECK_WR_HIT_1", FALSE)
                  ELSE [RwIdle EXCEPT !.state = "UNCACHED_WR_1"]
         ELSE RwIdle
    [] cur.state = "CHECK_RD_HIT_1" -> kept(to("CHECK_RD_HIT_2"))
    [] cur.state = "CHECK_RD_HIT_2" -> kept(to("CHECK_RD_HIT_3"))
    [] cur.state = "CHECK_RD_HIT_3" ->
         \* tag_wdata takes tag_valid here: a snoop on this edge or later does not reach it
         IF Hit(c) THEN to("HIT_READBACK") ELSE [cur EXCEPT !.state = "FILL_AR", !.count = 0]
    [] cur.state = "HIT_READBACK" -> IF c \in rd THEN RwIdle ELSE cur
    [] cur.state = "CHECK_WR_HIT_1" -> to("CHECK_WR_HIT_2")
    [] cur.state = "CHECK_WR_HIT_2" -> to("CHECK_WR_HIT_3")
    [] cur.state = "CHECK_WR_HIT_3" ->
         IF Hit(c) THEN [cur EXCEPT !.state = "HIT_WRITEBACK", !.way = HitWay(c)]
         ELSE to("UNCACHED_WR_1")
    [] cur.state = "HIT_WRITEBACK" -> IF c \in wr THEN to("WR_ACK") ELSE cur
    [] cur.state = "WR_ACK" -> IF c \in b THEN RwIdle ELSE cur
    [] cur.state = "UNCACHED_WR_1" -> IF c \in wr THEN to("UNCACHED_WR_2") ELSE cur
    [] cur.state = "UNCACHED_WR_2" -> IF c \in b THEN RwIdle ELSE cur
    [] cur.state = "UNCACHED_RD" -> IF c \in rd THEN RwIdle ELSE cur
    [] cur.state = "FILL_AR" ->
         IF c \in fillAr THEN [cur EXCEPT !.state = "FILL_RDATA", !.way = WaySel(c, rand)] ELSE cur
    [] cur.state = "FILL_RDATA" ->
         IF c \in beat
           THEN [cur EXCEPT !.state = IF LastBeat(c) THEN "WAIT_REQ" ELSE @, !.count = @ + 1]
         ELSE cur
    [] cur.state = "INIT_TAG_1" -> to("INIT_TAG_2")
    [] cur.state = "INIT_TAG_2" ->
         IF cur.loc.set = Sets - 1 THEN RwIdle
         ELSE [cur EXCEPT !.state = "INIT_TAG_1", !.loc.set = @ + 1]

\* data_wdata: a beat of a fill, or the word of a write that hits.
LineNext(c, wr, beat, rdata, wdata) ==
  CASE rw[c].state = "FILL_RDATA" /\ c \in beat -> [line[c] EXCEPT ![FillWord(c)] = rdata]
    [] rw[c].state = "HIT_WRITEBACK" /\ c \in wr -> [line[c] EXCEPT ![rw[c].loc.word] = wdata]
    [] rw[c].state = "WAIT_REQ" -> ZeroLine
    [] OTHER -> line[c]

\* data_wenable_way: the filled line, one edge after its last beat, or the written word.
DataNext(c) ==
  LET at == rw[c] IN
  CASE at.count = Words -> [dataMem[c] EXCEPT ![at.loc.set][at.way] = line[c]]
    [] at.state = "WR_ACK" ->
         [dataMem[c] EXCEPT ![at.loc.set][at.way][at.loc.word] = line[c][at.loc.word]]
    [] OTHER -> dataMem[c]

-----------------------------------------------------------------------------
(* The tag RAM.  A port registers its address and its write, and both take *)
(* effect on the following edge; a read register is loaded one edge after  *)
(* that.  When one port reads the entry the other writes on the same edge, *)
(* the read returns the old or the new entry (early).                      *)

Applied(tags, wr) ==
  [tags EXCEPT ![wr.set] = [w \in Way |-> IF w \in wr.ways THEN wr.entry ELSE @[w]]]

\* Both ports write; their targets never collide (see TagPortsDisjoint).
TagMemNext(c) == Applied(Applied(tagMem[c], tagWr[c]), snoopWr[c])

\* Mutant: the tag is written from the start of the fill.
TagWrNextEarly(c) ==
  CASE rw[c].state = "FILL_RDATA" ->
         [set |-> rw[c].loc.set, ways |-> {rw[c].way},
          entry |-> [valid |-> rw[c].ok, tag |-> rw[c].loc.tag]]
    [] rw[c].state \in {"INIT_TAG_1", "INIT_TAG_2"} ->
         [NoWrite EXCEPT !.set = rw[c].loc.set, !.ways = Way]
    [] OTHER -> NoWrite

\* tag_wenable_way: the last beat's wait of a fill, and the clearing of a set.
TagWrNext(c) ==
  CASE rw[c].state = "FILL_RDATA" /\ LastBeat(c) ->
         [set |-> rw[c].loc.set, ways |-> {rw[c].way},
          entry |-> [valid |-> rw[c].ok, tag |-> rw[c].loc.tag]]
    [] rw[c].state \in {"INIT_TAG_1", "INIT_TAG_2"} ->
         [NoWrite EXCEPT !.set = rw[c].loc.set, !.ways = Way]
    [] OTHER -> NoWrite

\* Port A is looked at in the hit checks, the readback and the choice of a way.
TagRdNext(c, early, nextState) ==
  IF nextState \in {"CHECK_RD_HIT_3", "HIT_READBACK", "CHECK_WR_HIT_3", "FILL_AR"}
    THEN IF early THEN Applied(tagMem[c], snoopWr[c])[rw[c].loc.set] ELSE tagMem[c][rw[c].loc.set]
    ELSE Blank

\* Port B is looked at in SS_CHECK_HIT_3 only.
SnoopRdNext(c, early) ==
  IF snoop[c].state = "CHECK_HIT_2"
    THEN IF early THEN Applied(tagMem[c], tagWr[c])[snoop[c].loc.set] ELSE tagMem[c][snoop[c].loc.set]
    ELSE Blank

\* Mutant: the comparison is taken an edge before the tags are there.
SnoopWrNextEarly(c) ==
  IF snoop[c].state = "CHECK_HIT_2" /\ SnoopHits(c) # {}
    THEN [set |-> snoop[c].loc.set, ways |-> {SnoopHitWay(c)},
          entry |-> [valid |-> FALSE, tag |-> snoop[c].loc.tag]]
    ELSE NoWrite

\* snoop_tag_wenable_way: invalidate the way that holds the snooped line.
SnoopWrNext(c) ==
  IF snoop[c].state = "CHECK_HIT_3" /\ SnoopHits(c) # {}
    THEN [set |-> snoop[c].loc.set, ways |-> {SnoopHitWay(c)},
          entry |-> [valid |-> FALSE, tag |-> snoop[c].loc.tag]]
    ELSE NoWrite

SnoopNext(c, snooped, snoopAddr) ==
  CASE snoop[c].state = "WAIT_REQ" /\ c \in snooped ->
         [state |-> "CHECK_HIT_1", loc |-> snoopAddr[c]]
    [] snoop[c].state = "CHECK_HIT_1" -> [snoop[c] EXCEPT !.state = "CHECK_HIT_2"]
    [] snoop[c].state = "CHECK_HIT_2" -> [snoop[c] EXCEPT !.state = "CHECK_HIT_3"]
    [] snoop[c].state = "CHECK_HIT_3" -> SnoopIdle
    [] OTHER -> snoop[c]

\* The snoop generator latches the address of a write until its response.
GenNext(c, req, aw, b) ==
  CASE gen[c].state = "WAIT_REQ" /\ c \in aw -> [state |-> "WAIT_ACK", loc |-> req[c].loc]
    [] gen[c].state = "WAIT_ACK" /\ c \in b -> SnoopIdle
    [] OTHER -> gen[c]
=============================================================================
