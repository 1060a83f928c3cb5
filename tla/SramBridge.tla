----------------------------- MODULE SramBridge -----------------------------
(***************************************************************************)
(* The memory: axi4_generic_byte_en_sram_bridge and the RAM behind it.     *)
(* sram_owner_r/w let one transaction in at a time, so its read and write  *)
(* machines are one: "R1".."R4" are read_state 1..4, "W1" and "W2" are     *)
(* write_state 1 and 2.  Exclusive accesses are outside this module.       *)
(***************************************************************************)
EXTENDS L1Params

VARIABLES
  bridge,  \* the transaction in progress: state, its port, its next word, beats left
  mem      \* mem[l]: the last write to l

bridgeVars == <<bridge, mem>>

BridgeState == {"idle", "R1", "R2", "R3", "R4", "W1", "W2"}

BridgeTypeOK ==
  /\ bridge \in [state : BridgeState, port : Port, loc : Loc, left : Word]
  /\ mem \in [Loc -> Val]

BridgeIdle == [state |-> "idle", port |-> 0, loc |-> SomeLoc, left |-> 0]

BridgeInit ==
  /\ bridge = BridgeIdle
  /\ mem = [l \in Loc |-> 0]

\* sram_owner_nxt: a free bridge takes a read before a write.
ARREADY == bridge.state = "idle"
AWREADY(arvalid) == bridge.state = "idle" /\ ~arvalid
WREADY == bridge.state = "W1"
RVALID == bridge.state = "R3"
BVALID == bridge.state = "W2"
RLAST  == bridge.left = 0
RDATA  == mem[bridge.loc]

\* Mutant: the burst does not wrap.
NextWordNoWrap(l) == [l EXCEPT !.word = @ + 1]

\* The next beat of a wrapping burst.
NextWord(l) == [l EXCEPT !.word = (@ + 1) % Words]

(***************************************************************************)
(* One clock edge.  ar and aw are the ports whose address is accepted (at  *)
(* most one of the two sets is not empty, and it is a singleton), with the *)
(* address and length they ask for; rd, wr and b the ports whose beat is.  *)
(***************************************************************************)
BridgeNext(ar, rd, aw, wr, b, addr, len) ==
  LET to(s) == [bridge EXCEPT !.state = s] IN
  CASE ar # {} ->
         LET c == CHOOSE p \in ar : TRUE
         IN  [state |-> "R1", port |-> c, loc |-> addr[c], left |-> len[c]]
    [] ar = {} /\ aw # {} ->
         LET c == CHOOSE p \in aw : TRUE
         IN  [state |-> "W1", port |-> c, loc |-> addr[c], left |-> 0]
    [] bridge.state = "R1" -> to("R2")
    [] bridge.state = "R2" -> to("R3")
    [] bridge.state = "R3" /\ rd # {} ->
         IF RLAST THEN BridgeIdle
         ELSE [bridge EXCEPT !.state = "R4", !.loc = NextWord(@), !.left = @ - 1]
    [] bridge.state = "R4" -> to("R2")
    [] bridge.state = "W1" /\ wr # {} -> to("W2")
    [] bridge.state = "W2" /\ b # {}  -> BridgeIdle
    [] OTHER -> bridge

\* The RAM takes the beat that wr transfers.
MemNext(wr, value) == IF wr # {} THEN [mem EXCEPT ![bridge.loc] = value] ELSE mem
=============================================================================
