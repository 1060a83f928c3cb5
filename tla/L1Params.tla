------------------------------ MODULE L1Params ------------------------------
(***************************************************************************)
(* The dimensions of the two-processor cached memory of socblox: two CPU   *)
(* ports, each behind a write-through L1 cache (axi4_l1_cache_2), an       *)
(* interconnect (axi4_l1_interconnect_2) and one SRAM bridge.              *)
(*                                                                         *)
(* An address is what the cache makes of it: a set (the line index), a     *)
(* tag, and a word of the line.  A value is the number of the write that   *)
(* stored it, 0 for the initial contents; so a value names its write.      *)
(***************************************************************************)
EXTENDS Naturals, FiniteSets, Sequences

CONSTANTS
  Sets,      \* lines per way (256 in the source)
  Ways,      \* CACHE_WAYS (4 in the source)
  Words,     \* CACHE_WORDS_PER_LINE (4 in the source)
  Tags,      \* the tags the programs use
  Requests,  \* Requests[c]: the accesses the program of CPU c may make
  MaxWrites  \* bound: how many writes a behaviour makes

Port == {0, 1}
Other(c) == 1 - c

Set  == 0 .. Sets - 1
Way  == 0 .. Ways - 1
Word == 0 .. Words - 1

Loc  == [set : Set, tag : Tags, word : Word]
Val  == 0 .. MaxWrites

(***************************************************************************)
(* What a CPU asks of its port: cached is AxCACHE[1], false for exclusive  *)
(* accesses and outside the cacheable area.                                *)
(***************************************************************************)
Request == [op : {"read", "write"}, loc : Loc, cached : BOOLEAN]

ASSUME DimensionAssumption ==
  /\ Sets \in Nat \ {0}
  /\ Ways \in Nat \ {0}
  /\ Words \in Nat \ {0, 1}
  /\ MaxWrites \in Nat

ASSUME RequestAssumption ==
  /\ Tags # {}
  /\ Requests \in [Port -> SUBSET Request]

\* An entry of the tag RAM.
Entry == [valid : BOOLEAN, tag : Tags]

\* What an address register holds when nothing looks at it.
SomeLoc == CHOOSE l \in Loc : TRUE
=============================================================================
