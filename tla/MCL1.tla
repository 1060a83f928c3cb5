-------------------------------- MODULE MCL1 --------------------------------
(***************************************************************************)
(* Instances of L1Interconnect for TLC.                                    *)
(***************************************************************************)
EXTENDS L1Interconnect, TLC

Cell(s, t, i) == [set |-> s, tag |-> t, word |-> i]
Access(ops, locs, cached) == [op : ops, loc : locs, cached : {cached}]
ReadWrite == {"read", "write"}

\* Two cached words in two sets, and a word outside the cacheable area (a lock, say).
X == Cell(0, 1, 0)
Y == Cell(1, 1, 0)
L == Cell(0, 2, 0)

\* Two cached words, with the programs of message passing and store buffering among
\* those the two CPUs may run.
PlainRequests ==
  (0 :> Access({"write"}, {X}, TRUE) \cup Access(ReadWrite, {Y}, TRUE))
    @@ (1 :> Access({"read"}, {X}, TRUE) \cup Access(ReadWrite, {Y}, TRUE))

\* A cached word guarded by an uncached one, as a lock or a mailbox is.
FlagRequests ==
  (0 :> Access(ReadWrite, {X}, TRUE) \cup Access(ReadWrite, {L}, FALSE))
    @@ (1 :> Access(ReadWrite, {X}, TRUE) \cup Access(ReadWrite, {L}, FALSE))

\* Three lines for two ways: CPU 0 reads them and writes one, CPU 1 writes two.
AliasRequests ==
  (0 :> Access(ReadWrite, {X}, TRUE) \cup Access({"read"}, {Cell(0, 2, 0), Cell(0, 3, 1)}, TRUE))
    @@ (1 :> Access({"write"}, {X, Cell(0, 2, 0)}, TRUE) \cup Access({"read"}, {X}, TRUE))

\* The lines of the wrong-way reading: CPU 0 reads two lines, CPU 1 writes them.
WrongWayRequests ==
  (0 :> Access({"read"}, {X, Cell(0, 2, 0)}, TRUE))
    @@ (1 :> Access({"write"}, {X, Cell(0, 2, 0)}, TRUE))
=============================================================================
