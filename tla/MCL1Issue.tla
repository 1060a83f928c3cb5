------------------------------ MODULE MCL1Issue ------------------------------
(***************************************************************************)
(* An instance of L1IssueOrder: CPU 0 reads a cached word CPU 1 writes.    *)
(***************************************************************************)
EXTENDS L1IssueOrder, TLC

X == [set |-> 0, tag |-> 1, word |-> 0]
OneWordRequests ==
  (0 :> [op : {"read"}, loc : {X}, cached : {TRUE}])
    @@ (1 :> [op : {"write"}, loc : {X}, cached : {TRUE}])
=============================================================================
