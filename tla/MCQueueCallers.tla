---------------------------- MODULE MCQueueCallers ----------------------------
(***************************************************************************)
(* Instances of QueueCallers for TLC.                                      *)
(***************************************************************************)
EXTENDS QueueCallers

OneWord == {<<7>>}

OneOut == {<<<<>>, <<>>>>, <<<<>>, <<<<7>>>>>>}
=============================================================================
