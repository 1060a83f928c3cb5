--------------------------- MODULE MCUthSenders ---------------------------
(***************************************************************************)
(* An instance of UthSenders for TLC.                                      *)
(***************************************************************************)
EXTENDS UthSenders

\* One that fits and one longer than a ring of four.
Two == {<<7>>, <<2, 9, 8, 7>>}

ThreeOut == {<<>>} \X UNION {[1 .. k -> Two] : k \in 0 .. 3}
=============================================================================
