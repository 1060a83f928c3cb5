------------------------------- MODULE MCQueue -------------------------------
(***************************************************************************)
(* Instances of MessageQueue for TLC.                                      *)
(***************************************************************************)
EXTENDS MessageQueue

\* An empty message, one that fits with its size word, one longer than a ring of four.
ShortAndLong == {<<>>, <<7>>, <<2, 9, 8, 7>>}

\* One that fits and one that does not.
Two == {<<7>>, <<2, 9, 8>>}

AllMessages == ShortAndLong \cup Two

UpTo(S, n) == UNION {[1 .. k -> S] : k \in 0 .. n}

\* Three messages in one direction, or two towards the processor and one from it.
ShortExchanges ==
  (UpTo(ShortAndLong, 3) \X {<<>>}) \cup ({<<>>} \X UpTo(ShortAndLong, 3))
    \cup (UpTo(Two, 2) \X UpTo(Two, 1))
=============================================================================
