---------------------------- MODULE MCSvfBridge ----------------------------
(***************************************************************************)
(* An instance of SvfBridge for TLC.                                       *)
(***************************************************************************)
EXTENDS SvfBridge

\* Socket x is used both ways, socket y one way.
Exchange == [s \in Side |-> [n \in Names |-> IF n = "x" THEN 2 - s ELSE s]]
=============================================================================
