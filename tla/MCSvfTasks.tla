----------------------------- MODULE MCSvfTasks -----------------------------
(***************************************************************************)
(* Instances of SvfTasks for TLC.                                          *)
(***************************************************************************)
EXTENDS SvfTasks

put(k) == [op |-> "put", n |-> k]
get(k) == [op |-> "get", n |-> k]
do(name) == [op |-> name]

\* What a task may do: supply, take, both, and give way or object again in between.
\* Every put comes before the first get, so no task waits for itself.
Scripts ==
  { <<put(1)>>, <<put(2), do("yield"), put(1)>>, <<do("yield"), put(1), get(2)>>,
    <<get(1)>>, <<get(2)>>, <<get(1), get(1)>>,
    <<do("drop"), do("yield"), do("raise"), do("yield")>> }

Total(op, script) ==
  FoldLeft(LAMBDA sum, call : sum + (IF call.op = op THEN call.n ELSE 0), 0, script)

SumOf(op, b) == FoldFunction(LAMBDA s, sum : sum + Total(op, s), 0, b)

\* As much is put as is got.
EnoughForAll == {b \in [Workers -> Scripts] : SumOf("put", b) >= SumOf("get", b)}

\* What the theorems ask of the programs.
ASSUME ProgramAssumption == Provided
=============================================================================
