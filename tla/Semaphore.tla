------------------------------ MODULE Semaphore -----------------------------
(***************************************************************************)
(* What a counting semaphore promises (svf_semaphore): get takes its       *)
(* number once the count has it, and a get that can be served is.          *)
(***************************************************************************)
EXTENDS Naturals

CONSTANTS Clients, MaxPut

VARIABLES
  count,
  wants   \* what each client's get has asked for and not been given

vars == <<count, wants>>

Init == count = 0 /\ wants = [c \in Clients |-> 0]

Put == \E n \in 1 .. MaxPut : count' = count + n /\ UNCHANGED wants

\* A get that is served at once, and one that has to wait.
Get == \E n \in 1 .. MaxPut : n <= count /\ count' = count - n /\ UNCHANGED wants

Ask(c) ==
  /\ wants[c] = 0
  /\ \E n \in 1 .. MaxPut : n > count /\ wants' = [wants EXCEPT ![c] = n]
  /\ UNCHANGED count

Serve(c) ==
  /\ wants[c] # 0 /\ wants[c] <= count
  /\ count' = count - wants[c]
  /\ wants' = [wants EXCEPT ![c] = 0]

Next == Put \/ Get \/ \E c \in Clients : Ask(c) \/ Serve(c)

Spec == Init /\ [][Next]_vars /\ \A c \in Clients : WF_vars(Serve(c))
=============================================================================
