---------------------------- MODULE UthScheduler ----------------------------
(***************************************************************************)
(* The cooperative thread manager of uth (uth_coop_thread_mgr): one thread *)
(* runs until it gives the processor away, the others are on one of three  *)
(* linked lists.  A scheduler is a record q: the running thread, the heads *)
(* of the lists, and the two links of each thread; the operators are the   *)
(* manager's calls.                                                        *)
(***************************************************************************)
EXTENDS Naturals, FiniteSets, SequencesExt

CONSTANTS
  Workers,  \* the threads that are created
  main,     \* the thread that is there from the start
  null

ASSUME ThreadAssumption ==
  main \notin Workers /\ null \notin Workers \cup {main} /\ IsFiniteSet(Workers)

Threads == Workers \cup {main}
Link    == Threads \cup {null}
Lists   == {"active", "blocked", "terminated"}

Scheduler ==
  [curr : Threads, active : Link, blocked : Link, terminated : Link,
   next : [Threads -> Link], prev : [Threads -> Link]]

SchedulerInit ==
  [curr |-> main, active |-> null, blocked |-> null, terminated |-> null,
   next |-> [t \in Threads |-> null], prev |-> [t \in Threads |-> null]]

\* Mutant: the appended thread keeps the link it had on its last list.
AppendKeepsLink(q, list, t) ==
  LET end[u \in Threads] == IF q.next[u] = null THEN u ELSE end[q.next[u]]
      last == end[q[list]]
  IN  IF q[list] = null
      THEN [q EXCEPT !.prev[t] = null, ![list] = t]
      ELSE [q EXCEPT !.next[last] = t, !.prev[t] = last]

\* append_thread walks to the end of the list.
AppendThread(q, list, t) ==
  LET cut == [q.next EXCEPT ![t] = null]
      end[u \in Threads] == IF cut[u] = null THEN u ELSE end[cut[u]]
      last == end[q[list]]
  IN  IF q[list] = null
      THEN [q EXCEPT !.next = cut, !.prev[t] = null, ![list] = t]
      ELSE [q EXCEPT !.next = [cut EXCEPT ![last] = t], !.prev[t] = last]

\* Mutant: a thread in the middle is taken off in one direction only.
UnlinkOneWay(q, list, t) ==
  LET p == q.prev[t]
      n == q.next[t]
  IN  [q EXCEPT !.next = IF p # null THEN [@ EXCEPT ![p] = n] ELSE @,
                ![list] = IF @ = t THEN n ELSE @]

UnlinkThread(q, list, t) ==
  LET p == q.prev[t]
      n == q.next[t]
  IN  [q EXCEPT !.next = IF p # null THEN [@ EXCEPT ![p] = n] ELSE @,
                !.prev = IF n # null THEN [@ EXCEPT ![n] = p] ELSE @,
                ![list] = IF @ = t THEN n ELSE @]

\* next_thread takes the head; the new head still points back to it.
\* If there is none, the caller runs on.
Switch(q) ==
  IF q.active = null THEN q
  ELSE [q EXCEPT !.curr = q.active, !.active = q.next[q.active]]

\* yield: next_thread, then the caller to the end of the list.
YieldThread(q) ==
  IF q.active = null THEN q ELSE AppendThread(Switch(q), "active", q.curr)

\* block_thread of the running thread.
BlockThread(q) == Switch(AppendThread(q, "blocked", q.curr))

UnblockThread(q, t) == AppendThread(UnlinkThread(q, "blocked", t), "active", t)

CreateThread(q, t) == AppendThread(q, "active", t)

\* thread_end: the running thread is never appended to the active list again.
EndThread(q) == Switch(AppendThread(q, "terminated", q.curr))

-----------------------------------------------------------------------------
(* What the lists hold.                                                    *)

\* The threads on a list, first to last; no further than there are threads.
OnList(q, list) ==
  LET walk[n \in 0 .. Cardinality(Threads)] ==
        IF n = 0 THEN <<>>
        ELSE LET before == walk[n - 1]
                 link   == IF before = <<>> THEN q[list] ELSE q.next[Last(before)]
             IN  IF link = null THEN before ELSE Append(before, link)
  IN  walk[Cardinality(Threads)]
=============================================================================
