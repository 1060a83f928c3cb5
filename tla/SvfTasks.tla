------------------------------ MODULE SvfTasks ------------------------------
(***************************************************************************)
(* Tasks on the cooperative scheduler: svf_root::run starts them and waits *)
(* until all objections are dropped; each task raises an objection, runs   *)
(* its body and drops it (svf_task_base::run).  A body is a sequence of    *)
(* calls: put and get of one svf_semaphore, yield, and objections of its   *)
(* own.  A step is one call of the running thread, or the part of it up to *)
(* where the processor is given away.                                      *)
(*                                                                         *)
(* A thread that is swapped out here holds no mutex: uth_cond_wait unlocks *)
(* before it blocks and leaves the mutex unlocked when it returns, so the  *)
(* lock that every call begins with always succeeds, and lock and unlock   *)
(* need no state.                                                          *)
(***************************************************************************)
EXTENDS UthScheduler, Integers

CONSTANTS
  Bodies,  \* what the workers may be given to do: functions from workers to bodies
  MaxPut,  \* bound: the most that one call puts or gets
  Looks    \* bound: how often wait_all_dropped looks for the first objection (100)

Call == [op : {"put", "get"}, n : 0 .. MaxPut] \cup [op : {"yield", "raise", "drop"}]

ASSUME TaskAssumption ==
  MaxPut \in Nat /\ Bodies \subseteq [Workers -> Seq(Call)] /\ Looks \in Nat \ {0}

VARIABLES
  sched,       \* the thread manager
  mainAt,      \* where svf_root::run is
  looks,       \* i of wait_all_dropped
  todo,        \* what each worker has left to call
  inWait,      \* the workers inside the loop of get that have waited
  count,       \* m_count of the semaphore
  semCond,     \* its cond_wait_list, last come first
  objections,  \* m_objections
  objCond      \* its cond_wait_list

mainVars == <<mainAt, looks>>
semVars  == <<count, semCond, inWait>>
objVars  == <<objections, objCond>>
vars     == <<sched, mainVars, todo, semVars, objVars>>

\* The task's objection is raised before its body and dropped behind it.
Program(body) == <<[op |-> "raise"]>> \o body \o <<[op |-> "drop"]>>

TaskInit ==
  /\ sched = SchedulerInit
  /\ mainAt = "start" /\ looks = 0
  /\ todo \in {[t \in Workers |-> Program(b[t])] : b \in Bodies}
  /\ inWait = {} /\ count = 0 /\ semCond = <<>>
  /\ objections = 0 /\ objCond = <<>>

-----------------------------------------------------------------------------
(* Condition variables: uth_cond_wait and uth_cond_broadcast.              *)

CondWait(cond) == <<sched.curr>> \o cond

\* Mutant: the broadcast wakes one thread, as uth_cond_signal does.
WakeOne(q, cond) == IF cond = <<>> THEN q ELSE UnblockThread(q, Head(cond))

WakeAll(q, cond) == FoldLeft(UnblockThread, q, cond)

-----------------------------------------------------------------------------
(* The workers' calls.                                                     *)

me == sched.curr

Calls(op) == me \in Workers /\ todo[me] # <<>> /\ Head(todo[me]).op = op

Return == todo' = [todo EXCEPT ![me] = Tail(@)]

TaskYield ==
  /\ Calls("yield")
  /\ sched' = YieldThread(sched)
  /\ Return
  /\ UNCHANGED <<mainVars, semVars, objVars>>

Put ==
  /\ Calls("put")
  /\ count' = count + Head(todo[me]).n
  /\ sched' = WakeAll(sched, semCond) /\ semCond' = <<>>
  /\ Return
  /\ UNCHANGED <<mainVars, inWait, objVars>>

\* Mutant: get tests its condition once, and not again after it has waited.
GetAfterWait ==
  /\ Calls("get") /\ (count >= Head(todo[me]).n \/ me \in inWait)
  /\ count' = count - Head(todo[me]).n
  /\ inWait' = inWait \ {me}
  /\ Return
  /\ UNCHANGED <<sched, mainVars, semCond, objVars>>

Get ==
  /\ Calls("get") /\ count >= Head(todo[me]).n
  /\ count' = count - Head(todo[me]).n
  /\ inWait' = inWait \ {me}
  /\ Return
  /\ UNCHANGED <<sched, mainVars, semCond, objVars>>

GetWaits ==
  /\ Calls("get") /\ count < Head(todo[me]).n
  /\ semCond' = CondWait(semCond) /\ sched' = BlockThread(sched)
  /\ inWait' = inWait \cup {me}
  /\ UNCHANGED <<mainVars, todo, count, objVars>>

Raise ==
  /\ Calls("raise")
  /\ objections' = objections + 1
  /\ Return
  /\ UNCHANGED <<sched, mainVars, semVars, objCond>>

\* Mutant: drop compares the count it has read before the decrement.
DropOldCount ==
  /\ Calls("drop")
  /\ objections' = IF objections > 0 THEN objections - 1 ELSE 0
  /\ IF objections = 0
     THEN sched' = WakeAll(sched, objCond) /\ objCond' = <<>>
     ELSE UNCHANGED <<sched, objCond>>
  /\ Return
  /\ UNCHANGED <<mainVars, semVars>>

Drop ==
  /\ Calls("drop")
  /\ objections' = IF objections > 0 THEN objections - 1 ELSE 0
  /\ IF objections' = 0
     THEN sched' = WakeAll(sched, objCond) /\ objCond' = <<>>
     ELSE UNCHANGED <<sched, objCond>>
  /\ Return
  /\ UNCHANGED <<mainVars, semVars>>

\* The task's function returns: uth_thread_main_trampoline.
TaskEnd ==
  /\ me \in Workers /\ todo[me] = <<>> /\ me \notin Range(OnList(sched, "terminated"))
  /\ sched' = EndThread(sched)
  /\ UNCHANGED <<mainVars, todo, semVars, objVars>>

-----------------------------------------------------------------------------
(* svf_root::run on the main thread.                                       *)

\* do_start: the components create their threads.
Start ==
  /\ me = main /\ mainAt = "start"
  /\ \E t \in Workers \ Range(OnList(sched, "active")) : sched' = CreateThread(sched, t)
  /\ UNCHANGED <<mainVars, todo, semVars, objVars>>

\* Mutant: wait_all_dropped does not look for the first objection.
WaitAtOnce ==
  /\ me = main /\ mainAt = "start"
  /\ Workers \subseteq Range(OnList(sched, "active"))
  /\ mainAt' = "wait"
  /\ UNCHANGED <<sched, looks, todo, semVars, objVars>>

WaitAllDropped ==
  /\ me = main /\ mainAt = "start"
  /\ Workers \subseteq Range(OnList(sched, "active"))
  /\ mainAt' = "yield"
  /\ UNCHANGED <<sched, looks, todo, semVars, objVars>>

MainYields ==
  /\ me = main /\ mainAt = "yield"
  /\ sched' = YieldThread(sched)
  /\ mainAt' = "look" /\ looks' = looks + 1
  /\ UNCHANGED <<todo, semVars, objVars>>

MainLooks ==
  /\ me = main /\ mainAt = "look"
  /\ mainAt' = IF objections > 0 \/ looks = Looks THEN "wait" ELSE "yield"
  /\ UNCHANGED <<sched, looks, todo, semVars, objVars>>

MainWaits ==
  /\ me = main /\ mainAt = "wait" /\ objections > 0
  /\ objCond' = CondWait(objCond) /\ sched' = BlockThread(sched)
  /\ UNCHANGED <<mainVars, todo, semVars, objections>>

MainShutdown ==
  /\ me = main /\ mainAt = "wait" /\ objections = 0
  /\ mainAt' = "shutdown"
  /\ UNCHANGED <<sched, looks, todo, semVars, objVars>>

-----------------------------------------------------------------------------
Next ==
  \/ Start \/ WaitAllDropped \/ MainYields \/ MainLooks \/ MainWaits \/ MainShutdown
  \/ TaskYield \/ Put \/ Get \/ GetWaits \/ Raise \/ Drop \/ TaskEnd

\* The processor runs.
TaskSpec == TaskInit /\ [][Next]_vars /\ WF_vars(Next)

-----------------------------------------------------------------------------
(* What the code leaves to the tasks: that there is always one to run.     *)

\* The first n numbers of w together.
SumTo(w, n) == LET sum[k \in 0 .. n] == IF k = 0 THEN 0 ELSE sum[k - 1] + w[k] IN sum[n]

\* What a call takes from the semaphore, and from the objections.
TakeOf(call) == IF call.op = "get" THEN call.n ELSE IF call.op = "put" THEN 0 - call.n ELSE 0
DropOf(call) == IF call.op = "drop" THEN 1 ELSE IF call.op = "raise" THEN 0 - 1 ELSE 0

Takes(s) == [i \in 1 .. Len(s) |-> TakeOf(s[i])]
Drops(s) == [i \in 1 .. Len(s) |-> DropOf(s[i])]

\* It drops what it has raised.
Balanced(s) == SumTo(Drops(s), Len(s)) = 0 /\ \A i \in 1 .. Len(s) : SumTo(Drops(s), i) <= 0

\* It objects until its last call.
Objects(s) == \A i \in 1 .. Len(s) - 1 : SumTo(Drops(s), i) < 0

PutsFirst(s) == \A i, j \in 1 .. Len(s) : i < j /\ s[i].op = "get" => s[j].op # "put"

\* The tasks one after the other.
Order(e) ==
  /\ e \in [1 .. Cardinality(Workers) -> Workers]
  /\ \A i, j \in DOMAIN e : e[i] = e[j] => i = j
  /\ \A t \in Workers : \E i \in DOMAIN e : e[i] = t

\* No task waits for itself, and all of them together put what they get.
Sensible(programs) ==
  /\ \A t \in Workers : Balanced(programs[t]) /\ PutsFirst(programs[t])
  /\ \E e \in [1 .. Cardinality(Workers) -> Workers] :
       /\ Order(e)
       /\ SumTo([i \in 1 .. Cardinality(Workers) |->
                  SumTo(Takes(programs[e[i]]), Len(programs[e[i]]))], Cardinality(Workers)) <= 0

Provided == \A b \in Bodies : Sensible([t \in Workers |-> Program(b[t])])

-----------------------------------------------------------------------------
(* Properties.                                                             *)

\* All state is well typed.
TaskTypeOK ==
  /\ sched \in Scheduler
  /\ mainAt \in {"start", "yield", "look", "wait", "shutdown"} /\ looks \in 0 .. Looks
  /\ inWait \subseteq Workers /\ count \in Nat /\ objections \in Nat
  /\ semCond \in Seq(Workers) /\ objCond \in Seq({main})

\* A thread is running, or on exactly one list and there once, and the lists' two links
\* agree as far as an unlink relies on them: on the blocked list
\* (uth_coop_thread_mgr.cpp:212-242).
ListsSound ==
  LET active  == OnList(sched, "active")
      blocked == OnList(sched, "blocked")
      ended   == OnList(sched, "terminated")
      all     == active \o blocked \o ended
  IN  /\ Cardinality(Range(all)) = Len(all)
      /\ sched.curr \in Range(all) => sched.curr \in Range(ended)
      /\ \A i \in DOMAIN blocked :
           sched.prev[blocked[i]] = IF i = 1 THEN null ELSE blocked[i - 1]
      /\ Range(blocked) = Range(semCond \o objCond)

Rotation ==
  INSTANCE RoundRobin WITH
    running <- sched.curr, ready <- OnList(sched, "active"),
    asleep  <- Range(OnList(sched, "blocked")), ended <- Range(OnList(sched, "terminated"))

\* The linked lists behave as a queue of ready threads: first come, first run, nobody
\* lost and nobody run while asleep or ended (uth_coop_thread_mgr.cpp:72-154).
RunsInTurn == Rotation!Spec

Sem ==
  INSTANCE Semaphore WITH
    Clients <- Workers,
    wants <- [t \in Workers |-> IF t \in inWait THEN Head(todo[t]).n ELSE 0]

\* Semaphores count: what is got has been put, and a waiting get that the count can
\* serve is served, whoever is woken first (svf_semaphore.cpp:16-37).
SemaphoreServes == Sem!Spec

\* When wait_all_dropped returns, every task has run to its last drop
\* (svf_objection.cpp:46-61, svf_task_base.cpp:25-32).
WorkDone == mainAt = "shutdown" => \A t \in Workers : todo[t] = <<>>

\* And it returns: no wake-up of the main thread is lost between the last drop and its
\* wait (svf_objection.cpp:38-41, 56-59).
RunReturns == <>(mainAt = "shutdown")
=============================================================================
