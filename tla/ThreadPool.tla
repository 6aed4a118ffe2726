------------------------------ MODULE ThreadPool ------------------------------
(***************************************************************************)
(* ztl_threadpool.c: a fixed number of worker threads take tasks from one  *)
(* list under one mutex and sleep on one condition variable when it is     *)
(* empty.  Task nodes are recycled through a lock-free queue (idle_tasks). *)
(*                                                                         *)
(* A critical section is one step: nothing it writes is read outside the   *)
(* mutex but taskn, which it changes once.  What the code does outside the *)
(* mutex is separate steps: the tests of stop and of taskn, _new_task,     *)
(* _release_task, and the signals of ztl_thrpool_stop.                     *)
(*                                                                         *)
(* idle_tasks hands out a node to one caller by its compare-and-swap       *)
(* (LFQueue says when lockfreequeue.c does), and may say it is empty, or   *)
(* full, when it is not.  lfqueue_pop writes its result before that        *)
(* compare-and-swap, and _new_task looks at the result only: a caller that *)
(* lost the race and then found no other node uses the winner's.  From     *)
(* there on two threads write one task, and nothing more is modelled.      *)
(***************************************************************************)
EXTENDS Integers, Sequences, FiniteSets

CONSTANTS Workers,      \* the threads ztl_thrpool_start makes; thrnum of them
          Dispatchers,  \* threads that dispatch and remove tasks
          Control,      \* the thread that starts, stops, joins and releases
          Funcs,        \* task functions
          MaxSize,      \* max_queue_size
          MaxJob        \* bound: dispatches that pass the test for a full queue

ASSUME ControlAssumption == Control \notin Dispatchers
ASSUME MaxSizeAssumption == MaxSize \in Nat \ {0}
ASSUME MaxJobAssumption == MaxJob \in Nat
ASSUME FiniteAssumption == IsFiniteSet(Workers) /\ IsFiniteSet(Dispatchers)

Callers == Dispatchers \cup {Control}

\* Enough nodes for every dispatch, those of ztl_thrpool_stop included.
Node == 1 .. MaxJob + Cardinality(Workers)
NoNode == 0

\* _empty_dispatch_fn, of the tasks ztl_thrpool_stop dispatches: no job.
Empty == "empty"
Task == [job : 0 .. MaxJob, func : Funcs \cup {Empty}]
EmptyTask == [job |-> 0, func |-> Empty]

VARIABLES list, taskn, stop, activenum,
          joined,        \* ztl_thrpool_join returned 0 after ztl_thrpool_stop
          freed,
          idle,          \* idle_tasks: free nodes, oldest first
          fresh,         \* the next node ztl_palloc hands out
          mem,           \* what each node holds
          copy,          \* of each caller: the node lfqueue_pop has copied out
          lost,          \* the callers whose compare-and-swap will fail
          stale,         \* a caller uses a node that it copied and lost
          wpc, wtask,    \* of each worker: where it is, the node it took
          pc, task, node, prio,  \* of each caller: what it dispatches, and how
          stopn,         \* n of ztl_thrpool_stop
          jobs,
          runs,          \* how often each job ran
          removed        \* jobs removed before they ran

pool    == <<list, taskn, stop, activenum, joined, freed>>
nodes   == <<idle, fresh, mem>>
worker  == <<wpc, wtask>>
caller  == <<pc, task, node, prio>>
popping == <<copy, lost, stale>>
history == <<runs, removed>>
vars == <<list, taskn, stop, activenum, joined, freed, idle, fresh, mem, copy, lost, stale,
          wpc, wtask, pc, task, node, prio, stopn, jobs, runs,
          removed>>

-----------------------------------------------------------------------------
Init ==
    /\ list = <<>>
    /\ taskn = 0
    /\ stop = FALSE
    /\ activenum = 0
    /\ joined = FALSE
    /\ freed = FALSE
    /\ idle = <<>>
    /\ fresh = 1
    /\ mem = [n \in Node |-> EmptyTask]
    /\ copy = [t \in Callers |-> NoNode]
    /\ lost = {}
    /\ stale = FALSE
    /\ wpc = [w \in Workers |-> "none"]
    /\ wtask = [w \in Workers |-> NoNode]
    /\ pc = [t \in Callers |-> "idle"]
    /\ task = [t \in Callers |-> EmptyTask]
    /\ node = [t \in Callers |-> NoNode]
    /\ prio = [t \in Callers |-> FALSE]
    /\ stopn = 0
    /\ jobs = 0
    /\ runs = [j \in 1 .. MaxJob |-> 0]
    /\ removed = {}

Goto(t, label) == pc' = [pc EXCEPT ![t] = label]

\* Nothing is modelled of what a worker does to a pool that has been freed.
At(w, labels) == ~freed /\ wpc[w] \in labels
WorkerGoto(w, label) == wpc' = [wpc EXCEPT ![w] = label]

Asleep == {w \in Workers : wpc[w] = "asleep"}

\* ztl_thread_cond_signal wakes a sleeper, if there is one.
Signal ==
    IF Asleep = {} THEN UNCHANGED wpc
    ELSE \E w \in Asleep : WorkerGoto(w, "woken")

(* _thrpool_worker_thread *)

WorkerActivate(w) ==
    /\ At(w, {"spawned"})
    /\ activenum' = activenum + 1
    /\ WorkerGoto(w, "loop")
    /\ UNCHANGED <<list, taskn, stop, joined, freed, nodes, popping, wtask, caller, stopn, jobs, history>>

WorkerCheck(w) ==
    /\ At(w, {"loop"})
    /\ ~stop
    /\ WorkerGoto(w, "get")
    /\ UNCHANGED <<pool, nodes, popping, wtask, caller, stopn, jobs, history>>

WorkerExit(w) ==
    /\ At(w, {"loop"})
    /\ stop
    /\ activenum' = activenum - 1
    /\ WorkerGoto(w, "gone")
    /\ UNCHANGED <<list, taskn, stop, joined, freed, nodes, popping, wtask, caller, stopn, jobs, history>>

\* _get_head_task, with the mutex.
WorkerTake(w) ==
    /\ At(w, {"get", "woken"})
    /\ list # <<>>
    /\ wtask' = [wtask EXCEPT ![w] = Head(list)]
    /\ list' = Tail(list)
    /\ taskn' = taskn - 1
    /\ WorkerGoto(w, "run")
    /\ UNCHANGED <<stop, activenum, joined, freed, nodes, popping, caller, stopn, jobs, history>>

WorkerSleep(w) ==
    /\ At(w, {"get"})
    /\ list = <<>>
    /\ WorkerGoto(w, "asleep")
    /\ UNCHANGED <<pool, nodes, popping, wtask, caller, stopn, jobs, history>>

\* Variant: a wakeup that finds nothing ends the thread.
WorkerNothing_Leaves(w) ==
    /\ At(w, {"woken"})
    /\ list = <<>>
    /\ WorkerGoto(w, "gone")
    /\ UNCHANGED <<pool, nodes, popping, wtask, caller, stopn, jobs, history>>

\* _get_task waits once: a wakeup that finds nothing returns NULL.
WorkerNothing(w) ==
    /\ At(w, {"woken"})
    /\ list = <<>>
    /\ WorkerGoto(w, "loop")
    /\ UNCHANGED <<pool, nodes, popping, wtask, caller, stopn, jobs, history>>

\* pthread_cond_wait may return without a signal.
WorkerSpurious(w) ==
    /\ At(w, {"asleep"})
    /\ WorkerGoto(w, "woken")
    /\ UNCHANGED <<pool, nodes, popping, wtask, caller, stopn, jobs, history>>

RunOf(n) ==
    runs' = IF mem[n].job = 0 THEN runs ELSE [runs EXCEPT ![mem[n].job] = @ + 1]

WorkerRun(w) ==
    /\ At(w, {"run"})
    /\ RunOf(wtask[w])
    /\ WorkerGoto(w, "release")
    /\ UNCHANGED <<pool, nodes, popping, wtask, caller, stopn, jobs, removed>>

\* _release_task: idle_tasks holds MaxSize - 1 nodes, one more is dropped.
PutBack(n) ==
    /\ \/ Len(idle) < MaxSize - 1 /\ idle' = Append(idle, n)
       \/ UNCHANGED idle
    /\ UNCHANGED <<fresh, mem>>

WorkerRelease(w) ==
    /\ At(w, {"release"})
    /\ PutBack(wtask[w])
    /\ wtask' = [wtask EXCEPT ![w] = NoNode]
    /\ WorkerGoto(w, "loop")
    /\ UNCHANGED <<popping, pool, caller, stopn, jobs, history>>

(* ztl_thrpool_dispatch, ztl_thrpool_dispatch_priority *)

\* The test of taskn, without the mutex; ZTL_ERR_QueueFull changes nothing.
DispatchCall(d) ==
    /\ pc[d] = "idle" /\ ~freed
    /\ jobs < MaxJob
    /\ taskn < MaxSize
    /\ jobs' = jobs + 1
    /\ \E f \in Funcs : task' = [task EXCEPT ![d] = [job |-> jobs + 1, func |-> f]]
    /\ \E b \in BOOLEAN : prio' = [prio EXCEPT ![d] = b]
    /\ Goto(d, "new")
    /\ UNCHANGED <<pool, nodes, popping, worker, node, stopn, history>>

\* lfqueue_pop copies the oldest node out before its compare-and-swap; one that
\* has lost the race tries again.
CopyIdle(t) ==
    /\ pc[t] = "new"
    /\ copy[t] = NoNode \/ t \in lost
    /\ idle # <<>>
    /\ copy' = [copy EXCEPT ![t] = Head(idle)]
    /\ lost' = lost \ {t}
    /\ UNCHANGED <<pool, nodes, stale, worker, caller, stopn, jobs, history>>

\* Variant: a recycled node stays in idle_tasks.
NewTask_Peek(t) ==
    /\ pc[t] = "new"
    /\ \/ /\ idle # <<>> /\ copy[t] = Head(idle)
          /\ node' = [node EXCEPT ![t] = Head(idle)]
          /\ mem' = [mem EXCEPT ![Head(idle)] = task[t]]
          /\ UNCHANGED <<idle, fresh>>
       \/ /\ fresh \in Node /\ copy[t] = NoNode
          /\ node' = [node EXCEPT ![t] = fresh]
          /\ fresh' = fresh + 1
          /\ mem' = [mem EXCEPT ![fresh] = task[t]]
          /\ UNCHANGED idle
    /\ copy' = [copy EXCEPT ![t] = NoNode]
    /\ task' = [task EXCEPT ![t] = EmptyTask]
    /\ Goto(t, "append")
    /\ UNCHANGED <<pool, lost, stale, worker, prio, stopn, jobs, history>>

\* _new_task: a recycled node, whose compare-and-swap wins, or one from the pool.
NewTask(t) ==
    /\ pc[t] = "new"
    /\ \/ /\ idle # <<>> /\ copy[t] = Head(idle) /\ t \notin lost
          /\ node' = [node EXCEPT ![t] = Head(idle)]
          /\ idle' = Tail(idle)
          /\ mem' = [mem EXCEPT ![Head(idle)] = task[t]]
          /\ lost' = lost \cup {u \in Callers \ {t} : copy[u] # NoNode}
          /\ UNCHANGED fresh
       \/ /\ fresh \in Node /\ copy[t] = NoNode
          /\ node' = [node EXCEPT ![t] = fresh]
          /\ fresh' = fresh + 1
          /\ mem' = [mem EXCEPT ![fresh] = task[t]]
          /\ UNCHANGED <<idle, lost>>
    /\ copy' = [copy EXCEPT ![t] = NoNode]
    /\ task' = [task EXCEPT ![t] = EmptyTask]
    /\ Goto(t, "append")
    /\ UNCHANGED <<pool, stale, worker, prio, stopn, jobs, history>>

\* The compare-and-swap has failed and the queue is then found empty: lfqueue_pop
\* returns -1, but the task is not NULL, and _new_task tests only for that.
UseLost(t) ==
    /\ pc[t] = "new"
    /\ copy[t] # NoNode /\ t \in lost
    /\ node' = [node EXCEPT ![t] = copy[t]]
    /\ mem' = [mem EXCEPT ![copy[t]] = task[t]]
    /\ stale' = TRUE
    /\ copy' = [copy EXCEPT ![t] = NoNode]
    /\ lost' = lost \ {t}
    /\ task' = [task EXCEPT ![t] = EmptyTask]
    /\ Goto(t, "append")
    /\ UNCHANGED <<pool, idle, fresh, worker, prio, stopn, jobs, history>>

\* Variant: the new count is compared in place of the old one.
AppendTask_SecondSignals(t) ==
    /\ pc[t] = "append"
    /\ list' = IF prio[t] THEN <<node[t]>> \o list ELSE Append(list, node[t])
    /\ taskn' = taskn + 1
    /\ IF taskn = 1 THEN Signal ELSE UNCHANGED wpc
    /\ node' = [node EXCEPT ![t] = NoNode]
    /\ prio' = [prio EXCEPT ![t] = FALSE]
    /\ Goto(t, IF t = Control THEN "stop_signal" ELSE "idle")
    /\ UNCHANGED <<stop, activenum, joined, freed, nodes, popping, wtask, task, stopn, jobs, history>>

\* _append_task, the count and the signal, with the mutex.
AppendTask(t) ==
    /\ pc[t] = "append"
    /\ list' = IF prio[t] THEN <<node[t]>> \o list ELSE Append(list, node[t])
    /\ taskn' = taskn + 1
    /\ IF taskn = 0 THEN Signal ELSE UNCHANGED wpc
    /\ node' = [node EXCEPT ![t] = NoNode]
    /\ prio' = [prio EXCEPT ![t] = FALSE]
    /\ Goto(t, IF t = Control THEN "stop_signal" ELSE "idle")
    /\ UNCHANGED <<stop, activenum, joined, freed, nodes, popping, wtask, task, stopn, jobs, history>>

(* ztl_thrpool_remove: the first match behind the head *)

\* Variant: the count is not decremented.
RemoveTask_NoCount(d) ==
    /\ pc[d] = "idle" /\ ~freed
    /\ \E f \in Funcs, i \in 2 .. Len(list) :
         /\ mem[list[i]].func = f
         /\ \A k \in 2 .. i - 1 : mem[list[k]].func # f
         /\ list' = SubSeq(list, 1, i - 1) \o SubSeq(list, i + 1, Len(list))
         /\ node' = [node EXCEPT ![d] = list[i]]
         /\ removed' = removed \cup {mem[list[i]].job}
    /\ Goto(d, "removed")
    /\ UNCHANGED <<taskn, stop, activenum, joined, freed, nodes, popping, worker, task, prio, stopn, jobs, runs>>

\* Variant: the node is released but stays linked.
RemoveTask_NoUnlink(d) ==
    /\ pc[d] = "idle" /\ ~freed
    /\ \E f \in Funcs, i \in 2 .. Len(list) :
         /\ mem[list[i]].func = f
         /\ \A k \in 2 .. i - 1 : mem[list[k]].func # f
         /\ node' = [node EXCEPT ![d] = list[i]]
         /\ removed' = removed \cup {mem[list[i]].job}
    /\ taskn' = taskn - 1
    /\ Goto(d, "removed")
    /\ UNCHANGED <<list, stop, activenum, joined, freed, nodes, popping, worker, task, prio, stopn, jobs, runs>>

RemoveTask(d) ==
    /\ pc[d] = "idle" /\ ~freed
    /\ \E f \in Funcs, i \in 2 .. Len(list) :
         /\ mem[list[i]].func = f
         /\ \A k \in 2 .. i - 1 : mem[list[k]].func # f
         /\ list' = SubSeq(list, 1, i - 1) \o SubSeq(list, i + 1, Len(list))
         /\ node' = [node EXCEPT ![d] = list[i]]
         /\ removed' = removed \cup {mem[list[i]].job}
    /\ taskn' = taskn - 1
    /\ Goto(d, "removed")
    /\ UNCHANGED <<stop, activenum, joined, freed, nodes, popping, worker, task, prio, stopn, jobs, runs>>

RemoveRelease(d) ==
    /\ pc[d] = "removed"
    /\ PutBack(node[d])
    /\ node' = [node EXCEPT ![d] = NoNode]
    /\ Goto(d, "idle")
    /\ UNCHANGED <<popping, pool, worker, task, prio, stopn, jobs, history>>

(* ztl_thrpool_start, _stop, _join, _release *)

\* The loop ends at the first thread that cannot be made; the result is 0.
Start ==
    /\ pc[Control] = "idle" /\ ~freed
    /\ \A w \in Workers : wpc[w] = "none"
    /\ \E made \in SUBSET Workers :
         wpc' = [w \in Workers |-> IF w \in made THEN "spawned" ELSE "none"]
    /\ UNCHANGED <<pool, nodes, popping, wtask, caller, stopn, jobs, history>>

StopCall ==
    /\ pc[Control] = "idle"
    /\ ~stop
    /\ stop' = TRUE
    /\ stopn' = 0
    /\ Goto(Control, "stop_test")
    /\ UNCHANGED <<list, taskn, activenum, joined, freed, nodes, popping, worker, task, node, prio, jobs, history>>

\* Variant: the list is not tested for its size.
StopTest_Always ==
    /\ pc[Control] = "stop_test"
    /\ Goto(Control, "new")
    /\ UNCHANGED <<pool, nodes, popping, worker, task, node, prio, stopn, jobs, history>>

\* Variant: the sleepers are signalled, no empty task is dispatched.
StopTest_NoDispatch ==
    /\ pc[Control] = "stop_test"
    /\ Goto(Control, "stop_signal")
    /\ UNCHANGED <<pool, nodes, popping, worker, task, node, prio, stopn, jobs, history>>

\* The dispatch of an empty task may be refused; its result is not looked at.
StopTest ==
    /\ pc[Control] = "stop_test"
    /\ Goto(Control, IF taskn < MaxSize THEN "new" ELSE "stop_signal")
    /\ UNCHANGED <<pool, nodes, popping, worker, task, node, prio, stopn, jobs, history>>

StopSignal ==
    /\ pc[Control] = "stop_signal"
    /\ Signal
    /\ stopn' = stopn + 1
    /\ Goto(Control, IF stopn + 1 < Cardinality(Workers) THEN "stop_test" ELSE "stop_broadcast")
    /\ UNCHANGED <<pool, nodes, popping, wtask, task, node, prio, jobs, history>>

StopBroadcast ==
    /\ pc[Control] = "stop_broadcast"
    /\ wpc' = [w \in Workers |-> IF wpc[w] = "asleep" THEN "woken" ELSE wpc[w]]
    /\ stopn' = 0
    /\ Goto(Control, "idle")
    /\ UNCHANGED <<pool, nodes, popping, wtask, task, node, prio, jobs, history>>

\* Variant: a time-out is not told from an end.
Join_TimedOut ==
    /\ pc[Control] = "idle" /\ ~freed
    /\ stop
    /\ joined' = TRUE
    /\ UNCHANGED <<list, taskn, stop, activenum, freed, nodes, popping, worker, caller, stopn, jobs, history>>

\* activenum is 0; a time-out changes nothing.
Join ==
    /\ pc[Control] = "idle" /\ ~freed
    /\ stop
    /\ activenum = 0
    /\ joined' = TRUE
    /\ UNCHANGED <<list, taskn, stop, activenum, freed, nodes, popping, worker, caller, stopn, jobs, history>>

\* ztl_thrpool_release after its call of ztl_thrpool_stop: it drops what is
\* left in the list and frees the pool, whatever the workers are doing.  Its
\* caller sees to it that nobody is dispatching.
Release ==
    /\ stop /\ ~freed
    /\ \A t \in Callers : pc[t] = "idle"
    /\ list' = <<>>
    /\ taskn' = 0
    /\ freed' = TRUE
    /\ UNCHANGED <<stop, activenum, joined, nodes, popping, worker, caller, stopn, jobs, history>>

-----------------------------------------------------------------------------
WorkerStep(w) ==
    \/ WorkerActivate(w) \/ WorkerCheck(w) \/ WorkerExit(w)
    \/ WorkerTake(w) \/ WorkerSleep(w) \/ WorkerNothing(w)
    \/ WorkerRun(w) \/ WorkerRelease(w)

CallerStep(t) ==
    CopyIdle(t) \/ NewTask(t) \/ UseLost(t) \/ AppendTask(t) \/ RemoveRelease(t)

StopStep == StopTest \/ StopSignal \/ StopBroadcast

Next ==
    /\ ~stale
    /\ \/ \E w \in Workers : WorkerStep(w) \/ WorkerSpurious(w)
       \/ \E d \in Dispatchers : DispatchCall(d) \/ RemoveTask(d)
       \/ \E t \in Callers : CallerStep(t)
       \/ Start \/ StopCall \/ StopStep \/ Join \/ Release

Spec == Init /\ [][Next]_vars

\* Running threads run on; nobody is owed a spurious wakeup.
Fairness ==
    /\ \A w \in Workers : WF_vars(~stale /\ WorkerStep(w))
    /\ \A t \in Callers : WF_vars(~stale /\ CallerStep(t))
    /\ WF_vars(~stale /\ StopStep)

FairSpec == Spec /\ Fairness

-----------------------------------------------------------------------------
(* Properties *)

WorkerLabel == {"none", "spawned", "loop", "get", "asleep", "woken", "run", "release", "gone"}
CallerLabel == {"idle", "new", "append", "removed", "stop_test", "stop_signal", "stop_broadcast"}

\* Type correctness: taskn is the length of the list, and a thread that is about
\* to use a node has one.
TypeOK ==
    /\ list \in Seq(Node) /\ taskn = Len(list)
    /\ stop \in BOOLEAN /\ joined \in BOOLEAN /\ freed \in BOOLEAN
    /\ activenum \in Int
    /\ idle \in Seq(Node) /\ fresh \in Nat \ {0} /\ mem \in [Node -> Task]
    /\ copy \in [Callers -> Node \cup {NoNode}] /\ lost \subseteq Callers /\ stale \in BOOLEAN
    /\ wpc \in [Workers -> WorkerLabel] /\ wtask \in [Workers -> Node \cup {NoNode}]
    /\ pc \in [Callers -> CallerLabel] /\ task \in [Callers -> Task]
    /\ node \in [Callers -> Node \cup {NoNode}] /\ prio \in [Callers -> BOOLEAN]
    /\ stopn \in Nat /\ jobs \in 0 .. MaxJob
    /\ runs \in [1 .. MaxJob -> Nat] /\ removed \subseteq 0 .. MaxJob
    /\ \A w \in Workers : wpc[w] \in {"run", "release"} => wtask[w] \in Node
    /\ \A t \in Callers : pc[t] \in {"append", "removed"} => node[t] \in Node

\* What follows is said of a pool in which no caller uses a node that it lost.

\* max_queue_size is tested without the mutex, so the list can outgrow it, but
\* only by one task for each of the other threads that dispatch.
QueueBound == ~stale => Len(list) <= MaxSize - 1 + Cardinality(Callers)

Times(n, s) == Cardinality({i \in DOMAIN s : s[i] = n})

\* A task node is in one place: the list, the idle queue, the hands of a worker
\* or of a caller, although any number of callers may have copied it out of the
\* idle queue.  A node in two would be overwritten while it is in use.
NodeExclusive ==
    ~stale =>
      \A n \in Node :
        Times(n, list) + Times(n, idle) + Cardinality({w \in Workers : wtask[w] = n})
          + Cardinality({t \in Callers : node[t] = n}) <= 1

\* A task is run at most once, and never after ztl_thrpool_remove took it out.
RunsOnce == ~stale => \A j \in 1 .. MaxJob : runs[j] <= (IF j \in removed THEN 0 ELSE 1)

Awake == {"spawned", "loop", "get", "woken", "run", "release"}

\* The condition variable is signalled only by the dispatch that finds the list
\* empty.  Still no task waits while every worker sleeps.
NoStranded ==
    ~stale /\ ~stop /\ list # <<>> /\ Asleep # {} => \E w \in Workers : wpc[w] \in Awake

\* Once ztl_thrpool_join has returned 0, no worker takes a task: one that only
\* starts then sees stop and leaves.
JoinedNoTask ==
    ~stale /\ joined => \A w \in Workers : wpc[w] \in {"none", "spawned", "loop", "gone"}

Queued(j) == \E i \in DOMAIN list : mem[list[i]].job = j
SomeWorker == \E w \in Workers : wpc[w] # "none"

\* Until the pool is stopped, a queued task is run or removed.
TaskRuns ==
    \A j \in 1 .. MaxJob :
      Queued(j) /\ SomeWorker ~> runs[j] = 1 \/ j \in removed \/ stop \/ stale

AllGone == \A w \in Workers : wpc[w] \in {"none", "gone"}

\* ztl_threadpool.h: "thrpool stop all working threads".
StopTerminates == stop ~> AllGone \/ freed \/ stale

\* The same, as far as the code ensures it: nobody removes tasks.
StopTerminatesUnremoved == stop ~> AllGone \/ freed \/ removed # {} \/ stale
=============================================================================
