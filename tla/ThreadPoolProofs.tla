--------------------------- MODULE ThreadPoolProofs ---------------------------
(***************************************************************************)
(* Proofs about ThreadPool, for any number of workers, of dispatching      *)
(* threads and of tasks, and any size of the queue.                        *)
(***************************************************************************)
EXTENDS ThreadPool, FiniteSetTheorems, SequenceTheorems, TLAPS

\* What a signal does to the workers: nothing, or it wakes one sleeper.
LEMMA SignalKeepsTypes ==
    ASSUME wpc \in [Workers -> WorkerLabel], Signal
    PROVE  /\ wpc' \in [Workers -> WorkerLabel]
           /\ \A w \in Workers : wpc'[w] \in {"run", "release"} => wpc[w] \in {"run", "release"}
  BY DEF Signal, Asleep, WorkerGoto, WorkerLabel

\* _release_task keeps the types of what it touches.
LEMMA PutBackKeepsTypes ==
    ASSUME idle \in Seq(Node), NEW n \in Node, PutBack(n)
    PROVE  idle' \in Seq(Node) /\ fresh' = fresh /\ mem' = mem
<1>1. CASE idle' = Append(idle, n)
  BY <1>1 DEF PutBack
<1>2. CASE UNCHANGED idle
  BY <1>2 DEF PutBack
<1> QED BY <1>1, <1>2 DEF PutBack

\* A step of a worker keeps the types.
LEMMA WorkerTypeStep ==
    ASSUME TypeOK, NEW w \in Workers, WorkerStep(w) \/ WorkerSpurious(w)
    PROVE  TypeOK'
<1> USE DEF TypeOK, WorkerLabel, At, WorkerGoto, pool, nodes, popping, caller, history
<1>1. CASE WorkerActivate(w)
  BY <1>1 DEF WorkerActivate
<1>2. CASE WorkerCheck(w)
  BY <1>2 DEF WorkerCheck
<1>3. CASE WorkerExit(w)
  BY <1>3 DEF WorkerExit
<1>4. CASE WorkerTake(w)
  <2>1. list' \in Seq(Node) /\ taskn' = Len(list') /\ Head(list) \in Node
    BY <1>4 DEF WorkerTake
  <2> QED BY <1>4, <2>1 DEF WorkerTake
<1>5. CASE WorkerSleep(w)
  BY <1>5 DEF WorkerSleep
<1>6. CASE WorkerNothing(w)
  BY <1>6 DEF WorkerNothing
<1>7. CASE WorkerSpurious(w)
  BY <1>7 DEF WorkerSpurious
<1>8. CASE WorkerRun(w)
  <2>1. mem[wtask[w]] \in Task
    BY <1>8 DEF WorkerRun
  <2>2. mem[wtask[w]].job \in 0 .. MaxJob
    BY <2>1 DEF Task
  <2>3. runs' \in [1 .. MaxJob -> Nat]
    <3>1. CASE mem[wtask[w]].job = 0
      BY <1>8, <3>1 DEF WorkerRun, RunOf
    <3>2. CASE mem[wtask[w]].job # 0
      <4>1. mem[wtask[w]].job \in 1 .. MaxJob
        BY <2>2, <3>2, MaxJobAssumption
      <4> QED BY <1>8, <3>2, <4>1 DEF WorkerRun, RunOf
    <3> QED BY <3>1, <3>2
  <2> QED BY <1>8, <2>3 DEF WorkerRun
<1>9. CASE WorkerRelease(w)
  <2>1. wtask[w] \in Node
    BY <1>9 DEF WorkerRelease
  <2>2. idle' \in Seq(Node) /\ fresh' = fresh /\ mem' = mem
    BY <1>9, <2>1, PutBackKeepsTypes DEF WorkerRelease
  <2> QED BY <1>9, <2>2 DEF WorkerRelease
<1> QED BY <1>1, <1>2, <1>3, <1>4, <1>5, <1>6, <1>7, <1>8, <1>9 DEF WorkerStep

\* A step of a thread that dispatches or removes keeps the types.
LEMMA CallerTypeStep ==
    ASSUME TypeOK, NEW t \in Callers,
           CallerStep(t) \/ (t \in Dispatchers /\ (DispatchCall(t) \/ RemoveTask(t)))
    PROVE  TypeOK'
<1> USE MaxJobAssumption
    DEF TypeOK, CallerLabel, Goto, pool, nodes, popping, worker, caller, history
<1>1. CASE DispatchCall(t)
  <2>1. jobs' \in 0 .. MaxJob
    BY <1>1 DEF DispatchCall
  <2>2. task' \in [Callers -> Task]
    BY <1>1, <2>1 DEF DispatchCall, Task
  <2>3. prio' \in [Callers -> BOOLEAN]
    BY <1>1 DEF DispatchCall
  <2> QED BY <1>1, <2>1, <2>2, <2>3 DEF DispatchCall
<1>2. CASE NewTask(t)
  <2>1. EmptyTask \in Task
    BY DEF EmptyTask, Task
  <2>2. task' \in [Callers -> Task] /\ pc' \in [Callers -> CallerLabel]
    BY <1>2, <2>1 DEF NewTask
  <2>3. idle' \in Seq(Node) /\ fresh' \in Nat \ {0}
    <3>1. CASE idle # <<>> /\ idle' = Tail(idle) /\ UNCHANGED fresh
      BY <3>1
    <3>2. CASE fresh' = fresh + 1 /\ UNCHANGED idle
      BY <3>2
    <3> QED BY <1>2, <3>1, <3>2 DEF NewTask
  <2>4. PICK n \in Node : node' = [node EXCEPT ![t] = n] /\ mem' = [mem EXCEPT ![n] = task[t]]
    BY <1>2 DEF NewTask
  <2>5. copy' \in [Callers -> Node \cup {NoNode}] /\ lost' \subseteq Callers
    BY <1>2 DEF NewTask
  <2> QED BY <1>2, <2>2, <2>3, <2>4, <2>5 DEF NewTask
<1>6. CASE CopyIdle(t)
  <2>1. Head(idle) \in Node
    BY <1>6 DEF CopyIdle
  <2> QED BY <1>6, <2>1 DEF CopyIdle
<1>7. CASE UseLost(t)
  <2>1. EmptyTask \in Task
    BY DEF EmptyTask, Task
  <2>2. copy[t] \in Node /\ task[t] \in Task
    BY <1>7 DEF UseLost
  <2> QED BY <1>7, <2>1, <2>2 DEF UseLost
<1>3. CASE AppendTask(t)
  <2>1. list' \in Seq(Node) /\ taskn' = Len(list')
    BY <1>3 DEF AppendTask
  <2>2. /\ wpc' \in [Workers -> WorkerLabel]
        /\ \A w \in Workers : wpc'[w] \in {"run", "release"} => wpc[w] \in {"run", "release"}
    BY <1>3, SignalKeepsTypes DEF AppendTask
  <2> QED BY <1>3, <2>1, <2>2 DEF AppendTask
<1>4. CASE RemoveRelease(t)
  <2>1. node[t] \in Node
    BY <1>4 DEF RemoveRelease
  <2>2. idle' \in Seq(Node) /\ fresh' = fresh /\ mem' = mem
    BY <1>4, <2>1, PutBackKeepsTypes DEF RemoveRelease
  <2> QED BY <1>4, <2>2 DEF RemoveRelease
<1>5. CASE RemoveTask(t)
  <2>1. PICK i \in 2 .. Len(list) :
          /\ list' = SubSeq(list, 1, i - 1) \o SubSeq(list, i + 1, Len(list))
          /\ node' = [node EXCEPT ![t] = list[i]]
          /\ removed' = removed \cup {mem[list[i]].job}
    BY <1>5 DEF RemoveTask
  <2>2. list[i] \in Node /\ mem[list[i]].job \in 0 .. MaxJob
    BY <2>1 DEF Task
  <2>3. list' \in Seq(Node) /\ Len(list') = Len(list) - 1
    <3>1. SubSeq(list, 1, i - 1) \in Seq(Node) /\ Len(SubSeq(list, 1, i - 1)) = i - 1
      BY <2>1
    <3>2. SubSeq(list, i + 1, Len(list)) \in Seq(Node)
          /\ Len(SubSeq(list, i + 1, Len(list))) = Len(list) - i
      BY <2>1
    <3> QED BY <2>1, <3>1, <3>2
  <2> QED BY <1>5, <2>1, <2>2, <2>3 DEF RemoveTask
<1> QED BY <1>1, <1>2, <1>3, <1>4, <1>5, <1>6, <1>7 DEF CallerStep

\* A step of the controlling thread keeps the types.
LEMMA ControlTypeStep ==
    ASSUME TypeOK, Start \/ StopCall \/ StopStep \/ Join \/ Release
    PROVE  TypeOK'
<1> USE DEF TypeOK, CallerLabel, Callers, Goto, pool, nodes, popping, worker, caller, history
<1>1. CASE Start
  <2>1. /\ wpc' \in [Workers -> WorkerLabel]
        /\ \A w \in Workers : wpc'[w] \notin {"run", "release"}
    BY <1>1 DEF Start, WorkerLabel
  <2> QED BY <1>1, <2>1 DEF Start
<1>2. CASE StopCall
  BY <1>2 DEF StopCall
<1>3. CASE StopTest
  BY <1>3 DEF StopTest
<1>4. CASE StopSignal
  <2>1. /\ wpc' \in [Workers -> WorkerLabel]
        /\ \A w \in Workers : wpc'[w] \in {"run", "release"} => wpc[w] \in {"run", "release"}
    BY <1>4, SignalKeepsTypes DEF StopSignal
  <2> QED BY <1>4, <2>1 DEF StopSignal
<1>5. CASE StopBroadcast
  <2>1. /\ wpc' \in [Workers -> WorkerLabel]
        /\ \A w \in Workers : wpc'[w] \in {"run", "release"} => wpc[w] \in {"run", "release"}
    BY <1>5 DEF StopBroadcast, WorkerLabel
  <2> QED BY <1>5, <2>1 DEF StopBroadcast
<1>6. CASE Join
  BY <1>6 DEF Join
<1>7. CASE Release
  BY <1>7 DEF Release
<1> QED BY <1>1, <1>2, <1>3, <1>4, <1>5, <1>6, <1>7 DEF StopStep

\* Whatever the threads do, taskn is the length of the list and no thread uses
\* a node it does not have.
THEOREM PoolTypeCorrect == Spec => []TypeOK
<1>1. Init => TypeOK
  <2>1. EmptyTask \in Task
    BY MaxJobAssumption DEF EmptyTask, Task
  <2>2. SUFFICES ASSUME Init PROVE TypeOK
    OBVIOUS
  <2>3. list \in Seq(Node) /\ taskn = Len(list) /\ idle \in Seq(Node)
    BY <2>2 DEF Init
  <2>4. mem \in [Node -> Task] /\ task \in [Callers -> Task] /\ jobs \in 0 .. MaxJob
    BY <2>1, <2>2, MaxJobAssumption DEF Init
  <2>5. /\ wpc \in [Workers -> WorkerLabel] /\ wtask \in [Workers -> Node \cup {NoNode}]
        /\ \A w \in Workers : wpc[w] = "none"
    BY <2>2 DEF Init, WorkerLabel
  <2>6. /\ pc \in [Callers -> CallerLabel] /\ node \in [Callers -> Node \cup {NoNode}]
        /\ prio \in [Callers -> BOOLEAN]
        /\ \A t \in Callers : pc[t] = "idle"
    BY <2>2 DEF Init, CallerLabel
  <2>7. runs \in [1 .. MaxJob -> Nat] /\ removed \subseteq 0 .. MaxJob
    BY <2>2 DEF Init
  <2>8. /\ stop \in BOOLEAN /\ joined \in BOOLEAN /\ freed \in BOOLEAN
        /\ activenum \in Int /\ fresh \in Nat \ {0} /\ stopn \in Nat
    <3>1. stop = FALSE /\ joined = FALSE /\ freed = FALSE
      BY <2>2 DEF Init
    <3>2. activenum = 0 /\ fresh = 1 /\ stopn = 0
      BY <2>2 DEF Init
    <3>3. stop \in BOOLEAN /\ joined \in BOOLEAN /\ freed \in BOOLEAN
      BY <3>1, Zenon
    <3>4. activenum \in Int /\ fresh \in Nat \ {0} /\ stopn \in Nat
      BY <3>2
    <3> QED BY <3>3, <3>4
  <2>9. copy \in [Callers -> Node \cup {NoNode}] /\ lost \subseteq Callers /\ stale \in BOOLEAN
    BY <2>2 DEF Init
  <2> QED BY <2>3, <2>4, <2>5, <2>6, <2>7, <2>8, <2>9 DEF TypeOK
<1>2. TypeOK /\ [Next]_vars => TypeOK'
  <2> SUFFICES ASSUME TypeOK, [Next]_vars PROVE TypeOK'
    OBVIOUS
  <2>1. CASE UNCHANGED vars
    BY <2>1 DEF vars, TypeOK
  <2> QED
    BY <2>1, WorkerTypeStep, CallerTypeStep, ControlTypeStep DEF Next, Callers
<1> QED BY <1>1, <1>2, PTL DEF Spec

-----------------------------------------------------------------------------
\* A signal leaves no sleeper, or wakes one.
LEMMA SignalWakes ==
    ASSUME wpc \in [Workers -> WorkerLabel], Signal
    PROVE  \/ wpc' = wpc /\ Asleep = {}
           \/ \E w \in Workers : wpc'[w] = "woken"
<1>1. CASE Asleep = {}
  BY <1>1 DEF Signal
<1>2. CASE Asleep # {}
  BY <1>2 DEF Signal, Asleep, WorkerGoto
<1> QED BY <1>1, <1>2

\* One step of any thread keeps a waiting task from being stranded.
LEMMA NoStrandedStep == TypeOK /\ NoStranded /\ [Next]_vars => NoStranded'
<1> SUFFICES ASSUME TypeOK, NoStranded, [Next]_vars, ~stale', ~stop', list' # <<>>, Asleep' # {}
             PROVE  \E w \in Workers : wpc'[w] \in Awake
  BY DEF NoStranded
<1>a. ~stale
  BY DEF Next, vars
<1>0. wpc \in [Workers -> WorkerLabel] /\ list \in Seq(Node) /\ taskn = Len(list)
  BY DEF TypeOK
\* The steps that leave the workers alone and do not fill an empty list.
<1>1. ASSUME wpc' = wpc, stop' = stop, list # <<>>
      PROVE  \E w \in Workers : wpc'[w] \in Awake
  BY <1>a, <1>1 DEF NoStranded, Asleep
<1>3. ASSUME NEW w \in Workers, WorkerStep(w) \/ WorkerSpurious(w)
      PROVE  \E v \in Workers : wpc'[v] \in Awake
  <2>1. CASE WorkerExit(w)
    BY <2>1 DEF WorkerExit
  <2>2. CASE WorkerSleep(w)
    BY <2>2 DEF WorkerSleep, pool
  <2>3. CASE ~WorkerExit(w) /\ ~WorkerSleep(w)
    <3>1. wpc'[w] \in Awake
      BY <1>0, <1>3, <2>3
      DEF WorkerStep, WorkerActivate, WorkerCheck, WorkerTake, WorkerNothing,
          WorkerSpurious, WorkerRun, WorkerRelease, WorkerGoto, Awake
    <3> QED BY <3>1
  <2> QED BY <2>1, <2>2, <2>3
<1>4. ASSUME NEW t \in Callers, AppendTask(t) PROVE \E w \in Workers : wpc'[w] \in Awake
  <2>1. CASE taskn = 0
    <3>1. Signal
      BY <1>4, <2>1 DEF AppendTask
    <3> QED BY <1>0, <3>1, SignalWakes DEF Asleep, Awake
  <2>2. CASE taskn # 0
    <3>1. list # <<>> /\ wpc' = wpc /\ stop' = stop
      BY <1>0, <1>4, <2>2 DEF AppendTask
    <3> QED BY <1>1, <3>1
  <2> QED BY <2>1, <2>2
<1>5. ASSUME NEW t \in Callers, CopyIdle(t) \/ NewTask(t) \/ UseLost(t) \/ RemoveRelease(t)
      PROVE  \E w \in Workers : wpc'[w] \in Awake
  BY <1>1, <1>5 DEF CopyIdle, NewTask, UseLost, RemoveRelease, pool, worker
<1>6. ASSUME NEW d \in Dispatchers, DispatchCall(d)
      PROVE  \E w \in Workers : wpc'[w] \in Awake
  BY <1>1, <1>6 DEF DispatchCall, pool, worker
<1>7. ASSUME NEW d \in Dispatchers, RemoveTask(d)
      PROVE  \E w \in Workers : wpc'[w] \in Awake
  <2>1. list # <<>>
    BY <1>0, <1>7 DEF RemoveTask
  <2> QED BY <1>1, <1>7, <2>1 DEF RemoveTask, worker
<1>8. CASE Start
  BY <1>8 DEF Start, Asleep
<1>9. CASE StopCall \/ Release
  BY <1>9 DEF StopCall, Release
<1>10. CASE StopTest \/ Join
  BY <1>1, <1>10 DEF StopTest, Join, pool, worker
<1>11. CASE StopSignal
  BY <1>0, <1>1, <1>11, SignalWakes DEF StopSignal, pool, Asleep, Awake
<1>12. CASE StopBroadcast
  BY <1>12 DEF StopBroadcast, Asleep
<1>13. CASE UNCHANGED vars
  BY <1>1, <1>13 DEF vars
<1> QED
  BY <1>3, <1>4, <1>5, <1>6, <1>7, <1>8, <1>9, <1>10, <1>11, <1>12, <1>13
  DEF Next, CallerStep, StopStep

\* One signal for a list that stops being empty is enough: until the pool is
\* stopped no task waits while all workers sleep.
THEOREM NoTaskStranded == Spec => []NoStranded
<1>1. Init => NoStranded
  BY DEF Init, NoStranded
<1> QED BY <1>1, PoolTypeCorrect, NoStrandedStep, PTL DEF Spec

-----------------------------------------------------------------------------
(* The size of the list.  A caller that has passed the test of taskn and not *)
(* appended its task yet is in flight; what counts is the list with them.    *)

InFlight == {t \in Callers : pc[t] \in {"new", "append"}}

Room == Len(list) + Cardinality(InFlight) <= MaxSize - 1 + Cardinality(Callers)

\* The callers are finitely many.
LEMMA FiniteCallers == IsFiniteSet(Callers)
  BY FiniteAssumption, FS_AddElement DEF Callers

\* So are those in flight, and they are no more.
LEMMA InFlightFinite ==
    /\ IsFiniteSet(InFlight)
    /\ Cardinality(InFlight) \in Nat
    /\ Cardinality(Callers) \in Nat
    /\ Cardinality(InFlight) <= Cardinality(Callers)
<1>1. InFlight \subseteq Callers
  BY DEF InFlight
<1> QED BY <1>1, FiniteCallers, FS_Subset, FS_CardinalityType

\* One step of any thread keeps the list and those in flight within the room.
LEMMA RoomStep == TypeOK /\ Room /\ [Next]_vars => Room'
<1> SUFFICES ASSUME TypeOK, Room, [Next]_vars PROVE Room'
  OBVIOUS
<1> USE MaxSizeAssumption
<1>0. /\ list \in Seq(Node) /\ taskn = Len(list) /\ Len(list) \in Nat
      /\ pc \in [Callers -> CallerLabel]
  BY DEF TypeOK
<1>1. ASSUME InFlight' = InFlight, Len(list') <= Len(list), Len(list') \in Nat PROVE Room'
  BY <1>0, <1>1, InFlightFinite DEF Room
<1>2. ASSUME list' = list, Len(list) < MaxSize, IsFiniteSet(InFlight'),
             Cardinality(InFlight') <= Cardinality(Callers)
      PROVE  Room'
  <2>1. Cardinality(InFlight') \in Nat
    BY <1>2, FS_CardinalityType
  <2> QED BY <1>0, <1>2, <2>1, InFlightFinite DEF Room
<1>3. IsFiniteSet(InFlight') /\ Cardinality(InFlight') <= Cardinality(Callers)
  <2>1. InFlight' \subseteq Callers
    BY DEF InFlight
  <2> QED BY <2>1, FiniteCallers, FS_Subset
<1>4. ASSUME NEW w \in Workers, WorkerStep(w) \/ WorkerSpurious(w) PROVE Room'
  <2>1. pc' = pc
    BY <1>4
    DEF WorkerStep, WorkerActivate, WorkerCheck, WorkerExit, WorkerTake, WorkerSleep,
        WorkerNothing, WorkerSpurious, WorkerRun, WorkerRelease, caller
  <2>2. list' = list \/ (list # <<>> /\ list' = Tail(list))
    BY <1>4
    DEF WorkerStep, WorkerActivate, WorkerCheck, WorkerExit, WorkerTake, WorkerSleep,
        WorkerNothing, WorkerSpurious, WorkerRun, WorkerRelease, pool
  <2>3. Len(list') <= Len(list) /\ Len(list') \in Nat
    BY <1>0, <2>2
  <2> QED BY <1>1, <2>1, <2>3 DEF InFlight
<1>5. ASSUME NEW t \in Callers, CopyIdle(t) \/ NewTask(t) \/ UseLost(t) \/ RemoveRelease(t)
      PROVE  Room'
  <2>1. list' = list /\ InFlight' = InFlight
    BY <1>0, <1>5 DEF CopyIdle, NewTask, UseLost, RemoveRelease, Goto, InFlight, pool, caller
  <2> QED BY <1>0, <1>1, <2>1
<1>6. ASSUME NEW t \in Callers, AppendTask(t) PROVE Room'
  <2>1. t \in InFlight /\ InFlight' = InFlight \ {t}
    BY <1>0, <1>6 DEF AppendTask, Goto, InFlight
  <2>2. Cardinality(InFlight') = Cardinality(InFlight) - 1
    BY <2>1, InFlightFinite, FS_RemoveElement
  <2>3. Len(list') = Len(list) + 1
    <3>1. node[t] \in Node
      BY <1>6 DEF AppendTask, TypeOK
    <3>2. CASE prio[t]
      BY <1>0, <1>6, <3>1, <3>2 DEF AppendTask
    <3>3. CASE ~prio[t]
      BY <1>0, <1>6, <3>1, <3>3 DEF AppendTask
    <3> QED BY <3>2, <3>3
  <2> QED BY <1>0, <2>2, <2>3, InFlightFinite DEF Room
<1>7. ASSUME NEW d \in Dispatchers, DispatchCall(d) PROVE Room'
  <2>1. list' = list /\ Len(list) < MaxSize
    BY <1>0, <1>7 DEF DispatchCall, pool
  <2> QED BY <1>2, <1>3, <2>1
<1>8. ASSUME NEW d \in Dispatchers, RemoveTask(d) PROVE Room'
  <2>1. PICK i \in 2 .. Len(list) :
          list' = SubSeq(list, 1, i - 1) \o SubSeq(list, i + 1, Len(list))
    BY <1>8 DEF RemoveTask
  <2>2. Len(list') = Len(list) - 1
    <3>1. SubSeq(list, 1, i - 1) \in Seq(Node) /\ Len(SubSeq(list, 1, i - 1)) = i - 1
      BY <1>0, <2>1
    <3>2. SubSeq(list, i + 1, Len(list)) \in Seq(Node)
          /\ Len(SubSeq(list, i + 1, Len(list))) = Len(list) - i
      BY <1>0, <2>1
    <3> QED BY <1>0, <2>1, <3>1, <3>2
  <2>3. InFlight' = InFlight
    BY <1>0, <1>8 DEF RemoveTask, Goto, InFlight
  <2> QED BY <1>0, <1>1, <2>1, <2>2, <2>3
<1>9. CASE StopTest
  <2>1. CASE taskn < MaxSize
    <3>1. list' = list
      BY <1>9 DEF StopTest, pool
    <3> QED BY <1>0, <1>2, <1>3, <2>1, <3>1
  <2>2. CASE ~(taskn < MaxSize)
    <3>1. list' = list /\ InFlight' = InFlight
      BY <1>0, <1>9, <2>2 DEF StopTest, Goto, InFlight, pool
    <3> QED BY <1>0, <1>1, <3>1
  <2> QED BY <2>1, <2>2
<1>10. CASE Start \/ StopCall \/ StopSignal \/ StopBroadcast \/ Join
  <2>1. list' = list
    BY <1>10 DEF Start, StopCall, StopSignal, StopBroadcast, Join, pool
  <2>2. InFlight' = InFlight
    BY <1>0, <1>10 DEF Start, StopCall, StopSignal, StopBroadcast, Join, Goto, InFlight, caller
  <2> QED BY <1>0, <1>1, <2>1, <2>2
<1>11. CASE Release
  <2>1. list' = <<>> /\ InFlight' = InFlight
    BY <1>11 DEF Release, InFlight, caller
  <2> QED BY <1>0, <1>1, <2>1
<1>12. CASE UNCHANGED vars
  BY <1>0, <1>1, <1>12 DEF vars, InFlight
<1> QED
  BY <1>4, <1>5, <1>6, <1>7, <1>8, <1>9, <1>10, <1>11, <1>12
  DEF Next, CallerStep, StopStep

\* Although max_queue_size is tested without the mutex, the list outgrows it by
\* at most one task for each of the other threads that dispatch.
THEOREM ListBounded == Spec => []QueueBound
<1>1. Init => Room
  <2> SUFFICES ASSUME Init PROVE Room
    OBVIOUS
  <2>1. InFlight = {} /\ Len(list) = 0
    BY DEF Init, InFlight
  <2> QED BY <2>1, MaxSizeAssumption, InFlightFinite, FS_EmptySet DEF Room
<1>2. TypeOK /\ Room => QueueBound
  BY MaxSizeAssumption, InFlightFinite DEF Room, QueueBound, TypeOK
<1> QED BY <1>1, <1>2, PoolTypeCorrect, RoomStep, PTL DEF Spec

-----------------------------------------------------------------------------
(* What ztl_thrpool_join waits for: activenum counts the workers that have   *)
(* begun and not ended, which is not all that were made.                     *)

ActiveLabel == {"loop", "get", "asleep", "woken", "run", "release"}
Active == {w \in Workers : wpc[w] \in ActiveLabel}

JoinedQuiet == joined => \A w \in Workers : wpc[w] \in {"none", "spawned", "loop", "gone"}

JoinInv ==
    /\ activenum = Cardinality(Active)
    /\ joined => stop
    /\ JoinedQuiet

\* A set of workers is finite.
LEMMA ActiveFinite == IsFiniteSet(Active) /\ Cardinality(Active) \in Nat
<1>1. Active \subseteq Workers
  BY DEF Active
<1> QED BY <1>1, FiniteAssumption, FS_Subset, FS_CardinalityType

\* One step of a worker keeps activenum exact, and after a join it takes nothing.
LEMMA WorkerJoinStep ==
    ASSUME TypeOK, JoinInv, NEW w \in Workers, WorkerStep(w) \/ WorkerSpurious(w)
    PROVE  JoinInv'
<1>0. wpc \in [Workers -> WorkerLabel]
  BY DEF TypeOK
<1> USE DEF JoinInv, JoinedQuiet, ActiveLabel, At, WorkerGoto, pool
<1>1. CASE WorkerActivate(w)
  <2>1. w \notin Active /\ Active' = Active \cup {w}
    BY <1>0, <1>1 DEF WorkerActivate, Active
  <2>2. Cardinality(Active') = Cardinality(Active) + 1
    BY <2>1, ActiveFinite, FS_AddElement
  <2> QED BY <1>0, <1>1, <2>2 DEF WorkerActivate
<1>2. CASE WorkerExit(w)
  <2>1. w \in Active /\ Active' = Active \ {w}
    BY <1>0, <1>2 DEF WorkerExit, Active
  <2>2. Cardinality(Active') = Cardinality(Active) - 1
    BY <2>1, ActiveFinite, FS_RemoveElement
  <2> QED BY <1>0, <1>2, <2>2 DEF WorkerExit
<1>3. CASE WorkerCheck(w)
  <2>1. Active' = Active
    BY <1>0, <1>3 DEF WorkerCheck, Active
  <2> QED BY <1>0, <1>3, <2>1 DEF WorkerCheck
<1>4. CASE ~WorkerActivate(w) /\ ~WorkerExit(w) /\ ~WorkerCheck(w)
  <2> USE DEF WorkerStep, WorkerTake, WorkerSleep, WorkerNothing, WorkerSpurious,
              WorkerRun, WorkerRelease
  <2>1. /\ UNCHANGED <<activenum, joined, stop>>
        /\ wpc[w] \in ActiveLabel \ {"loop"}
        /\ \E l \in ActiveLabel : wpc' = [wpc EXCEPT ![w] = l]
    BY <1>4
  <2>2. Active' = Active
    BY <1>0, <2>1 DEF Active
  <2>3. ~joined
    BY <2>1
  <2> QED BY <2>1, <2>2, <2>3
<1> QED BY <1>1, <1>2, <1>3, <1>4

\* A signal leaves the active workers active, and wakes nobody after a join.
LEMMA SignalActive ==
    ASSUME TypeOK, JoinInv, Signal, UNCHANGED <<activenum, joined, stop>>
    PROVE  JoinInv'
<1>0. wpc \in [Workers -> WorkerLabel]
  BY DEF TypeOK
<1>1. Active' = Active
  BY <1>0 DEF Signal, Asleep, WorkerGoto, Active, ActiveLabel
<1>2. joined => wpc' = wpc
  BY DEF Signal, Asleep, JoinInv, JoinedQuiet
<1> QED BY <1>1, <1>2 DEF JoinInv, JoinedQuiet

\* One step of any thread keeps what ztl_thrpool_join relies on.
LEMMA JoinStep == TypeOK /\ JoinInv /\ [Next]_vars => JoinInv'
<1> SUFFICES ASSUME TypeOK, JoinInv, [Next]_vars PROVE JoinInv'
  OBVIOUS
<1>0. wpc \in [Workers -> WorkerLabel]
  BY DEF TypeOK
<1>1. ASSUME UNCHANGED <<wpc, activenum, joined>>, stop' = stop \/ stop' = TRUE PROVE JoinInv'
  BY <1>1 DEF JoinInv, JoinedQuiet, Active
<1>2. ASSUME NEW t \in Callers, AppendTask(t) PROVE JoinInv'
  BY <1>1, <1>2, SignalActive DEF AppendTask
<1>3. ASSUME NEW t \in Callers, CopyIdle(t) \/ NewTask(t) \/ UseLost(t) \/ RemoveRelease(t)
      PROVE  JoinInv'
  BY <1>1, <1>3 DEF CopyIdle, NewTask, UseLost, RemoveRelease, pool, worker
<1>4. ASSUME NEW d \in Dispatchers, DispatchCall(d) \/ RemoveTask(d) PROVE JoinInv'
  BY <1>1, <1>4 DEF DispatchCall, RemoveTask, pool, worker
<1>5. CASE Start
  <2>1. Active = {} /\ Active' = {}
    BY <1>5 DEF Start, Active, ActiveLabel
  <2> QED BY <1>5, <2>1 DEF Start, JoinInv, JoinedQuiet, pool
<1>6. CASE StopCall \/ StopTest \/ Release
  BY <1>1, <1>6 DEF StopCall, StopTest, Release, pool, worker
<1>7. CASE StopSignal
  BY <1>7, SignalActive DEF StopSignal, pool
<1>8. CASE StopBroadcast
  <2>1. Active' = Active
    BY <1>0, <1>8 DEF StopBroadcast, Active, ActiveLabel
  <2>2. joined => \A w \in Workers : wpc'[w] = wpc[w]
    BY <1>8 DEF StopBroadcast, JoinInv, JoinedQuiet
  <2> QED BY <1>8, <2>1, <2>2 DEF StopBroadcast, JoinInv, JoinedQuiet, pool
<1>9. CASE Join
  <2>1. Active = {}
    BY <1>9, ActiveFinite, FS_EmptySet DEF Join, JoinInv
  <2>2. \A w \in Workers : wpc[w] \in {"none", "spawned", "gone"}
    BY <1>0, <2>1 DEF Active, ActiveLabel, WorkerLabel
  <2> QED BY <1>9, <2>2 DEF Join, JoinInv, JoinedQuiet, Active, worker
<1>10. CASE UNCHANGED vars
  BY <1>1, <1>10 DEF vars
<1> QED
  BY <1>2, <1>3, <1>4, <1>5, <1>6, <1>7, <1>8, <1>9, <1>10, WorkerJoinStep
  DEF Next, CallerStep, StopStep

\* After ztl_thrpool_join has returned 0 no worker touches a task, even one
\* that the join did not wait for because it had not begun to run.
THEOREM JoinQuiet == Spec => []JoinedNoTask
<1>1. Init => JoinInv
  <2> SUFFICES ASSUME Init PROVE JoinInv
    OBVIOUS
  <2>1. Active = {}
    BY DEF Init, Active, ActiveLabel
  <2> QED BY <2>1, FS_EmptySet DEF Init, JoinInv, JoinedQuiet
<1>2. JoinInv => JoinedNoTask
  BY DEF JoinInv, JoinedQuiet, JoinedNoTask
<1> QED BY <1>1, <1>2, PoolTypeCorrect, JoinStep, PTL DEF Spec

-----------------------------------------------------------------------------
(* Where the task nodes are, and which of them carry a job that is to run.   *)

InSeq(n, s) == \E i \in DOMAIN s : s[i] = n
Distinct(s) == \A i, j \in DOMAIN s : s[i] = s[j] => i = j

\* NodeExclusive without counting; a node ztl_palloc has not handed out is nowhere.
OnePlace ==
    /\ Distinct(list) /\ Distinct(idle)
    /\ \A n \in Node : InSeq(n, list) => ~InSeq(n, idle)
    /\ \A w \in Workers : wtask[w] # NoNode => ~InSeq(wtask[w], list) /\ ~InSeq(wtask[w], idle)
    /\ \A t \in Callers : node[t] # NoNode => ~InSeq(node[t], list) /\ ~InSeq(node[t], idle)
    /\ \A w, v \in Workers : wtask[w] # NoNode /\ wtask[w] = wtask[v] => w = v
    /\ \A t, u \in Callers : node[t] # NoNode /\ node[t] = node[u] => t = u
    /\ \A w \in Workers, t \in Callers : wtask[w] # NoNode => wtask[w] # node[t]

NoneAhead ==
    /\ \A n \in Node : InSeq(n, list) \/ InSeq(n, idle) => n < fresh
    /\ \A w \in Workers : wtask[w] < fresh
    /\ \A t \in Callers : node[t] < fresh

\* Taking the head of a list takes one node out of it.
LEMMA TakeHead ==
    ASSUME NEW s \in Seq(Node), s # <<>>
    PROVE  /\ Head(s) \in Node /\ InSeq(Head(s), s)
           /\ \A n : InSeq(n, Tail(s)) => InSeq(n, s)
           /\ \A n : InSeq(n, s) => n = Head(s) \/ InSeq(n, Tail(s))
           /\ Distinct(s) => Distinct(Tail(s)) /\ ~InSeq(Head(s), Tail(s))
<1>1. /\ Len(s) \in Nat /\ Len(s) >= 1 /\ DOMAIN s = 1 .. Len(s) /\ Head(s) = s[1]
      /\ DOMAIN Tail(s) = 1 .. Len(s) - 1 /\ \A i \in 1 .. Len(s) - 1 : Tail(s)[i] = s[i + 1]
  OBVIOUS
<1>2. /\ \A i \in DOMAIN Tail(s) : i + 1 \in DOMAIN s /\ i + 1 # 1 /\ Tail(s)[i] = s[i + 1]
      /\ \A i \in DOMAIN s : i = 1 \/ (i - 1 \in DOMAIN Tail(s) /\ s[i] = Tail(s)[i - 1])
      /\ 1 \in DOMAIN s
  BY <1>1
<1>3. Head(s) \in Node
  BY <1>1
<1>4. Distinct(s) => Distinct(Tail(s))
  BY <1>1, <1>2 DEF Distinct
<1>5. Distinct(s) => ~InSeq(Head(s), Tail(s))
  BY <1>1, <1>2 DEF Distinct, InSeq
<1>6. InSeq(Head(s), s) /\ \A n : InSeq(n, Tail(s)) => InSeq(n, s)
  BY <1>1, <1>2 DEF InSeq
<1>7. \A n : InSeq(n, s) => n = Head(s) \/ InSeq(n, Tail(s))
  BY <1>1, <1>2 DEF InSeq
<1> QED BY <1>3, <1>4, <1>5, <1>6, <1>7

\* A node that is put at the end of a list.
LEMMA PutLast ==
    ASSUME NEW s \in Seq(Node), NEW x \in Node
    PROVE  /\ \A n : InSeq(n, Append(s, x)) <=> InSeq(n, s) \/ n = x
           /\ Distinct(s) /\ ~InSeq(x, s) => Distinct(Append(s, x))
<1> DEFINE q == Append(s, x)
<1>1. /\ Len(s) \in Nat /\ DOMAIN s = 1 .. Len(s) /\ DOMAIN q = 1 .. Len(s) + 1
      /\ q[Len(s) + 1] = x /\ \A i \in 1 .. Len(s) : q[i] = s[i]
  OBVIOUS
<1> HIDE DEF q
<1>2. \A n : InSeq(n, q) <=> InSeq(n, s) \/ n = x
  BY <1>1 DEF InSeq
<1>3. Distinct(s) /\ ~InSeq(x, s) => Distinct(q)
  BY <1>1 DEF InSeq, Distinct
<1> QED BY <1>2, <1>3 DEF q

\* A node that is put before a list.
LEMMA PutFirst ==
    ASSUME NEW s \in Seq(Node), NEW x \in Node
    PROVE  /\ \A n : InSeq(n, <<x>> \o s) <=> InSeq(n, s) \/ n = x
           /\ Distinct(s) /\ ~InSeq(x, s) => Distinct(<<x>> \o s)
<1> DEFINE q == <<x>> \o s
<1>1. /\ Len(s) \in Nat /\ DOMAIN s = 1 .. Len(s) /\ DOMAIN q = 1 .. Len(s) + 1 /\ q[1] = x
      /\ \A i \in 1 .. Len(s) + 1 : i # 1 => q[i] = s[i - 1]
  OBVIOUS
<1> HIDE DEF q
<1>2. /\ \A i \in DOMAIN q : i = 1 \/ (i - 1 \in DOMAIN s /\ q[i] = s[i - 1])
      /\ \A i \in DOMAIN s : i + 1 \in DOMAIN q /\ q[i + 1] = s[i]
      /\ 1 \in DOMAIN q
  BY <1>1
<1>3. \A n : InSeq(n, q) <=> InSeq(n, s) \/ n = x
  BY <1>1, <1>2 DEF InSeq
<1>4. Distinct(s) /\ ~InSeq(x, s) => Distinct(q)
  BY <1>1, <1>2 DEF InSeq, Distinct
<1> QED BY <1>3, <1>4 DEF q

\* Two lists, one after the other.
LEMMA Joined ==
    ASSUME NEW a \in Seq(Node), NEW b \in Seq(Node)
    PROVE  /\ DOMAIN (a \o b) = 1 .. Len(a) + Len(b)
           /\ \A i \in 1 .. Len(a) : (a \o b)[i] = a[i]
           /\ \A i \in 1 .. Len(b) : (a \o b)[Len(a) + i] = b[i]
<1>1. Len(a) \in Nat /\ Len(b) \in Nat
  OBVIOUS
<1>2. /\ a \o b \in Seq(Node) /\ Len(a \o b) = Len(a) + Len(b)
      /\ \A i \in 1 .. Len(a) + Len(b) :
           (a \o b)[i] = IF i <= Len(a) THEN a[i] ELSE b[i - Len(a)]
  BY ConcatProperties, Zenon
<1> DEFINE c == a \o b
<1>3. DOMAIN c = 1 .. Len(a) + Len(b)
  BY <1>2
<1> HIDE DEF c
<1>4. \A i \in 1 .. Len(a) + Len(b) : c[i] = IF i <= Len(a) THEN a[i] ELSE b[i - Len(a)]
  BY <1>2 DEF c
<1>5. \A i \in 1 .. Len(a) : c[i] = a[i]
  BY <1>1, <1>4
<1>6. ASSUME NEW i \in 1 .. Len(b) PROVE c[Len(a) + i] = b[i]
  <2>1. Len(a) + i \in 1 .. Len(a) + Len(b) /\ ~(Len(a) + i <= Len(a)) /\ (Len(a) + i) - Len(a) = i
    BY <1>1
  <2> QED BY <1>4, <2>1
<1> QED BY <1>3, <1>5, <1>6 DEF c

\* A part of a list.
LEMMA Part ==
    ASSUME NEW s \in Seq(Node), NEW m \in 1 .. Len(s) + 1, NEW n \in 0 .. Len(s), m <= n + 1
    PROVE  /\ SubSeq(s, m, n) \in Seq(Node) /\ Len(SubSeq(s, m, n)) = n - m + 1
           /\ \A i \in 1 .. n - m + 1 : SubSeq(s, m, n)[i] = s[m + i - 1]
<1>1. m \in Int /\ n \in Int /\ \A i \in m .. n : s[i] \in Node
  OBVIOUS
<1>2. /\ SubSeq(s, m, n) \in Seq(Node)
      /\ Len(SubSeq(s, m, n)) = IF m <= n THEN n - m + 1 ELSE 0
      /\ \A i \in 1 .. n - m + 1 : SubSeq(s, m, n)[i] = s[m + i - 1]
  BY <1>1, SubSeqProperties
<1>3. (IF m <= n THEN n - m + 1 ELSE 0) = n - m + 1
  BY <1>1
<1> QED BY <1>2, <1>3, Zenon

\* A list without its node at one place.
LEMMA CutOut ==
    ASSUME NEW s \in Seq(Node), NEW k \in 1 .. Len(s), Distinct(s)
    PROVE  LET q == SubSeq(s, 1, k - 1) \o SubSeq(s, k + 1, Len(s))
           IN  /\ Distinct(q) /\ ~InSeq(s[k], q) /\ InSeq(s[k], s) /\ s[k] \in Node
               /\ \A n : InSeq(n, q) => InSeq(n, s)
<1> DEFINE a == SubSeq(s, 1, k - 1)
           b == SubSeq(s, k + 1, Len(s))
           q == a \o b
           at == [i \in 1 .. Len(s) - 1 |-> IF i < k THEN i ELSE i + 1]
<1>1. Len(s) \in Nat /\ DOMAIN s = 1 .. Len(s) /\ s[k] \in Node
  OBVIOUS
<1>2. /\ a \in Seq(Node) /\ Len(a) = (k - 1) - 1 + 1
      /\ \A i \in 1 .. (k - 1) - 1 + 1 : a[i] = s[1 + i - 1]
  <2>1. 1 \in 1 .. Len(s) + 1 /\ k - 1 \in 0 .. Len(s) /\ 1 <= (k - 1) + 1
    BY <1>1
  <2> QED BY <2>1, Part, Zenon
<1>3. /\ b \in Seq(Node) /\ Len(b) = Len(s) - (k + 1) + 1
      /\ \A i \in 1 .. Len(s) - (k + 1) + 1 : b[i] = s[(k + 1) + i - 1]
  <2>1. k + 1 \in 1 .. Len(s) + 1 /\ Len(s) \in 0 .. Len(s) /\ k + 1 <= Len(s) + 1
    BY <1>1
  <2> QED BY <2>1, Part, Zenon
<1>4. /\ DOMAIN q = 1 .. Len(a) + Len(b)
      /\ \A i \in 1 .. Len(a) : q[i] = a[i]
      /\ \A i \in 1 .. Len(b) : q[Len(a) + i] = b[i]
  BY <1>2, <1>3, Joined, Zenon
<1> HIDE DEF a, b, q
<1>5. DOMAIN q = 1 .. Len(s) - 1
  BY <1>1, <1>2, <1>3, <1>4
<1>6. ASSUME NEW i \in DOMAIN q PROVE at[i] \in DOMAIN s /\ at[i] # k /\ q[i] = s[at[i]]
  <2>1. CASE i < k
    <3>1. i \in 1 .. Len(a) /\ i \in 1 .. (k - 1) - 1 + 1 /\ 1 + i - 1 = i /\ at[i] = i
      BY <1>1, <1>2, <1>5, <2>1
    <3>2. q[i] = s[i]
      BY <1>2, <1>4, <3>1
    <3> QED BY <1>1, <1>5, <2>1, <3>1, <3>2
  <2>2. CASE ~(i < k)
    <3> DEFINE j == i - (k - 1)
    <3>1. /\ j \in 1 .. Len(b) /\ j \in 1 .. Len(s) - (k + 1) + 1
          /\ Len(a) + j = i /\ (k + 1) + j - 1 = i + 1 /\ at[i] = i + 1
      BY <1>1, <1>2, <1>3, <1>5, <2>2
    <3> HIDE DEF j
    <3>2. q[i] = s[i + 1]
      BY <1>3, <1>4, <3>1
    <3> QED BY <1>1, <1>5, <2>2, <3>1, <3>2
  <2> QED BY <2>1, <2>2
<1>7. \A i, j \in DOMAIN q : at[i] = at[j] => i = j
  BY <1>1, <1>5
<1> HIDE DEF at
<1>8. Distinct(q)
  BY <1>6, <1>7 DEF Distinct
<1>9. ~InSeq(s[k], q)
  BY <1>1, <1>6 DEF Distinct, InSeq
<1>10. InSeq(s[k], s) /\ \A n : InSeq(n, q) => InSeq(n, s)
  BY <1>1, <1>6 DEF InSeq
<1> QED BY <1>1, <1>8, <1>9, <1>10 DEF a, b, q

\* Nodes are numbers above that of no node.
LEMMA NodeNumbers ==
    Node \subseteq Int /\ NoNode \notin Node /\ NoNode \in Int /\ \A n \in Node : n > NoNode
  BY FS_CardinalityType, FiniteAssumption, MaxJobAssumption DEF Node, NoNode

Places == OnePlace /\ NoneAhead

\* A step of a worker leaves every node in one place.
LEMMA WorkerPlaces ==
    ASSUME TypeOK, Places, NEW w \in Workers, WorkerStep(w) \/ WorkerSpurious(w)
    PROVE  Places'
<1>1. CASE WorkerTake(w)
  <2> DEFINE h == Head(list)
  <2>1. /\ list \in Seq(Node) /\ list # <<>> /\ list' = Tail(list) /\ idle' = idle /\ fresh' = fresh
        /\ wtask' = [wtask EXCEPT ![w] = h] /\ node' = node
    BY <1>1 DEF WorkerTake, TypeOK, nodes, caller
  <2>2. /\ h \in Node /\ InSeq(h, list) /\ \A n : InSeq(n, list') => InSeq(n, list)
        /\ Distinct(list') /\ ~InSeq(h, list')
    BY <2>1, TakeHead DEF Places, OnePlace
  <2> HIDE DEF h
  <2>3. OnePlace'
    BY <2>1, <2>2, NodeNumbers DEF Places, OnePlace, TypeOK
  <2>4. NoneAhead'
    BY <2>1, <2>2, NodeNumbers DEF Places, NoneAhead, TypeOK
  <2> QED BY <2>3, <2>4 DEF Places
<1>2. CASE WorkerRelease(w)
  <2> DEFINE x == wtask[w]
  <2>1. /\ idle \in Seq(Node) /\ x \in Node /\ list' = list /\ fresh' = fresh
        /\ idle' = Append(idle, x) \/ idle' = idle
        /\ wtask' = [wtask EXCEPT ![w] = NoNode] /\ node' = node
    BY <1>2 DEF WorkerRelease, PutBack, At, TypeOK, pool, caller
  <2>2. ~InSeq(x, idle) /\ ~InSeq(x, list) /\ x < fresh /\ Distinct(idle)
    BY <2>1, NodeNumbers DEF Places, OnePlace, NoneAhead
  <2> HIDE DEF x
  <2>3. (\A n : InSeq(n, idle') => InSeq(n, idle) \/ n = x) /\ Distinct(idle')
    <3>1. /\ \A n : InSeq(n, Append(idle, x)) <=> InSeq(n, idle) \/ n = x
          /\ Distinct(Append(idle, x))
      BY <2>1, <2>2, PutLast, Zenon
    <3> QED BY <2>1, <2>2, <3>1, Zenon
  <2>4. OnePlace'
    BY <2>1, <2>2, <2>3, NodeNumbers DEF Places, OnePlace, TypeOK, x
  <2>5. NoneAhead'
    BY <2>1, <2>2, <2>3, NodeNumbers DEF Places, NoneAhead, TypeOK
  <2> QED BY <2>4, <2>5 DEF Places
<1>3. CASE UNCHANGED <<list, idle, wtask, node, fresh>>
  BY <1>3 DEF Places, OnePlace, NoneAhead
<1> QED
  BY <1>1, <1>2, <1>3
  DEF WorkerStep, WorkerActivate, WorkerCheck, WorkerExit, WorkerSleep, WorkerNothing,
      WorkerSpurious, WorkerRun, pool, nodes, caller

\* So does a step of a thread that dispatches or removes, unless it uses a node
\* that another has popped.
LEMMA CallerPlaces ==
    ASSUME TypeOK, Places, ~stale', NEW t \in Callers,
           CallerStep(t) \/ (t \in Dispatchers /\ (DispatchCall(t) \/ RemoveTask(t)))
    PROVE  Places'
<1>1. CASE NewTask(t) /\ idle # <<>> /\ idle' = Tail(idle)
           /\ node' = [node EXCEPT ![t] = Head(idle)] /\ fresh' = fresh
  <2> DEFINE h == Head(idle)
  <2>1. /\ idle \in Seq(Node) /\ idle # <<>> /\ idle' = Tail(idle) /\ list' = list /\ fresh' = fresh
        /\ node' = [node EXCEPT ![t] = h] /\ wtask' = wtask
    BY <1>1 DEF NewTask, TypeOK, pool, worker
  <2>2. /\ h \in Node /\ InSeq(h, idle) /\ \A n : InSeq(n, idle') => InSeq(n, idle)
        /\ Distinct(idle') /\ ~InSeq(h, idle')
    BY <2>1, TakeHead DEF Places, OnePlace
  <2> HIDE DEF h
  <2>3. OnePlace'
    BY <2>1, <2>2, NodeNumbers DEF Places, OnePlace, TypeOK
  <2>4. NoneAhead'
    BY <2>1, <2>2, NodeNumbers DEF Places, NoneAhead, TypeOK
  <2> QED BY <2>3, <2>4 DEF Places
<1>2. CASE NewTask(t) /\ fresh \in Node /\ fresh' = fresh + 1
           /\ node' = [node EXCEPT ![t] = fresh] /\ idle' = idle
  <2>1. list' = list /\ wtask' = wtask
    BY <1>2 DEF NewTask, pool, worker
  <2>2. ~InSeq(fresh, list) /\ ~InSeq(fresh, idle)
    BY <1>2, NodeNumbers DEF Places, NoneAhead
  <2>3. OnePlace'
    BY <1>2, <2>1, <2>2, NodeNumbers DEF Places, OnePlace, NoneAhead, TypeOK
  <2>4. NoneAhead'
    <3>1. \A n \in Int : n < fresh => n < fresh'
      BY <1>2, NodeNumbers
    <3>2. fresh < fresh'
      BY <1>2, NodeNumbers
    <3>3. \A n \in Node : InSeq(n, list') \/ InSeq(n, idle') => n < fresh'
      BY <1>2, <2>1, <3>1, NodeNumbers DEF Places, NoneAhead
    <3>4. \A w \in Workers : wtask'[w] < fresh'
      BY <2>1, <3>1, NodeNumbers DEF Places, NoneAhead, TypeOK
    <3>5. \A u \in Callers : node'[u] < fresh'
      BY <1>2, <3>1, <3>2, NodeNumbers DEF Places, NoneAhead, TypeOK
    <3> QED BY <3>3, <3>4, <3>5 DEF NoneAhead
  <2> QED BY <2>3, <2>4 DEF Places
<1>3. CASE AppendTask(t)
  <2> DEFINE x == node[t]
  <2>1. /\ list \in Seq(Node) /\ x \in Node /\ idle' = idle /\ fresh' = fresh
        /\ list' = <<x>> \o list \/ list' = Append(list, x)
        /\ node' = [node EXCEPT ![t] = NoNode] /\ wtask' = wtask
    BY <1>3 DEF AppendTask, TypeOK, nodes
  <2>2. ~InSeq(x, idle) /\ ~InSeq(x, list) /\ x < fresh /\ Distinct(list)
    BY <2>1, NodeNumbers DEF Places, OnePlace, NoneAhead
  <2> HIDE DEF x
  <2>3. (\A n : InSeq(n, list') => InSeq(n, list) \/ n = x) /\ Distinct(list')
    <3>1. /\ \A n : InSeq(n, Append(list, x)) <=> InSeq(n, list) \/ n = x
          /\ Distinct(Append(list, x))
      BY <2>1, <2>2, PutLast, Zenon
    <3>2. /\ \A n : InSeq(n, <<x>> \o list) <=> InSeq(n, list) \/ n = x
          /\ Distinct(<<x>> \o list)
      BY <2>1, <2>2, PutFirst, Zenon
    <3> QED BY <2>1, <2>2, <3>1, <3>2, Zenon
  <2>4. OnePlace'
    BY <2>1, <2>2, <2>3, NodeNumbers DEF Places, OnePlace, TypeOK, x
  <2>5. NoneAhead'
    BY <2>1, <2>2, <2>3, NodeNumbers DEF Places, NoneAhead, TypeOK
  <2> QED BY <2>4, <2>5 DEF Places
<1>4. CASE RemoveRelease(t)
  <2> DEFINE x == node[t]
  <2>1. /\ idle \in Seq(Node) /\ x \in Node /\ list' = list /\ fresh' = fresh
        /\ idle' = Append(idle, x) \/ idle' = idle
        /\ node' = [node EXCEPT ![t] = NoNode] /\ wtask' = wtask
    BY <1>4 DEF RemoveRelease, PutBack, TypeOK, pool, worker
  <2>2. ~InSeq(x, idle) /\ ~InSeq(x, list) /\ x < fresh /\ Distinct(idle)
    BY <2>1, NodeNumbers DEF Places, OnePlace, NoneAhead
  <2> HIDE DEF x
  <2>3. (\A n : InSeq(n, idle') => InSeq(n, idle) \/ n = x) /\ Distinct(idle')
    <3>1. /\ \A n : InSeq(n, Append(idle, x)) <=> InSeq(n, idle) \/ n = x
          /\ Distinct(Append(idle, x))
      BY <2>1, <2>2, PutLast, Zenon
    <3> QED BY <2>1, <2>2, <3>1, Zenon
  <2>4. OnePlace'
    BY <2>1, <2>2, <2>3, NodeNumbers DEF Places, OnePlace, TypeOK, x
  <2>5. NoneAhead'
    BY <2>1, <2>2, <2>3, NodeNumbers DEF Places, NoneAhead, TypeOK
  <2> QED BY <2>4, <2>5 DEF Places
<1>5. CASE RemoveTask(t)
  <2>1. PICK k \in 2 .. Len(list) :
            /\ list' = SubSeq(list, 1, k - 1) \o SubSeq(list, k + 1, Len(list))
            /\ node' = [node EXCEPT ![t] = list[k]]
    BY <1>5 DEF RemoveTask
  <2>2. /\ list \in Seq(Node) /\ k \in 1 .. Len(list) /\ idle' = idle /\ fresh' = fresh /\ wtask' = wtask
    BY <1>5 DEF RemoveTask, TypeOK, nodes, worker
  <2> DEFINE h == list[k]
  <2>3. /\ h \in Node /\ InSeq(h, list) /\ \A n : InSeq(n, list') => InSeq(n, list)
        /\ Distinct(list') /\ ~InSeq(h, list')
    BY <2>1, <2>2, CutOut DEF Places, OnePlace
  <2>4. node' = [node EXCEPT ![t] = h]
    BY <2>1
  <2> HIDE DEF h
  <2>5. OnePlace'
    BY <2>2, <2>3, <2>4, NodeNumbers DEF Places, OnePlace, TypeOK
  <2>6. NoneAhead'
    BY <2>2, <2>3, <2>4, NodeNumbers DEF Places, NoneAhead, TypeOK
  <2> QED BY <2>5, <2>6 DEF Places
<1>6. CASE DispatchCall(t)
  BY <1>6 DEF DispatchCall, pool, nodes, worker, Places, OnePlace, NoneAhead
<1>7. NewTask(t) => \/ NewTask(t) /\ idle # <<>> /\ idle' = Tail(idle)
                       /\ node' = [node EXCEPT ![t] = Head(idle)] /\ fresh' = fresh
                    \/ NewTask(t) /\ fresh \in Node /\ fresh' = fresh + 1
                       /\ node' = [node EXCEPT ![t] = fresh] /\ idle' = idle
  BY DEF NewTask
<1>8. CASE CopyIdle(t)
  BY <1>8 DEF CopyIdle, pool, nodes, worker, caller, Places, OnePlace, NoneAhead
<1>9. ~UseLost(t)
  BY DEF UseLost
<1> QED BY <1>1, <1>2, <1>3, <1>4, <1>5, <1>6, <1>7, <1>8, <1>9 DEF CallerStep

\* So does every step.
PlacesInv == stale \/ Places

LEMMA PlacesStep == TypeOK /\ PlacesInv /\ [Next]_vars => PlacesInv'
<1> SUFFICES ASSUME TypeOK, PlacesInv, [Next]_vars, ~stale' PROVE Places'
  BY DEF PlacesInv
<1>0. Places
  BY DEF PlacesInv, Next, vars
<1>1. CASE \E w \in Workers : WorkerStep(w) \/ WorkerSpurious(w)
  BY <1>0, <1>1, WorkerPlaces
<1>2. CASE \E t \in Callers : CallerStep(t) \/ (t \in Dispatchers /\ (DispatchCall(t) \/ RemoveTask(t)))
  BY <1>0, <1>2, CallerPlaces
<1>3. CASE Release
  <2>1. /\ list' = <<>> /\ idle' = idle /\ wtask' = wtask /\ node' = node /\ fresh' = fresh
        /\ \A n : ~InSeq(n, list')
    BY <1>3 DEF Release, nodes, worker, caller, InSeq
  <2>2. Distinct(list')
    BY <2>1 DEF Distinct
  <2> QED BY <1>0, <2>1, <2>2 DEF Places, OnePlace, NoneAhead
<1>4. CASE UNCHANGED <<list, idle, wtask, node, fresh>>
  BY <1>0, <1>4 DEF Places, OnePlace, NoneAhead
<1>5. UNCHANGED vars => UNCHANGED <<list, idle, wtask, node, fresh>>
  BY DEF vars
<1>6. Start \/ StopCall \/ StopStep \/ Join => UNCHANGED <<list, idle, wtask, node, fresh>>
  BY DEF Start, StopCall, StopStep, StopTest, StopSignal, StopBroadcast, Join, pool, nodes, worker, caller
<1> QED BY <1>1, <1>2, <1>3, <1>4, <1>5, <1>6 DEF Next, Callers

\* Until a caller uses a node that it lost, every task node is in one place: the
\* list, the idle queue, a worker or a caller of the pool; and ztl_palloc has
\* handed it out.
THEOREM PlacesInvariant == Spec => []PlacesInv
<1>1. Init => PlacesInv
  <2> SUFFICES ASSUME Init PROVE Places
    BY DEF PlacesInv
  <2>1. \A n : ~InSeq(n, list) /\ ~InSeq(n, idle)
    BY DEF Init, InSeq
  <2>2. Distinct(list) /\ Distinct(idle)
    BY DEF Init, Distinct
  <2> QED BY <2>1, <2>2 DEF Init, Places, OnePlace, NoneAhead, NoNode
<1> QED BY <1>1, PoolTypeCorrect, PlacesStep, PTL DEF Spec

\* A set that holds at most one element is counted 0 or 1.
LEMMA AtMostOne ==
    ASSUME NEW S, \A x, y \in S : x = y
    PROVE  (S = {} /\ Cardinality(S) = 0) \/ (S # {} /\ Cardinality(S) = 1)
<1>1. CASE S = {}
  BY <1>1, FS_EmptySet
<1>2. CASE S # {}
  <2>1. PICK x \in S : TRUE
    BY <1>2
  <2>2. S = {x}
    BY <2>1
  <2> QED BY <1>2, <2>2, FS_Singleton
<1> QED BY <1>1, <1>2

\* A task node is never in two places: not twice in the list or in idle_tasks, not
\* in both, and not there while a worker or a caller has it.
THEOREM NodesAreExclusive == Spec => []NodeExclusive
<1>1. TypeOK /\ PlacesInv => NodeExclusive
  <2> SUFFICES ASSUME TypeOK, Places, NEW n \in Node
               PROVE  Times(n, list) + Times(n, idle) + Cardinality({w \in Workers : wtask[w] = n})
                        + Cardinality({t \in Callers : node[t] = n}) <= 1
    BY DEF NodeExclusive, PlacesInv
  <2> DEFINE A == {i \in DOMAIN list : list[i] = n}
             B == {i \in DOMAIN idle : idle[i] = n}
             C == {w \in Workers : wtask[w] = n}
             D == {t \in Callers : node[t] = n}
  <2>1. (A = {} /\ Cardinality(A) = 0) \/ (A # {} /\ Cardinality(A) = 1)
    BY AtMostOne DEF Places, OnePlace, Distinct
  <2>2. (B = {} /\ Cardinality(B) = 0) \/ (B # {} /\ Cardinality(B) = 1)
    BY AtMostOne DEF Places, OnePlace, Distinct
  <2>3. (C = {} /\ Cardinality(C) = 0) \/ (C # {} /\ Cardinality(C) = 1)
    <3>1. \A w, v \in C : w = v
      BY NodeNumbers DEF Places, OnePlace
    <3> QED BY <3>1, AtMostOne
  <2>4. (D = {} /\ Cardinality(D) = 0) \/ (D # {} /\ Cardinality(D) = 1)
    <3>1. \A t, u \in D : t = u
      BY NodeNumbers DEF Places, OnePlace
    <3> QED BY <3>1, AtMostOne
  <2>5. /\ A # {} => B = {} /\ C = {} /\ D = {}
        /\ B # {} => C = {} /\ D = {}
        /\ C # {} => D = {}
    <3>1. (A # {} <=> InSeq(n, list)) /\ (B # {} <=> InSeq(n, idle))
      BY DEF InSeq
    <3>2. C # {} => ~InSeq(n, list) /\ ~InSeq(n, idle) /\ D = {}
      BY NodeNumbers DEF Places, OnePlace
    <3>3. D # {} => ~InSeq(n, list) /\ ~InSeq(n, idle)
      BY NodeNumbers DEF Places, OnePlace
    <3>4. InSeq(n, list) => ~InSeq(n, idle)
      BY DEF Places, OnePlace
    <3> QED BY <3>1, <3>2, <3>3, <3>4
  <2> HIDE DEF A, B, C, D
  <2>6. Cardinality(A) + Cardinality(B) + Cardinality(C) + Cardinality(D) <= 1
    BY <2>1, <2>2, <2>3, <2>4, <2>5
  <2> QED BY <2>6 DEF Times, A, B, C, D
<1> QED BY <1>1, PoolTypeCorrect, PlacesInvariant, PTL

\* The nodes whose task is still to be run.
Live ==
    {n \in Node :
       \/ InSeq(n, list)
       \/ \E w \in Workers : wpc[w] = "run" /\ wtask[w] = n
       \/ \E t \in Callers : pc[t] = "append" /\ node[t] = n}

\* A job that has been dispatched, has not run and was not removed.
Waiting(j) == j = 0 \/ (j \in 1 .. jobs /\ runs[j] = 0 /\ j \notin removed)

\* A job is with one caller that has no node yet, or in one live node, and waits.
OneCarrier ==
    /\ \A n \in Live : Waiting(mem[n].job)
    /\ \A t \in Callers : Waiting(task[t].job)
    /\ \A n, m \in Live : mem[n].job = mem[m].job => n = m \/ mem[n].job = 0
    /\ \A t, u \in Callers : task[t].job = task[u].job => t = u \/ task[t].job = 0
    /\ \A n \in Live, t \in Callers : mem[n].job = task[t].job => task[t].job = 0

\* Nothing is known of a job before it is dispatched.
Untouched == \A j \in 1 .. MaxJob : j > jobs => runs[j] = 0 /\ j \notin removed

Once == \A j \in 1 .. MaxJob : runs[j] <= (IF j \in removed THEN 0 ELSE 1)

JobInv == OneCarrier /\ Untouched /\ Once

\* A step after which no more nodes are live, and that changes nothing else here.
LEMMA FewerLive ==
    ASSUME JobInv, Live' \subseteq Live, UNCHANGED <<mem, task, jobs, runs, removed>>
    PROVE  JobInv'
<1>1. OneCarrier'
  BY DEF JobInv, OneCarrier, Waiting
<1>2. Untouched' /\ Once'
  BY DEF JobInv, Untouched, Once
<1> QED BY <1>1, <1>2 DEF JobInv

\* A worker's step that neither takes nor runs a task makes no node live.
LEMMA WorkerIdles ==
    ASSUME TypeOK, NEW w \in Workers, NEW l \in WorkerLabel, l # "run", WorkerGoto(w, l),
           UNCHANGED <<list, pc, node>>,
           wtask' = wtask \/ wtask' = [wtask EXCEPT ![w] = NoNode]
    PROVE  Live' \subseteq Live
<1>1. \A v \in Workers : wpc'[v] = "run" => wpc[v] = "run" /\ wtask'[v] = wtask[v]
  BY DEF TypeOK, WorkerGoto
<1> QED BY <1>1 DEF Live

\* A step of a worker.
LEMMA WorkerJobs ==
    ASSUME TypeOK, Places, JobInv, NEW w \in Workers, WorkerStep(w) \/ WorkerSpurious(w)
    PROVE  JobInv'
<1> USE DEF WorkerLabel
<1>1. CASE WorkerTake(w)
  <2>1. list \in Seq(Node) /\ list # <<>> /\ list' = Tail(list)
    BY <1>1 DEF WorkerTake, TypeOK
  <2>2. InSeq(Head(list), list) /\ \A n : InSeq(n, list') => InSeq(n, list)
    BY <2>1, TakeHead
  <2>3. \A v \in Workers : wpc'[v] = "run" => \/ v = w /\ wtask'[v] = Head(list)
                                              \/ wpc[v] = "run" /\ wtask'[v] = wtask[v]
    BY <1>1 DEF WorkerTake, WorkerGoto, TypeOK
  <2>4. UNCHANGED <<pc, node, mem, task, jobs, runs, removed>>
    BY <1>1 DEF WorkerTake, nodes, caller, history
  <2>5. Live' \subseteq Live
    BY <2>2, <2>3, <2>4 DEF Live
  <2> QED BY <2>4, <2>5, FewerLive
<1>2. CASE WorkerRun(w)
  <2> DEFINE x == wtask[w]
             j == mem[x].job
  <2>1. /\ x \in Node /\ wpc[w] = "run" /\ runs \in [1 .. MaxJob -> Nat] /\ wpc' = [wpc EXCEPT ![w] = "release"]
        /\ UNCHANGED <<list, wtask, pc, node, mem, task, jobs, removed>>
    BY <1>2 DEF WorkerRun, WorkerGoto, At, TypeOK, pool, nodes, caller
  <2>2. x \in Live
    BY <2>1 DEF Live
  <2>3. x \notin Live'
    BY <2>1, NodeNumbers DEF Live, Places, OnePlace, TypeOK
  <2>4. Live' \subseteq Live
    BY <2>1, WorkerIdles DEF WorkerGoto
  <2>5. Waiting(j)
    BY <2>2 DEF JobInv, OneCarrier
  <2>6. CASE j = 0
    <3>1. runs' = runs
      BY <1>2, <2>6 DEF WorkerRun, RunOf
    <3> QED BY <2>1, <2>4, <3>1, FewerLive
  <2>7. CASE j # 0
    <3>1. runs' = [runs EXCEPT ![j] = @ + 1]
      BY <1>2, <2>7 DEF WorkerRun, RunOf
    <3>2. j \in 1 .. jobs /\ runs[j] = 0 /\ j \notin removed /\ j \in 1 .. MaxJob
      BY <2>5, <2>7, MaxJobAssumption DEF Waiting, TypeOK
    <3>3. /\ \A n \in Live' : mem[n].job # j
          /\ \A t \in Callers : task[t].job # j
      BY <2>2, <2>3, <2>4, <2>7 DEF JobInv, OneCarrier
    <3> HIDE DEF j
    <3>4. runs'[j] = 1 /\ \A i \in 1 .. MaxJob : i # j => runs'[i] = runs[i]
      BY <2>1, <3>1, <3>2
    <3>5. \A i : Waiting(i) /\ i # j => Waiting(i)'
      BY <2>1, <3>4, MaxJobAssumption DEF Waiting, TypeOK
    <3>6. OneCarrier'
      BY <2>1, <2>4, <3>3, <3>5 DEF JobInv, OneCarrier
    <3>7. Untouched'
      BY <2>1, <3>2, <3>4, MaxJobAssumption DEF JobInv, Untouched, TypeOK
    <3>8. Once'
      BY <2>1, <3>2, <3>4 DEF JobInv, Once
    <3> QED BY <3>6, <3>7, <3>8 DEF JobInv
  <2> QED BY <2>6, <2>7
<1>3. CASE WorkerRelease(w)
  <2>1. /\ UNCHANGED <<list, pc, node, mem, task, jobs, runs, removed>>
        /\ wtask' = [wtask EXCEPT ![w] = NoNode] /\ WorkerGoto(w, "loop")
    BY <1>3 DEF WorkerRelease, PutBack, pool, caller, history
  <2> QED BY <2>1, WorkerIdles, FewerLive
<1>4. ASSUME NEW l \in WorkerLabel \ {"run"}, WorkerGoto(w, l),
             UNCHANGED <<list, wtask, pc, node, mem, task, jobs, runs, removed>>
      PROVE  JobInv'
  BY <1>4, WorkerIdles, FewerLive
<1>5. CASE WorkerActivate(w)
  BY <1>4, <1>5 DEF WorkerActivate, nodes, caller, history
<1>6. CASE WorkerCheck(w)
  BY <1>4, <1>6 DEF WorkerCheck, pool, nodes, caller, history
<1>7. CASE WorkerExit(w)
  BY <1>4, <1>7 DEF WorkerExit, nodes, caller, history
<1>8. CASE WorkerSleep(w)
  BY <1>4, <1>8 DEF WorkerSleep, pool, nodes, caller, history
<1>9. CASE WorkerNothing(w)
  BY <1>4, <1>9 DEF WorkerNothing, pool, nodes, caller, history
<1>10. CASE WorkerSpurious(w)
  BY <1>4, <1>10 DEF WorkerSpurious, pool, nodes, caller, history
<1> QED BY <1>1, <1>2, <1>3, <1>5, <1>6, <1>7, <1>8, <1>9, <1>10 DEF WorkerStep

\* A signal starts no worker on a task.
LEMMA SignalRuns ==
    ASSUME TypeOK, Signal
    PROVE  \A v \in Workers : wpc'[v] = "run" => wpc[v] = "run"
  BY DEF TypeOK, Signal, Asleep, WorkerGoto

\* A step of a thread that dispatches or removes.
LEMMA CallerJobs ==
    ASSUME TypeOK, Places, JobInv, ~stale', NEW t \in Callers,
           CallerStep(t) \/ (t \in Dispatchers /\ (DispatchCall(t) \/ RemoveTask(t)))
    PROVE  JobInv'
<1>1. CASE NewTask(t)
  <2>1. PICK x \in Node :
            /\ node' = [node EXCEPT ![t] = x] /\ mem' = [mem EXCEPT ![x] = task[t]]
            /\ (idle # <<>> /\ x = Head(idle)) \/ x = fresh
    <3>1. idle # <<>> => Head(idle) \in Node
      BY TakeHead DEF TypeOK
    <3> QED BY <1>1, <3>1 DEF NewTask
  <2>2. /\ task' = [task EXCEPT ![t] = EmptyTask] /\ pc' = [pc EXCEPT ![t] = "append"]
        /\ UNCHANGED <<list, wpc, wtask, jobs, runs, removed>>
    BY <1>1 DEF NewTask, Goto, pool, worker, history
  <2>3. /\ ~InSeq(x, list) /\ \A w \in Workers : wtask[w] # x
        /\ \A u \in Callers : node[u] # x
    <3>1. CASE idle # <<>> /\ x = Head(idle)
      <4>1. InSeq(x, idle)
        BY <3>1, TakeHead DEF TypeOK
      <4> QED BY <4>1, NodeNumbers DEF Places, OnePlace
    <3>2. CASE x = fresh
      BY <3>2, NodeNumbers DEF Places, NoneAhead
    <3> QED BY <2>1, <3>1, <3>2
  <2>4. x \notin Live /\ Live' \subseteq Live \cup {x}
    BY <2>1, <2>2, <2>3 DEF Live, TypeOK
  <2>5. /\ mem'[x] = task[t] /\ \A n \in Live : mem'[n] = mem[n]
        /\ task'[t].job = 0 /\ \A u \in Callers : u # t => task'[u] = task[u]
    BY <2>1, <2>2, <2>4 DEF Live, EmptyTask, TypeOK
  <2>6. \A i : Waiting(i) => Waiting(i)'
    BY <2>2 DEF Waiting
  <2>7. Waiting(0)'
    BY DEF Waiting
  <2>8. OneCarrier'
    BY <2>4, <2>5, <2>6, <2>7 DEF JobInv, OneCarrier
  <2>9. Untouched' /\ Once'
    BY <2>2 DEF JobInv, Untouched, Once
  <2> QED BY <2>8, <2>9 DEF JobInv
<1>2. CASE AppendTask(t)
  <2> DEFINE x == node[t]
  <2>1. /\ list \in Seq(Node) /\ x \in Node /\ pc[t] = "append"
        /\ list' = <<x>> \o list \/ list' = Append(list, x)
        /\ node' = [node EXCEPT ![t] = NoNode]
        /\ UNCHANGED <<wtask, mem, task, jobs, runs, removed>>
    BY <1>2 DEF AppendTask, TypeOK, nodes, history
  <2>2. \A u \in Callers : pc'[u] = "append" => pc[u] = "append" /\ node'[u] = node[u]
    BY <1>2, <2>1 DEF AppendTask, Goto, TypeOK
  <2>3. \A v \in Workers : wpc'[v] = "run" => wpc[v] = "run"
    BY <1>2, SignalRuns DEF AppendTask
  <2>4. x \in Live
    BY <2>1 DEF Live
  <2> HIDE DEF x
  <2>5. \A n : InSeq(n, list') => InSeq(n, list) \/ n = x
    <3>1. \A n : InSeq(n, Append(list, x)) <=> InSeq(n, list) \/ n = x
      BY <2>1, PutLast, Zenon
    <3>2. \A n : InSeq(n, <<x>> \o list) <=> InSeq(n, list) \/ n = x
      BY <2>1, PutFirst, Zenon
    <3> QED BY <2>1, <3>1, <3>2, Zenon
  <2>6. Live' \subseteq Live
    BY <2>1, <2>2, <2>3, <2>4, <2>5 DEF Live
  <2> QED BY <2>1, <2>6, FewerLive
<1>3. CASE RemoveRelease(t)
  <2>1. UNCHANGED <<list, wpc, wtask, mem, task, jobs, runs, removed>>
    BY <1>3 DEF RemoveRelease, PutBack, pool, worker, history
  <2>2. \A u \in Callers : pc'[u] = "append" => pc[u] = "append" /\ node'[u] = node[u]
    BY <1>3 DEF RemoveRelease, Goto, TypeOK
  <2>3. Live' \subseteq Live
    BY <2>1, <2>2 DEF Live
  <2> QED BY <2>1, <2>3, FewerLive
<1>4. CASE DispatchCall(t)
  <2>1. PICK f \in Funcs : task' = [task EXCEPT ![t] = [job |-> jobs + 1, func |-> f]]
    BY <1>4 DEF DispatchCall
  <2>2. /\ jobs \in 0 .. MaxJob /\ jobs < MaxJob /\ jobs' = jobs + 1
        /\ UNCHANGED <<list, wpc, wtask, node, mem, runs, removed>>
    BY <1>4 DEF DispatchCall, TypeOK, pool, nodes, worker, history
  <2>3. \A u \in Callers : pc'[u] = "append" => pc[u] = "append"
    BY <1>4 DEF DispatchCall, Goto, TypeOK
  <2>4. Live' \subseteq Live
    BY <2>2, <2>3 DEF Live
  <2>5. task'[t].job = jobs + 1 /\ \A u \in Callers : u # t => task'[u] = task[u]
    BY <2>1 DEF TypeOK
  <2>6. \A i : Waiting(i) => Waiting(i)' /\ i # jobs + 1
    BY <2>2, MaxJobAssumption DEF Waiting
  <2>7. \A i : i = jobs + 1 => Waiting(i)'
    BY <2>2, MaxJobAssumption DEF Waiting, JobInv, Untouched
  <2>8. OneCarrier'
    BY <2>2, <2>4, <2>5, <2>6, <2>7 DEF JobInv, OneCarrier
  <2>9. Untouched'
    BY <2>2, MaxJobAssumption DEF JobInv, Untouched
  <2>10. Once'
    BY <2>2 DEF JobInv, Once
  <2> QED BY <2>8, <2>9, <2>10 DEF JobInv
<1>5. CASE RemoveTask(t)
  <2>1. PICK k \in 2 .. Len(list) :
            /\ list' = SubSeq(list, 1, k - 1) \o SubSeq(list, k + 1, Len(list))
            /\ node' = [node EXCEPT ![t] = list[k]]
            /\ removed' = removed \cup {mem[list[k]].job}
    BY <1>5 DEF RemoveTask
  <2> DEFINE x == list[k]
             j == mem[x].job
  <2>2. /\ list \in Seq(Node) /\ k \in 1 .. Len(list)
        /\ UNCHANGED <<wpc, wtask, mem, task, jobs, runs>>
    BY <1>5 DEF RemoveTask, TypeOK, nodes, worker
  <2>3. \A u \in Callers : pc'[u] = "append" => pc[u] = "append" /\ node'[u] = node[u]
    BY <1>5, <2>1 DEF RemoveTask, Goto, TypeOK
  <2>4. /\ x \in Node /\ InSeq(x, list) /\ ~InSeq(x, list')
        /\ \A n : InSeq(n, list') => InSeq(n, list)
    BY <2>1, <2>2, CutOut DEF Places, OnePlace
  <2>5. removed' = removed \cup {j}
    BY <2>1
  <2> HIDE DEF x
  <2>6. x \in Live
    BY <2>4 DEF Live
  <2>7. x \notin Live' /\ Live' \subseteq Live
    BY <2>2, <2>3, <2>4, NodeNumbers DEF Live, Places, OnePlace
  <2>8. Waiting(j)
    BY <2>6 DEF JobInv, OneCarrier
  <2>9. \A n \in Live' : mem[n].job = j => j = 0
    BY <2>6, <2>7 DEF JobInv, OneCarrier
  <2>10. \A u \in Callers : task[u].job = j => j = 0
    BY <2>6 DEF JobInv, OneCarrier
  <2> HIDE DEF j
  <2>11. \A i : Waiting(i) /\ (i = j => j = 0) => Waiting(i)'
    BY <2>2, <2>5 DEF Waiting
  <2>12. OneCarrier'
    BY <2>2, <2>7, <2>9, <2>10, <2>11 DEF JobInv, OneCarrier
  <2>13. j = 0 \/ (j \in 1 .. jobs /\ runs[j] = 0)
    BY <2>8 DEF Waiting
  <2>14. Untouched'
    BY <2>2, <2>5, <2>13, MaxJobAssumption DEF JobInv, Untouched, TypeOK
  <2>15. Once'
    BY <2>2, <2>5, <2>13 DEF JobInv, Once
  <2> QED BY <2>12, <2>14, <2>15 DEF JobInv
<1>6. CASE CopyIdle(t)
  <2>1. UNCHANGED <<list, wpc, wtask, pc, node, mem, task, jobs, runs, removed>>
    BY <1>6 DEF CopyIdle, pool, nodes, worker, caller, history
  <2>2. Live' \subseteq Live
    BY <2>1 DEF Live
  <2> QED BY <2>1, <2>2, FewerLive
<1>7. ~UseLost(t)
  BY DEF UseLost
<1> QED BY <1>1, <1>2, <1>3, <1>4, <1>5, <1>6, <1>7 DEF CallerStep

\* Every step.
JobsInv == stale \/ JobInv

LEMMA JobStep == TypeOK /\ PlacesInv /\ JobsInv /\ [Next]_vars => JobsInv'
<1> SUFFICES ASSUME TypeOK, PlacesInv, JobsInv, [Next]_vars, ~stale' PROVE JobInv'
  BY DEF JobsInv
<1>0. Places /\ JobInv
  BY DEF PlacesInv, JobsInv, Next, vars
<1>1. CASE \E w \in Workers : WorkerStep(w) \/ WorkerSpurious(w)
  BY <1>0, <1>1, WorkerJobs
<1>2. CASE \E t \in Callers : CallerStep(t) \/ (t \in Dispatchers /\ (DispatchCall(t) \/ RemoveTask(t)))
  BY <1>0, <1>2, CallerJobs
<1>3. ASSUME UNCHANGED <<wtask, node, mem, task, jobs, runs, removed>>, list' \in {list, <<>>},
             \A v \in Workers : wpc'[v] = "run" => wpc[v] = "run",
             \A u \in Callers : pc'[u] = "append" => pc[u] = "append"
      PROVE  JobInv'
  <2>1. \A n : InSeq(n, list') => InSeq(n, list)
    BY <1>3 DEF InSeq
  <2>2. Live' \subseteq Live
    BY <1>3, <2>1 DEF Live
  <2> QED BY <1>0, <1>3, <2>2, FewerLive
<1>4. CASE Start
  BY <1>3, <1>4 DEF Start, pool, nodes, caller, history
<1>5. CASE StopCall
  BY <1>3, <1>5 DEF StopCall, Goto, nodes, worker, history, TypeOK
<1>6. CASE StopTest
  BY <1>3, <1>6 DEF StopTest, Goto, pool, nodes, worker, history, TypeOK
<1>7. CASE StopSignal
  BY <1>3, <1>7, SignalRuns DEF StopSignal, Goto, pool, nodes, history, TypeOK
<1>8. CASE StopBroadcast
  BY <1>3, <1>8 DEF StopBroadcast, Goto, pool, nodes, history, TypeOK
<1>9. CASE Join
  BY <1>3, <1>9 DEF Join, nodes, worker, caller, history
<1>10. CASE Release
  BY <1>3, <1>10 DEF Release, nodes, worker, caller, history
<1>11. CASE UNCHANGED vars
  BY <1>3, <1>11 DEF vars
<1> QED BY <1>1, <1>2, <1>4, <1>5, <1>6, <1>7, <1>8, <1>9, <1>10, <1>11 DEF Next, StopStep, Callers

\* A dispatched job is run at most once, and not at all once ztl_thrpool_remove
\* has taken it out, although its node is handed on and used again.
THEOREM JobsRunOnce == Spec => []RunsOnce
<1>1. Init => JobsInv
  <2> SUFFICES ASSUME Init PROVE JobInv
    BY DEF JobsInv
  <2>1. Live = {}
    BY DEF Init, Live, InSeq
  <2>2. \A t \in Callers : task[t].job = 0
    BY DEF Init, EmptyTask
  <2>3. OneCarrier
    BY <2>1, <2>2 DEF OneCarrier, Waiting
  <2>4. Untouched /\ Once
    BY DEF Init, Untouched, Once
  <2> QED BY <2>3, <2>4 DEF JobInv
<1>2. JobsInv => RunsOnce
  BY DEF JobsInv, JobInv, Once, RunsOnce
<1> QED BY <1>1, <1>2, PoolTypeCorrect, PlacesInvariant, JobStep, PTL DEF Spec
=============================================================================
