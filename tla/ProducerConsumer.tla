--------------------------- MODULE ProducerConsumer ---------------------------
(***************************************************************************)
(* ztl_producer_consumer.c: any thread posts (handler, type, data) into a  *)
(* bounded queue; one worker thread pops and runs the handlers.  The worker*)
(* sleeps on a ztl_simevent when the queue is empty and is stopped by a    *)
(* queued handler that returns false.                                      *)
(*                                                                         *)
(* The queue is the abstract FifoQueue that lockfreequeue.c implements: a  *)
(* push reserves, then commits in reservation order.  The reads of wtindex *)
(* and rdindex and the compare-and-swap are kept as steps: a push that lost*)
(* a race may be told "full" by a queue that is not, and one that slept    *)
(* while the indices went round may enter a queue that has no room; from   *)
(* there on nothing is modelled.  ztl_simple_event.c keeps no memory of a  *)
(* signal (bsignaled is written, never read), so a signal wakes the worker *)
(* only if it is asleep at that moment.                                    *)
(***************************************************************************)
EXTENDS Integers, Sequences, FiniteSets

CONSTANTS Posters,     \* threads that call ztl_pc_post
          Control,     \* the thread that calls ztl_pc_start, _stop and _release
          QueSize,     \* quesize of ztl_pc_create
          Wrap,        \* the counter is unsigned: count is kept modulo Wrap (2^32)
          MaxPost,     \* bound: posts
          MaxStart     \* bound: calls of ztl_pc_start

ASSUME ControlAssumption == Control \notin Posters
ASSUME QueSizeAssumption == QueSize \in Nat \ {0}
ASSUME PostersAssumption == IsFiniteSet(Posters)
ASSUME WrapAssumption == Wrap \in Nat \ {0}
ASSUME BoundsAssumption == MaxPost \in Nat /\ MaxStart \in Nat

Callers == Posters \cup {Control}

\* What a handler makes the worker do: go on, quit, or the sentinel of
\* ztl_pc_stop (_ztl_pc_handler_empty), which makes it quit too.
Kind == {"go", "quit", "stop"}
Item == [id : 0 .. MaxPost, kind : Kind]
Sentinel == [id |-> 0, kind |-> "stop"]

VARIABLES pending, ready, delivered,   \* the queue,
          overrun,       \* and whether a push entered it without room
          count, started, freed,
          pc, item,      \* of each caller: where it is, what it posts,
          seen,          \* and how many places were reserved when it read wtindex
          wpc, witem,    \* of the worker
          posts, starts,
          mustRun,       \* ids accepted before the last call of ztl_pc_stop
          astray         \* a worker quit for another handler than the sentinel, or
                         \* could not be made: a sentinel may stay in the queue

queue   == <<pending, ready, delivered, overrun>>
caller  == <<pc, item, seen>>
worker  == <<wpc, witem>>
bounds  == <<posts, starts>>
history == <<mustRun, astray>>
vars == <<pending, ready, delivered, overrun, count, started, freed, pc, item, seen,
          wpc, witem, posts, starts, mustRun, astray>>

Q == INSTANCE FifoQueue WITH Capacity <- QueSize - 1

Ids(s) == {s[i].id : i \in DOMAIN s} \ {0}

\* The posts whose handler has run.
Handled == Ids(delivered) \ {witem.id}

-----------------------------------------------------------------------------
Init ==
    /\ Q!FifoInit
    /\ overrun = FALSE
    /\ count = 0
    /\ started = FALSE
    /\ freed = FALSE
    /\ pc = [t \in Callers |-> "idle"]
    /\ item = [t \in Callers |-> Sentinel]
    /\ seen = [t \in Callers |-> 0]
    /\ wpc = "none"
    /\ witem = Sentinel
    /\ posts = 0
    /\ starts = 0
    /\ mustRun = {}
    /\ astray = FALSE

Goto(t, label) == pc' = [pc EXCEPT ![t] = label]

\* ztl_pc_stop goes on after its post, whatever the post returned.
PostReturn(t) ==
    /\ Goto(t, IF t = Control THEN "clear" ELSE "idle")
    /\ item' = [item EXCEPT ![t] = Sentinel]
    /\ seen' = [seen EXCEPT ![t] = 0]

(* ztl_pc_post *)

\* The check of started; ZTL_ERR_NotStarted changes nothing.
PostCall(t) ==
    /\ t # Control
    /\ pc[t] = "idle"
    /\ posts < MaxPost
    /\ started
    /\ posts' = posts + 1
    /\ \E k \in {"go", "quit"} :
         item' = [item EXCEPT ![t] = [id |-> posts + 1, kind |-> k]]
    /\ Goto(t, "push")
    /\ UNCHANGED <<queue, count, started, freed, seen, worker, starts, history>>

Reserved == Len(delivered) + Len(ready) + Len(pending)

\* The full check of lfqueue_push compares indices modulo the array size.
LooksFull(t) == (seen[t] + 1 - Len(delivered)) % QueSize = 0

\* Its compare-and-swap compares indices too, and does not see a whole round.
SameIndex(t) == seen[t] % QueSize = Reserved % QueSize

PostRead(t) ==
    /\ pc[t] = "push"
    /\ seen' = [seen EXCEPT ![t] = Reserved]
    /\ Goto(t, "push_full")
    /\ UNCHANGED <<queue, count, started, freed, item, worker, bounds, history>>

PostRoom(t) ==
    /\ pc[t] = "push_full"
    /\ ~LooksFull(t)
    /\ Goto(t, "push_cas")
    /\ UNCHANGED <<queue, count, started, freed, item, seen, worker, bounds, history>>

PostRetry(t) ==
    /\ pc[t] = "push_cas"
    /\ ~SameIndex(t)
    /\ Goto(t, "push")
    /\ UNCHANGED <<queue, count, started, freed, item, seen, worker, bounds, history>>

\* The index has come round since it was read, and the queue is full by now.
PostOverrun(t) ==
    /\ pc[t] = "push_cas"
    /\ SameIndex(t)
    /\ ~Q!HasRoom
    /\ overrun' = TRUE
    /\ UNCHANGED <<pending, ready, delivered, count, started, freed, caller, worker, bounds, history>>

\* Variant: a refused post is counted.
PostFull_Counts(t) ==
    /\ pc[t] = "push_full"
    /\ LooksFull(t)
    /\ PostReturn(t)
    /\ count' = (count + 1) % Wrap
    /\ UNCHANGED <<queue, started, freed, worker, bounds, history>>

PostFull(t) ==
    /\ pc[t] = "push_full"
    /\ LooksFull(t)
    /\ PostReturn(t)
    /\ UNCHANGED <<queue, count, started, freed, worker, bounds, history>>

PostReserve(t) ==
    /\ pc[t] = "push_cas"
    /\ SameIndex(t)
    /\ Q!ReserveFor(item[t])
    /\ Goto(t, "commit")
    /\ UNCHANGED <<overrun, count, started, freed, item, seen, worker, bounds, history>>

PostCommit(t) ==
    /\ pc[t] = "commit"
    /\ Head(pending) = item[t]
    /\ Q!Commit
    /\ Goto(t, "add")
    /\ UNCHANGED <<overrun, count, started, freed, item, seen, worker, bounds, history>>

\* The worker may have popped the item already: count is then (uint32_t)-1.
PostCount(t) ==
    /\ pc[t] = "add"
    /\ count' = (count + 1) % Wrap
    /\ IF count \in {0, Wrap - 1}
         THEN Goto(t, "signal") /\ UNCHANGED <<item, seen>>
         ELSE PostReturn(t)
    /\ UNCHANGED <<queue, started, freed, worker, bounds, history>>

PostSignal(t) ==
    /\ pc[t] = "signal"
    /\ wpc' = IF wpc = "asleep" THEN "pop" ELSE wpc
    /\ PostReturn(t)
    /\ UNCHANGED <<queue, count, started, freed, witem, bounds, history>>

(* _zpc_work_thread *)

WorkerPop ==
    /\ wpc = "pop"
    /\ Q!Take
    /\ witem' = Head(ready)
    /\ wpc' = "dec"
    /\ UNCHANGED <<overrun, count, started, freed, caller, bounds, history>>

WorkerPopEmpty ==
    /\ wpc = "pop"
    /\ ready = <<>>
    /\ wpc' = "wait"
    /\ UNCHANGED <<queue, count, started, freed, caller, witem, bounds, history>>

\* ztl_simevent_timedwait falls asleep under the event's mutex ...
WorkerSleep ==
    /\ wpc = "wait"
    /\ wpc' = "asleep"
    /\ UNCHANGED <<queue, count, started, freed, caller, witem, bounds, history>>

\* Variant: ztl_simevent_wait in place of ztl_simevent_timedwait.
WorkerTimeout_Never ==
    /\ wpc = "asleep"
    /\ FALSE
    /\ UNCHANGED vars

\* ... and wakes by itself after a millisecond.
WorkerTimeout ==
    /\ wpc = "asleep"
    /\ wpc' = "pop"
    /\ UNCHANGED <<queue, count, started, freed, caller, witem, bounds, history>>

WorkerCount ==
    /\ wpc = "dec"
    /\ count' = (count - 1) % Wrap
    /\ wpc' = "handle"
    /\ UNCHANGED <<queue, started, freed, caller, witem, bounds, history>>

\* Variant: the loop also ends when started is cleared.
WorkerHandle_ChecksStarted ==
    /\ wpc = "handle"
    /\ witem' = Sentinel
    /\ astray' = (astray \/ witem.kind = "quit")
    /\ wpc' = IF witem.kind = "go" /\ started THEN "pop" ELSE "exited"
    /\ UNCHANGED <<queue, count, started, freed, caller, bounds, mustRun>>

\* Variant: what the handler returns is ignored.
WorkerHandle_GoesOn ==
    /\ wpc = "handle"
    /\ witem' = Sentinel
    /\ wpc' = "pop"
    /\ UNCHANGED <<queue, count, started, freed, caller, bounds, mustRun, astray>>

WorkerHandle ==
    /\ wpc = "handle"
    /\ witem' = Sentinel
    /\ astray' = (astray \/ witem.kind = "quit")
    /\ wpc' = IF witem.kind = "go" THEN "pop" ELSE "exited"
    /\ UNCHANGED <<queue, count, started, freed, caller, bounds, mustRun>>

(* ztl_pc_start, ztl_pc_stop, ztl_pc_release *)

\* The result of ztl_thread_create is not looked at.
Start ==
    /\ pc[Control] = "idle"
    /\ ~started /\ ~freed
    /\ starts < MaxStart
    /\ starts' = starts + 1
    /\ started' = TRUE
    /\ \/ wpc' = "pop" /\ UNCHANGED astray
       \/ wpc' = "none" /\ astray' = TRUE
    /\ UNCHANGED <<queue, count, freed, caller, witem, posts, mustRun>>

StopCall ==
    /\ pc[Control] = "idle"
    /\ started
    /\ item' = [item EXCEPT ![Control] = Sentinel]
    /\ mustRun' = Ids(delivered) \cup Ids(ready) \cup Ids(pending)
    /\ Goto(Control, "push")
    /\ UNCHANGED <<queue, count, started, freed, seen, worker, bounds, astray>>

StopClear ==
    /\ pc[Control] = "clear"
    /\ started' = FALSE
    /\ Goto(Control, "join")
    /\ UNCHANGED <<queue, count, freed, item, seen, worker, bounds, history>>

\* Without a worker thr is 0, or a thread that has been joined before.
StopJoin ==
    /\ pc[Control] = "join"
    /\ wpc \in {"none", "exited"}
    /\ Goto(Control, "idle")
    /\ UNCHANGED <<queue, count, started, freed, item, seen, worker, bounds, history>>

\* ztl_pc_release stops first; what is left is to free.  Its caller sees to it
\* that nobody is posting.
Release ==
    /\ \A t \in Callers : pc[t] = "idle"
    /\ ~started /\ ~freed
    /\ freed' = TRUE
    /\ UNCHANGED <<queue, count, started, caller, worker, bounds, history>>

-----------------------------------------------------------------------------
PostStep(t) ==
    \/ PostRead(t) \/ PostFull(t) \/ PostRoom(t) \/ PostRetry(t) \/ PostOverrun(t)
    \/ PostReserve(t) \/ PostCommit(t) \/ PostCount(t) \/ PostSignal(t)

WorkerStep ==
    \/ WorkerPop \/ WorkerPopEmpty \/ WorkerSleep \/ WorkerTimeout
    \/ WorkerCount \/ WorkerHandle

StopStep == StopClear \/ StopJoin

Next ==
    /\ ~overrun
    /\ \/ \E t \in Posters : PostCall(t)
       \/ \E t \in Callers : PostStep(t)
       \/ WorkerStep
       \/ Start \/ StopCall \/ StopStep \/ Release

Spec == Init /\ [][Next]_vars

\* Running threads run on, and a timed wait ends.
Fairness ==
    /\ \A t \in Callers : WF_vars(~overrun /\ PostStep(t))
    /\ WF_vars(~overrun /\ WorkerStep)
    /\ WF_vars(~overrun /\ StopStep)

FairSpec == Spec /\ Fairness

-----------------------------------------------------------------------------
(* Properties *)

CallerLabel == {"idle", "push", "push_full", "push_cas", "commit", "add", "signal", "clear", "join"}
WorkerLabel == {"none", "pop", "wait", "asleep", "dec", "handle", "exited"}

\* Type correctness; the queue never holds more than quesize - 1 items.
TypeOK ==
    /\ pending \in Seq(Item) /\ ready \in Seq(Item) /\ delivered \in Seq(Item)
    /\ Len(pending) + Len(ready) <= QueSize - 1
    /\ overrun \in BOOLEAN /\ count \in 0 .. Wrap - 1
    /\ started \in BOOLEAN /\ freed \in BOOLEAN /\ astray \in BOOLEAN
    /\ pc \in [Callers -> CallerLabel] /\ item \in [Callers -> Item]
    /\ seen \in [Callers -> Nat]
    /\ wpc \in WorkerLabel /\ witem \in Item
    /\ posts \in 0 .. MaxPost /\ starts \in 0 .. MaxStart
    /\ mustRun \subseteq 1 .. MaxPost

\* What follows is said of a queue that no push has entered without room.

\* ztl_pc_pending counts the committed items, but for the posts that have not
\* added theirs yet and the pop that has not subtracted its own.
CountExact ==
    LET adding == Cardinality({t \in Callers : pc[t] = "add"})
        popped == IF wpc = "dec" THEN 1 ELSE 0
    IN  ~overrun => (count + adding) % Wrap = (Len(ready) + popped) % Wrap

\* What was accepted before ztl_pc_stop was called has been handled when it
\* returns, unless some worker went without its sentinel; and then no worker
\* runs: none touches a freed queue, and a new ztl_pc_start never makes a second
\* one.
DrainedOnStop ==
    ~overrun =>
      /\ pc[Control] = "join" /\ wpc = "exited" /\ ~astray => mustRun \subseteq Handled
      /\ ~started /\ pc[Control] = "idle" => wpc \in {"none", "exited"}

\* A worker that lives never leaves a committed item in the queue for ever,
\* although a signal sent between its pop and its sleep is lost.
EventuallyHandled ==
    \A n \in 1 .. MaxPost :
      n \in Ids(ready) ~> n \in Handled \/ wpc \in {"none", "exited"} \/ overrun

\* Once its sentinel is in the queue, ztl_pc_stop returns.
StopReturnsOnceQueued ==
    pc[Control] = "join" /\ Sentinel \in {ready[i] : i \in DOMAIN ready}
      ~> pc[Control] = "idle" \/ overrun

\* ztl_producer_consumer.h: "stop working thread".  Whatever the queue holds,
\* ztl_pc_stop returns.
StopReturns == pc[Control] = "join" ~> pc[Control] = "idle" \/ overrun
=============================================================================
