---------------------------- MODULE BlockingQueue ----------------------------
(***************************************************************************)
(* ztl_blocking_queue.c over the queue (a push or pop is one step here; a  *)
(* push that races others may be told the queue is full) and the simple    *)
(* event, which forgets a signal that finds nobody asleep.                 *)
(***************************************************************************)
EXTENDS Integers, Sequences, FiniteSets

CONSTANTS BqThreads,
          BqSize,        \* quesize: the queue holds one item less
          Timeouts,      \* time-outs callers pass, in milliseconds
          INT_MAX,       \* 2^31 - 1
          UsecPerMs,     \* 1000; like there, an even divisor of 2 * (INT_MAX + 1)
          MaxBqPush, MaxBqPop    \* bounds: pushes, and pops of one thread

ASSUME BqAssumption == BqSize \in Nat \ {0} /\ INT_MAX \in Nat

VARIABLES bq, waitors,
          bpc, wait,         \* of each thread: where it is, its time-out
          pushed, popped,    \* counts of items in and out
          calls              \* pops each thread has begun

bqVars == <<bq, waitors, bpc, wait, pushed, popped, calls>>

BqInit ==
  /\ bq = <<>> /\ waitors = 0
  /\ bpc = [t \in BqThreads |-> "idle"]
  /\ wait = [t \in BqThreads |-> 0]
  /\ pushed = 0 /\ popped = 0
  /\ calls = [t \in BqThreads |-> 0]

BqGoto(t, l) == bpc' = [bpc EXCEPT ![t] = l]
Asleep == {t \in BqThreads : bpc[t] = "asleep"}

PushFull(t) ==
  /\ bpc[t] = "idle" /\ pushed < MaxBqPush
  /\ Len(bq) >= BqSize - 1 \/ \E u \in BqThreads \ {t} : bpc[u] # "idle"
  /\ UNCHANGED bqVars

PushOk(t) ==
  /\ bpc[t] = "idle" /\ pushed < MaxBqPush /\ Len(bq) < BqSize - 1
  /\ pushed' = pushed + 1 /\ bq' = Append(bq, pushed')
  /\ BqGoto(t, "pushed") /\ UNCHANGED <<waitors, wait, popped, calls>>

PushTest(t) ==
  /\ bpc[t] = "pushed"
  /\ BqGoto(t, IF waitors > 0 THEN "signal" ELSE "idle")
  /\ UNCHANGED <<bq, waitors, wait, pushed, popped, calls>>

BqSignal(t) ==
  /\ bpc[t] = "signal"
  /\ IF Asleep = {} THEN BqGoto(t, "idle")
     ELSE \E u \in Asleep : bpc' = [bpc EXCEPT ![t] = "idle", ![u] = "awake"]
  /\ UNCHANGED <<bq, waitors, wait, pushed, popped, calls>>

\* A negative time-out stands for the longest one.
PopCall(t) ==
  /\ bpc[t] = "idle" /\ calls[t] < MaxBqPop
  /\ calls' = [calls EXCEPT ![t] = @ + 1]
  /\ \E ms \in Timeouts : wait' = [wait EXCEPT ![t] = IF ms < 0 THEN INT_MAX ELSE ms]
  /\ waitors' = waitors + 1
  /\ BqGoto(t, "first") /\ UNCHANGED <<bq, pushed, popped>>

Take(t) == bq # <<>> /\ bq' = Tail(bq) /\ popped' = popped + 1 /\ BqGoto(t, "leave")

FirstPop(t) ==
  /\ bpc[t] = "first"
  /\ Take(t) \/ (bq = <<>> /\ UNCHANGED <<bq, popped>> /\ BqGoto(t, "wait"))
  /\ UNCHANGED <<waitors, wait, pushed, calls>>

\* ztl_simevent_timedwait computes timeoutMS * 1000 as an int: INT_MAX
\* milliseconds wrap to a moment in the past.
Usec(ms) == LET r == (ms * UsecPerMs) % (2 * (INT_MAX + 1)) IN IF r > INT_MAX THEN r - 2 * (INT_MAX + 1) ELSE r
BqWait(t) ==
  /\ bpc[t] = "wait"
  /\ BqGoto(t, IF Usec(wait[t]) > 0 THEN "asleep" ELSE "awake")
  /\ UNCHANGED <<bq, waitors, wait, pushed, popped, calls>>
BqTimeout(t) ==
  /\ bpc[t] = "asleep"
  /\ BqGoto(t, "awake")
  /\ UNCHANGED <<bq, waitors, wait, pushed, popped, calls>>

\* A broken variant: the time-out ends the call.
SecondPop_TimedOut(t) ==
  /\ bpc[t] = "awake"
  /\ UNCHANGED <<bq, popped, waitors, wait, pushed, calls>> /\ BqGoto(t, "leave")

SecondPop(t) ==
  /\ bpc[t] = "awake"
  /\ Take(t) \/ (bq = <<>> /\ UNCHANGED <<bq, popped>> /\ BqGoto(t, "leave"))
  /\ UNCHANGED <<waitors, wait, pushed, calls>>

PopReturn(t) ==
  /\ bpc[t] = "leave"
  /\ waitors' = waitors - 1
  /\ BqGoto(t, "idle") /\ UNCHANGED <<bq, wait, pushed, popped, calls>>

BqInside(t) == PushTest(t) \/ BqSignal(t) \/ FirstPop(t) \/ BqWait(t) \/ BqTimeout(t) \/ SecondPop(t) \/ PopReturn(t)
BqNext == \E t \in BqThreads : PushFull(t) \/ PushOk(t) \/ PopCall(t) \/ BqInside(t)

(* Somebody who sleeps in ztl_bq_pop while an item is queued does not      *)
(* leave it there: although the push may signal before the popper sleeps   *)
(* (or nobody at all, when it read waitors too early), an item is taken.   *)
BqDelivered ==
  \A n \in 0 .. MaxBqPush : (popped = n /\ bq # <<>> /\ Asleep # {}) ~> (popped > n)

BqSpec == BqInit /\ [][BqNext]_bqVars /\ \A t \in BqThreads : WF_bqVars(BqInside(t))
=============================================================================
