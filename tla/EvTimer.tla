------------------------------- MODULE EvTimer -------------------------------
(***************************************************************************)
(* ztl_evtimer.c and the timers of ztl_evloop.c: timers in a red-black     *)
(* tree ordered by expiry time, and in a list by which ztl_evloop_deltimer *)
(* finds them; expired nodes are recycled.  Handlers run in the I/O thread *)
(* and may add and delete timers.  Another thread may add and delete them  *)
(* too, under a lock which it takes after it has looked a timer up, and    *)
(* which the I/O thread does not take at all: what becomes of tree and     *)
(* lists when both use them at once is undefined, and not modelled.        *)
(***************************************************************************)
EXTENDS Integers, FiniteSets, SequencesExt

CONSTANTS TimerNodes,    \* numbers of the timer nodes there may be
          Delays,        \* time-outs in use; 0 is refused
          TimerStart,    \* get_timestamp at the beginning, far from 0
          MaxTick,       \* bound: the clock ends at TimerStart + MaxTick
          MaxAdd,        \* bound: calls of ztl_evloop_addtimer
          TimerWord      \* msec_t is unsigned: 2^64

VARIABLES et,            \* [tree, last_time, count]
          work, idle,    \* lists of timer nodes
          tm,            \* of each node: timer_id, timeout_ms
          clock, adds,
          expiring,      \* the I/O thread is in ztl_evtimer_expire: the node it has found
                         \* and its timer, out of the tree or not
          foreign,       \* another thread's call: the node it has found to
                         \* delete, if any, and whether it holds the lock
          fired,         \* [id, key, at] of the timers fired so far
          broken         \* a node was taken out of the tree that was not in it, or two
                         \* threads used tree or lists at once

timerVars == <<et, work, idle, tm, clock, adds, expiring, foreign, fired, broken>>

Signed(x) == LET m == x % TimerWord IN IF m >= TimerWord \div 2 THEN m - TimerWord ELSE m
Earlier(a, b) == Signed(a - b) < 0
T == INSTANCE RBTree WITH Node <- TimerNodes, Less <- Earlier

NoNode == 0
Off == [on |-> FALSE, node |-> NoNode, id |-> 0, out |-> FALSE]
NoCall == [node |-> NoNode, locked |-> FALSE]

Init ==
  /\ et = [tree |-> T!rbtree_init, last_time |-> 0, count |-> 0]
  /\ work = <<>> /\ idle = <<>>
  /\ tm = [n \in TimerNodes |-> [id |-> 0, timeout |-> 0]]
  /\ clock = TimerStart /\ adds = 0
  /\ expiring = Off /\ foreign = NoCall
  /\ fired = <<>> /\ broken = FALSE

Tick == clock < TimerStart + MaxTick /\ clock' = clock + 1
        /\ UNCHANGED <<et, work, idle, tm, adds, expiring, foreign, fired, broken>>

Used == ToSet(work) \cup ToSet(idle)
ztl_timer_node_new == IF idle # <<>> THEN Head(idle) ELSE CHOOSE n \in TimerNodes \ Used : TRUE
ztl_timer_node_save(l, n) == IF l = <<>> THEN <<n>> ELSE <<Head(l), n>> \o Tail(l)
ztl_timer_node_remove(l, n) == SelectSeq(l, LAMBDA m : m # n)
ztl_timer_node_find(id) == {n \in ToSet(work) : tm[n].id = id}

\* The lookup of the earliest timer.
ztl_evtimer_min(t) == IF t.root = T!Sentinel THEN NoNode ELSE T!rbtree_min(t, t.root)

ztl_evtimer_add(e, n, ms) ==
  IF ms = 0 THEN e
  ELSE [e EXCEPT !.tree = T!rbtree_insert(@, n, (e.last_time + ms) % TimerWord), !.count = @ + 1]

ztl_evtimer_del(e, n) == [e EXCEPT !.tree = T!rbtree_delete(@, n), !.count = @ - 1]

\* The I/O thread's steps on tree and lists, and where it may call: between two
\* loops, or in a handler.
Alone == ~broken /\ ~foreign.locked
CanCall == Alone /\ (expiring.on => expiring.out)

Added(ms) ==
  LET n == ztl_timer_node_new IN
  /\ adds < MaxAdd /\ (idle # <<>> \/ TimerNodes \ Used # {})
  /\ adds' = adds + 1
  /\ idle' = IF idle # <<>> THEN Tail(idle) ELSE idle
  /\ work' = ztl_timer_node_save(work, n)
  /\ tm' = [tm EXCEPT ![n] = [id |-> adds', timeout |-> ms]]
  /\ et' = ztl_evtimer_add(et, n, ms)
  /\ UNCHANGED <<clock, expiring, fired, broken>>

ztl_evloop_addtimer(ms) == CanCall /\ Added(ms) /\ UNCHANGED foreign

\* A node that is not in the tree (it is expiring, was refused, or somebody
\* took it out first) is deleted all the same: what that does is undefined.
Deleted(n) ==
  /\ work' = ztl_timer_node_remove(work, n) /\ idle' = <<n>> \o idle
  /\ IF n \in T!Members(et.tree) THEN et' = ztl_evtimer_del(et, n) /\ UNCHANGED broken
     ELSE broken' = TRUE /\ UNCHANGED et

ztl_evloop_deltimer(id) ==
  /\ CanCall
  /\ \E n \in ztl_timer_node_find(id) : Deleted(n)
  /\ UNCHANGED <<tm, clock, adds, expiring, foreign, fired>>

\* The same by another thread: find, lock, delete; or lock, add.
ForeignFind(id) ==
  /\ ~broken /\ foreign = NoCall
  /\ \E n \in ztl_timer_node_find(id) : foreign' = [foreign EXCEPT !.node = n]
  /\ UNCHANGED <<et, work, idle, tm, clock, adds, expiring, fired, broken>>
ForeignLock ==
  /\ Alone /\ foreign' = [foreign EXCEPT !.locked = TRUE]
  /\ UNCHANGED <<et, work, idle, tm, clock, adds, expiring, fired, broken>>
ForeignDelete ==
  /\ ~broken /\ foreign.locked /\ foreign.node # NoNode /\ Deleted(foreign.node) /\ foreign' = NoCall
  /\ UNCHANGED <<tm, clock, adds, expiring, fired>>
ForeignAdd(ms) ==
  /\ ~broken /\ foreign.locked /\ foreign.node = NoNode /\ Added(ms) /\ foreign' = NoCall

\* The I/O thread's next step on tree or lists does not wait for the lock, nor for
\* the other thread's look-up, which walks the list without it.
Overlap ==
  /\ ~broken /\ (foreign.locked \/ (foreign = NoCall /\ work # <<>>)) /\ broken' = TRUE
  /\ UNCHANGED <<et, work, idle, tm, clock, adds, expiring, foreign, fired>>

ExpireCall ==
  /\ Alone /\ ~expiring.on
  /\ expiring' = [Off EXCEPT !.on = TRUE]
  /\ et' = [et EXCEPT !.last_time = clock % TimerWord]
  /\ UNCHANGED <<work, idle, tm, clock, adds, foreign, fired, broken>>

\* A broken variant: a timer fires one millisecond too soon.
Due_Early(n) == n # NoNode /\ Signed(et.tree.nd[n].key - et.last_time) <= 1
Due(n) == n # NoNode /\ Signed(et.tree.nd[n].key - et.last_time) <= 0

\* The earliest timer is looked up, and found due;
ExpireFind ==
  LET n == ztl_evtimer_min(et.tree) IN
  /\ Alone /\ expiring.on /\ expiring.node = NoNode /\ Due(n)
  /\ expiring' = [expiring EXCEPT !.node = n, !.id = tm[n].id]
  /\ UNCHANGED <<et, work, idle, tm, clock, adds, foreign, fired, broken>>

\* then it leaves the tree, count stays, its handler starts; unless another thread
\* has deleted it meanwhile, and its node is out of the tree or another timer's.
ExpireNext ==
  LET n == expiring.node IN
  /\ Alone /\ n # NoNode /\ ~expiring.out
  /\ IF n \in T!Members(et.tree) /\ tm[n].id = expiring.id
     THEN /\ et' = [et EXCEPT !.tree = T!rbtree_delete(@, n)]
          /\ fired' = Append(fired, [id |-> tm[n].id, key |-> et.tree.nd[n].key, at |-> et.last_time])
          /\ expiring' = [expiring EXCEPT !.out = TRUE] /\ UNCHANGED broken
     ELSE broken' = TRUE /\ UNCHANGED <<et, expiring, fired>>
  /\ UNCHANGED <<work, idle, tm, clock, adds, foreign>>

\* _timer_event_handler after the handler and the finalizer.
HandlerDone ==
  /\ Alone /\ expiring.out
  /\ expiring' = [Off EXCEPT !.on = TRUE]
  /\ work' = ztl_timer_node_remove(work, expiring.node) /\ idle' = <<expiring.node>> \o idle
  /\ UNCHANGED <<et, tm, clock, adds, foreign, fired, broken>>

ExpireDone ==
  /\ Alone /\ expiring.on /\ expiring.node = NoNode /\ ~Due(ztl_evtimer_min(et.tree))
  /\ expiring' = Off
  /\ UNCHANGED <<et, work, idle, tm, clock, adds, foreign, fired, broken>>

Next ==
  \/ Tick \/ ExpireCall \/ ExpireFind \/ ExpireNext \/ HandlerDone \/ ExpireDone
  \/ ForeignLock \/ ForeignDelete \/ Overlap
  \/ \E ms \in Delays : ztl_evloop_addtimer(ms) \/ ForeignAdd(ms)
  \/ \E id \in 1 .. MaxAdd : ztl_evloop_deltimer(id) \/ ForeignFind(id)

(* Until a timer is deleted that is not in the tree, or two threads use    *)
(* tree or lists at once: the tree holds exactly the listed timers that    *)
(* may still fire, whatever handlers and another thread add and delete     *)
(* while timers expire; a node is in one list; a timer fires at most once, *)
(* not before its time by the loop's clock, and not while an earlier one   *)
(* waits; and count is what was added less what was deleted, expired       *)
(* timers included for ever.                                               *)
TimersExact == ~broken =>
  /\ T!WellFormed(et.tree)
  /\ T!Members(et.tree) = {n \in ToSet(work) : tm[n].timeout > 0} \ {n \in {expiring.node} : expiring.out}
  /\ IsInjective(work \o idle)
  /\ \A i, j \in DOMAIN fired : fired[i].id = fired[j].id => i = j
  /\ \A i \in DOMAIN fired : Signed(fired[i].key - fired[i].at) <= 0
  /\ \A n \in T!Members(et.tree) : \A i \in DOMAIN fired :
       fired[i].id < tm[n].id \/ Signed(fired[i].key - et.tree.nd[n].key) <= 0
  /\ et.count = Cardinality(T!Members(et.tree)) + Len(fired)
=============================================================================
