------------------------------ MODULE FifoQueue ------------------------------
(***************************************************************************)
(* What lockfreequeue.h promises of a bounded queue, with nothing of its   *)
(* implementation: an item is reserved a place by the push that succeeds,  *)
(* becomes visible to readers in reservation order, and is handed out once.*)
(*                                                                         *)
(* A push has two visible effects because the implementation has two: the  *)
(* place is taken when the write index moves, and the item can be popped   *)
(* only when every earlier reservation has been committed.                 *)
(***************************************************************************)
EXTENDS Integers, Sequences

CONSTANTS Capacity,   \* how many items the queue can hold
          Item        \* what can be pushed

VARIABLES pending,    \* reserved, not yet readable, oldest first
          ready,      \* readable, oldest first
          delivered   \* every item ever handed to a reader, in order

fifoVars == <<pending, ready, delivered>>

FifoInit ==
    /\ pending = <<>>
    /\ ready = <<>>
    /\ delivered = <<>>

HasRoom == Len(pending) + Len(ready) < Capacity

\* A successful push takes the next place.
ReserveFor(x) ==
    /\ HasRoom
    /\ pending' = Append(pending, x)
    /\ UNCHANGED <<ready, delivered>>

Reserve == \E x \in Item : ReserveFor(x)

\* The oldest reservation becomes readable.
Commit ==
    /\ pending # <<>>
    /\ ready' = Append(ready, Head(pending))
    /\ pending' = Tail(pending)
    /\ UNCHANGED delivered

\* A successful pop hands out the oldest readable item.
Take ==
    /\ ready # <<>>
    /\ delivered' = Append(delivered, Head(ready))
    /\ ready' = Tail(ready)
    /\ UNCHANGED pending

FifoNext == Reserve \/ Commit \/ Take

FifoSpec == FifoInit /\ [][FifoNext]_fifoVars
=============================================================================
