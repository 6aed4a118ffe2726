--------------------------- MODULE EventDispatcher ---------------------------
(***************************************************************************)
(* ztl_event_dispatcher.c: handlers registered by event type, run by the   *)
(* worker of a producer-consumer in the order of the posts.  The           *)
(* producer-consumer is its promise here: a bounded queue and one worker.  *)
(* A post tests started before it pushes, and a stop pushes its sentinel   *)
(* before it clears started, so that an event may land behind it; one      *)
(* thread starts and stops, posts come from any.  Handlers are registered  *)
(* before the start or, by the worker, from a handler: nothing guards the  *)
(* table against another thread.                                           *)
(***************************************************************************)
EXTENDS Integers, Sequences, SequencesExt

CONSTANTS MAX_EVID,      \* ZS_EVENT_DISPATCHER_MAX_EVID
          EvdQue,        \* items the queue holds
          Handlers,
          MaxEvd         \* bound: posts, and handlers of one type

VARIABLES evtable,       \* per type: its handlers in order; <<>> also when there is no array
          evque, evStarted,
          evState,       \* the worker: "none", "worker", "unmade" or "released"
          evStop,        \* ztl_pc_stop: "new", "pushed", "cleared" or "done"
          posting,       \* types whose post has found started set and is to push
          cur,           \* the event the worker dispatches, and the next index
          ran,           \* the handlers that ran for cur
          posted, handled,     \* events accepted, and <<event, handlers>> done
          promised       \* events that were accepted before the last stop's sentinel

evdVars == <<evtable, evque, evStarted, evState, evStop, posting,
             cur, ran, posted, handled, promised>>

Sentinel == [id |-> 0, type |-> 0]
Nothing == [id |-> -1, type |-> 0]

EvdInit ==
  /\ evtable = [e \in 0 .. MAX_EVID - 1 |-> <<>>]
  /\ evque = <<>> /\ evStarted = FALSE /\ evState = "none"
  /\ evStop = "new" /\ posting = {} /\ promised = 0
  /\ cur = [ev |-> Nothing, i |-> 0] /\ ran = <<>>
  /\ posted = <<>> /\ handled = <<>>

Registered(type, h) ==
  /\ type < MAX_EVID                       \* else ZTL_ERR_OutOfEVID
  /\ Len(evtable[type]) < MaxEvd
  /\ evtable' = [evtable EXCEPT ![type] = Append(@, h)]

ztl_evd_register(type, h) ==
  /\ evState = "none" /\ Registered(type, h)
  /\ UNCHANGED <<evque, evStarted, evState, evStop, posting, cur, ran, posted, handled, promised>>

\* Whether the thread was made goes untested.  (A restart whose thread is not
\* made would have the next stop join a thread twice and is left out.)
ztl_evd_start ==
  /\ ~evStarted /\ evState = "none" /\ evStop \in {"new", "done"}
  /\ evStarted' = TRUE
  /\ evState' = "worker" \/ (evStop = "new" /\ evState' = "unmade")
  /\ UNCHANGED <<evtable, evque, evStop, posting, cur, ran, posted, handled, promised>>

\* The callers are known by the type they post.
PostTest(type) ==
  /\ type < MAX_EVID                       \* else ZTL_ERR_OutOfEVID
  /\ evStarted                             \* else ZTL_ERR_NotStarted
  /\ type \notin posting /\ posting' = posting \cup {type}
  /\ Len(posted) < MaxEvd
  /\ UNCHANGED <<evtable, evque, evStarted, evState, evStop, cur, ran, posted, handled, promised>>

\* lfqueue_push: an event that finds the queue full is refused.
PostPush(type) ==
  /\ type \in posting /\ posting' = posting \ {type}
  /\ LET e == [id |-> Len(posted) + 1, type |-> type] IN
     IF Len(evque) < EvdQue THEN evque' = Append(evque, e) /\ posted' = Append(posted, e)
     ELSE UNCHANGED <<evque, posted>>
  /\ UNCHANGED <<evtable, evStarted, evState, evStop, cur, ran, handled, promised>>

\* The worker ends with the sentinel, whatever is queued behind it.
EvdPop ==
  /\ evState = "worker" /\ cur.ev = Nothing /\ evque # <<>>
  /\ evque' = Tail(evque) /\ ran' = <<>>
  /\ IF Head(evque) = Sentinel THEN evState' = "none" /\ UNCHANGED cur
     ELSE cur' = [ev |-> Head(evque), i |-> 1] /\ UNCHANGED evState
  /\ UNCHANGED <<evtable, evStarted, evStop, posting, posted, handled, promised>>

\* A broken variant: the number of handlers is read before the loop.
EvdCallback_FixedSize ==
  /\ cur.ev # Nothing /\ cur.i <= Len(evtable[cur.ev.type])
  /\ LET e == cur.ev.type IN
     /\ ran' = Append(ran, evtable[e][cur.i])
     /\ \/ cur' = [cur EXCEPT !.i = @ + 1] /\ UNCHANGED evtable
        \/ cur' = [cur EXCEPT !.i = MaxEvd + 1] /\ \E h \in Handlers : Registered(e, h)
  /\ UNCHANGED <<evque, evStarted, evState, evStop, posting, posted, handled, promised>>

\* One handler of ztl_evd_do_callback; it may register another one for an event.
EvdCallback ==
  /\ cur.ev # Nothing /\ cur.i <= Len(evtable[cur.ev.type])
  /\ ran' = Append(ran, evtable[cur.ev.type][cur.i])
  /\ cur' = [cur EXCEPT !.i = @ + 1]
  /\ UNCHANGED evtable \/ \E e \in 0 .. MAX_EVID, h \in Handlers : Registered(e, h)
  /\ UNCHANGED <<evque, evStarted, evState, evStop, posting, posted, handled, promised>>

EvdCallbackDone ==
  /\ cur.ev # Nothing /\ cur.i > Len(evtable[cur.ev.type])
  /\ handled' = Append(handled, [ev |-> cur.ev, ran |-> ran, due |-> evtable[cur.ev.type]])
  /\ cur' = [ev |-> Nothing, i |-> 0] /\ ran' = <<>>
  /\ UNCHANGED <<evtable, evque, evStarted, evState, evStop, posting, posted, promised>>

\* ztl_pc_stop posts the sentinel and ignores whether the queue had room for it,
StopPush ==
  /\ evStarted /\ evStop \in {"new", "done"} /\ evStop' = "pushed"
  /\ evque' = IF Len(evque) < EvdQue THEN Append(evque, Sentinel) ELSE evque
  /\ promised' = Len(posted)
  /\ UNCHANGED <<evtable, evStarted, evState, posting, cur, ran, posted, handled>>

\* then clears started,
StopClear ==
  /\ evStop = "pushed" /\ evStop' = "cleared" /\ evStarted' = FALSE
  /\ UNCHANGED <<evtable, evque, evState, posting, cur, ran, posted, handled, promised>>

\* and joins the worker if there is one.
StopJoin ==
  /\ evStop = "cleared" /\ evState # "worker" /\ evStop' = "done"
  /\ UNCHANGED <<evtable, evque, evStarted, evState, posting, cur, ran, posted, handled, promised>>

\* ztl_evd_release after the stop returned: queue and table are gone, what was
\* left in the queue with it.  A post under way would meet freed memory.
ztl_evd_release ==
  /\ ~evStarted /\ evState \in {"none", "unmade"} /\ evStop \in {"new", "done"} /\ posting = {}
  /\ evState' = "released" /\ evque' = <<>> /\ evtable' = [e \in DOMAIN evtable |-> <<>>]
  /\ UNCHANGED <<evStarted, evStop, posting, cur, ran, posted, handled, promised>>

EvdNext ==
  \/ \E e \in 0 .. MAX_EVID : \/ PostTest(e) \/ PostPush(e)
                             \/ \E h \in Handlers : ztl_evd_register(e, h)
  \/ ztl_evd_start \/ EvdPop \/ EvdCallback \/ EvdCallbackDone
  \/ StopPush \/ StopClear \/ StopJoin \/ ztl_evd_release

(* Events are dispatched in the order they were accepted, each once, and   *)
(* each to all handlers registered for its type in the order of their      *)
(* registration, the ones a handler registered meanwhile included; once a  *)
(* stop has joined the worker, no event accepted before its sentinel is    *)
(* left over (one accepted behind it waits for the next start).            *)
EvdInOrder ==
  /\ IsPrefix([i \in DOMAIN handled |-> handled[i].ev], posted)
  /\ \A i \in DOMAIN handled : handled[i].ran = handled[i].due
  /\ evStop = "done" /\ evState \in {"none", "worker"} => Len(handled) >= promised
=============================================================================
