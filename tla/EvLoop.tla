-------------------------------- MODULE EvLoop --------------------------------
(***************************************************************************)
(* ztl_evloop.c over ztl_evloop_epoll.c, as operators on the loop          *)
(*   [running, conns, watch, event_size]                                   *)
(* conns[fd] is the connection of a descriptor, watch[fd] what epoll knows *)
(* of it: the empty set when it is not registered, else {"reg"} and the    *)
(* events asked for.  The timers are in EvTimer.                           *)
(***************************************************************************)
EXTENDS Integers, FiniteSets

CONSTANT Fd        \* descriptors: an interval of numbers

NoConn == [events |-> {}, read_handler |-> "none", write_handler |-> "none", refcount |-> 0]

ztl_evloop_create(size) ==
  [running |-> FALSE, event_size |-> size,
   conns |-> [fd \in Fd |-> NoConn], watch |-> [fd \in Fd |-> {}]]

ztl_connection_new == [NoConn EXCEPT !.refcount = 1]
ztl_connection_find(ev, fd) == ev.conns[fd]
ztl_connection_save(ev, fd, conn) == [ev EXCEPT !.conns[fd] = conn]
ztl_connection_remove(ev, fd) == [ev EXCEPT !.conns[fd] = NoConn]

\* The last reference takes the connection out of the table.
ztl_connection_free(ev, fd) ==
  IF ev.conns[fd].refcount > 1 THEN [ev EXCEPT !.conns[fd].refcount = @ - 1]
  ELSE ztl_connection_remove(ev, fd)

\* epoll_ctl refuses to add what it has and to change what it has not.
epoll_ctl(ev, op, fd, events) ==
  CASE op = "ADD" -> [ok |-> ev.watch[fd] = {}, watch |-> {"reg"} \cup events]
    [] op = "MOD" -> [ok |-> ev.watch[fd] # {}, watch |-> {"reg"} \cup events]
    [] op = "DEL" -> [ok |-> ev.watch[fd] # {}, watch |-> {}]
epoll_add(ev, fd, req, flags) == epoll_ctl(ev, IF flags = {} THEN "ADD" ELSE "MOD", fd, req \cup flags)
epoll_del(ev, fd, del, flags) == epoll_ctl(ev, IF flags \ del = {} THEN "DEL" ELSE "MOD", fd, flags \ del)

\* A descriptor beyond event_size is refused.
ztl_evloop_add(ev, fd, req, handler) ==
  LET old == IF ev.conns[fd] = NoConn THEN ztl_connection_new ELSE ztl_connection_find(ev, fd)
      conn == [old EXCEPT !.read_handler = IF "in" \in req THEN handler ELSE @,
                          !.write_handler = IF "out" \in req THEN handler ELSE @]
      r == epoll_add(ev, fd, req, conn.events) IN
  CASE fd > ev.event_size -> ev
    [] fd <= ev.event_size /\ r.ok ->
         [ztl_connection_save(ev, fd, [conn EXCEPT !.events = @ \cup req]) EXCEPT !.watch[fd] = r.watch]
    [] OTHER -> ztl_connection_save(ev, fd, conn)

\* The events of the connection stay as they were.
ztl_evloop_del(ev, fd, del) ==
  LET r == epoll_del(ev, fd, del, ztl_connection_find(ev, fd).events) IN
  IF r.ok THEN [ev EXCEPT !.watch[fd] = r.watch] ELSE ev

ztl_evloop_start(ev) == [ev EXCEPT !.running = TRUE]
ztl_evloop_stop(ev) == [ev EXCEPT !.running = FALSE]

\* Every connection left is freed, every descriptor forgotten.
ztl_evloop_release(ev) == ztl_evloop_create(ev.event_size)
=============================================================================
