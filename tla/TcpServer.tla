------------------------------ MODULE TcpServer ------------------------------
(***************************************************************************)
(* ztl_tcp_server.c: the I/O thread runs the event loop; its handlers      *)
(* accept connections and echo what they read.  A timer shuts down every   *)
(* accepted socket after a while.  The sockets are the kernel's: data and  *)
(* end of file pending on each; an accepted socket has the lowest free     *)
(* descriptor.  SIGPIPE is ignored: the program calls ignore_sigpipe.      *)
(***************************************************************************)
EXTENDS EvLoop

CONSTANTS ListenFd,
          EventSize,
          reuse_addr,      \* of the configuration; tcp_listen_ex takes it for "nonblock"
          MaxSend          \* bound: messages of a client

VARIABLES ev,
          io,         \* where the I/O thread is
          fired,      \* descriptors whose event is still to be dispatched
          backlog,    \* clients that wait to be accepted
          sock,       \* of each descriptor: open, data and eof pending
          armed,      \* accepted sockets whose timer has not expired
          sent, echoed,
          nullConn,   \* an event was dispatched to no connection
          shut,       \* descriptors that the server has shut down in both directions
          lost,       \* messages whose echo the socket did not take
          harmed      \* memory was written or called that is not the connection's

ends == <<shut, lost, harmed>>
svrVars == <<ev, io, fired, backlog, sock, armed, sent, echoed, nullConn, ends>>

Clients == Fd \ {ListenFd}
Closed == [open |-> FALSE, data |-> 0, eof |-> FALSE]

\* ztl_tcp_server_create and _init: the loop exists, the socket listens.
Init ==
  /\ ev = ztl_evloop_create(EventSize)
  /\ io = "none" /\ fired = {} /\ backlog = 0
  /\ sock = [fd \in Fd |-> IF fd = ListenFd THEN [Closed EXCEPT !.open = TRUE] ELSE Closed]
  /\ armed = {}
  /\ sent = [fd \in Fd |-> 0] /\ echoed = [fd \in Fd |-> 0]
  /\ nullConn = FALSE
  /\ shut = {} /\ lost = [fd \in Fd |-> 0] /\ harmed = FALSE

\* With a thread of its own, or by a caller that loops itself.
ztl_tcp_server_start ==
  /\ io = "none"
  /\ ev' = ztl_evloop_start(ztl_evloop_add(ev, ListenFd, {"in"}, "accept"))
  /\ io' = "test"
  /\ UNCHANGED <<fired, backlog, sock, armed, sent, echoed, nullConn, ends>>

ztl_tcp_server_stop ==
  /\ ev.running /\ ev' = ztl_evloop_stop(ev)
  /\ UNCHANGED <<io, fired, backlog, sock, armed, sent, echoed, nullConn, ends>>

\* The caller waits for the I/O thread; the release does not.
ztl_tcp_server_release ==
  /\ io = "gone" /\ io' = "released"
  /\ ev' = ztl_evloop_release(ev)
  /\ sock' = [fd \in Fd |-> IF ev.conns[fd] # NoConn THEN Closed ELSE sock[fd]]
  /\ UNCHANGED <<fired, backlog, armed, sent, echoed, nullConn, ends>>

\* Clients connect, send and leave.
Indoors == <<ev, io, fired, armed, echoed, nullConn, ends>>
Connect ==
  /\ io \in {"test", "expire", "poll", "dispatch", "accept"}
  /\ backlog + Cardinality({fd \in Clients : sock[fd].open}) < Cardinality(Clients)
  /\ backlog' = backlog + 1 /\ UNCHANGED <<sock, sent>> /\ UNCHANGED Indoors
Send(fd) ==
  /\ sock[fd].open /\ ~sock[fd].eof /\ sent[fd] < MaxSend
  /\ sock' = [sock EXCEPT ![fd].data = @ + 1] /\ sent' = [sent EXCEPT ![fd] = @ + 1]
  /\ UNCHANGED backlog /\ UNCHANGED Indoors
Leave(fd) ==
  /\ sock[fd].open /\ ~sock[fd].eof
  /\ sock' = [sock EXCEPT ![fd].eof = TRUE] /\ UNCHANGED <<backlog, sent>> /\ UNCHANGED Indoors

\* ztl_evloop_loop: while (running) { expire; looponce }.
LoopTest ==
  /\ io = "test" /\ io' = IF ev.running THEN "expire" ELSE "gone"
  /\ UNCHANGED <<ev, fired, backlog, sock, armed, sent, echoed, nullConn, ends>>

\* _timeout_handler of the timers that are due: shutdown of the descriptor, in
\* both directions.
Expire(due) ==
  /\ io = "expire" /\ io' = "poll"
  /\ armed' = armed \ due /\ shut' = shut \cup due
  /\ sock' = [fd \in Fd |-> IF fd \in due THEN [sock[fd] EXCEPT !.eof = TRUE] ELSE sock[fd]]
  /\ UNCHANGED <<ev, fired, backlog, sent, echoed, nullConn, lost, harmed>>

Ready == {fd \in Fd : /\ "in" \in ev.watch[fd]
                      /\ IF fd = ListenFd THEN backlog > 0 ELSE sock[fd].data > 0 \/ sock[fd].eof}

\* Without a timer the loop's own time-out is not used either: the wait has no end.
Poll ==
  /\ io = "poll" /\ (Ready # {} \/ armed # {})
  /\ fired' = Ready
  /\ io' = IF Ready = {} THEN "test" ELSE "dispatch"
  /\ UNCHANGED <<ev, backlog, sock, armed, sent, echoed, nullConn, ends>>

Finish(fd) == fired' = fired \ {fd} /\ io' = IF fired = {fd} THEN "test" ELSE "dispatch"

\* _read_handler echoes what it reads and ignores whether the socket takes it: it
\* does not after the shutdown, and may not when its peer has gone or is slow.
Echo(fd) ==
  /\ sock' = [sock EXCEPT ![fd].data = @ - 1]
  /\ \/ fd \notin shut /\ echoed' = [echoed EXCEPT ![fd] = @ + 1] /\ UNCHANGED lost
     \/ lost' = [lost EXCEPT ![fd] = @ + 1] /\ UNCHANGED echoed
  /\ UNCHANGED <<ev, harmed>>

\* A recv that fails (a reset, an event for nothing) returns -1, and the handler
\* writes rbuf[-1] before it looks.
RecvFails == harmed' = TRUE /\ UNCHANGED <<ev, sock, echoed, lost>>

\* A broken variant: the descriptor is left in the poll set.
Drop_NoDel(fd) == ev' = ztl_connection_free(ev, fd) /\ UNCHANGED <<sock, echoed, lost, harmed>>

\* At the end of the data the connection is freed; the descriptor stays open.  The
\* loop goes on to read the events of the connection it has just had freed: when
\* the poll reported a hang-up and the freed memory asks for output, it calls the
\* handler that it finds there.
Drop(fd) ==
  /\ ev' = ztl_connection_free(ztl_evloop_del(ev, fd, {"in", "out"}), fd)
  /\ harmed' = FALSE \/ (fd \in shut /\ harmed' = TRUE)
  /\ UNCHANGED <<sock, echoed, lost>>

\* ztl_evloop_looponce looks the connection up for every event and does not
\* test it.
DispatchRead(fd) ==
  /\ io = "dispatch" /\ fd \in fired /\ fd # ListenFd
  /\ (sock[fd].data > 0 /\ Echo(fd)) \/ (sock[fd].data = 0 /\ Drop(fd)) \/ RecvFails
  /\ Finish(fd)
  /\ nullConn' = (nullConn \/ ev.conns[fd] = NoConn)
  /\ UNCHANGED <<backlog, armed, sent, shut>>

DispatchAccept ==
  /\ io = "dispatch" /\ ListenFd \in fired /\ ev.conns[ListenFd].read_handler = "accept"
  /\ io' = "accept"
  /\ UNCHANGED <<ev, fired, backlog, sock, armed, sent, echoed, nullConn, ends>>

\* One round of _accept_handler.  A refused ztl_evloop_add goes unnoticed.
AcceptOne ==
  LET fd == CHOOSE f \in Clients : ~sock[f].open /\ \A g \in Clients : g < f => sock[g].open IN
  /\ io = "accept" /\ backlog > 0
  /\ backlog' = backlog - 1
  /\ sock' = [sock EXCEPT ![fd].open = TRUE]
  /\ ev' = ztl_evloop_add(ev, fd, {"in"}, "read")
  /\ armed' = armed \cup {fd}
  /\ UNCHANGED <<io, fired, sent, echoed, nullConn, ends>>

\* A broken variant: the listening socket blocks (reuse_addr is 0).
AcceptEnd_Blocking == io = "accept" /\ FALSE /\ UNCHANGED svrVars
AcceptEnd ==
  /\ io = "accept" /\ backlog = 0 /\ reuse_addr
  /\ Finish(ListenFd)
  /\ UNCHANGED <<ev, backlog, sock, armed, sent, echoed, nullConn, ends>>

\* Nothing is modelled once memory is harmed.
IoStep ==
  /\ ~harmed
  /\ \/ LoopTest \/ Poll \/ DispatchAccept \/ AcceptOne \/ AcceptEnd
     \/ \E due \in SUBSET armed : Expire(due)
     \/ \E fd \in Fd : DispatchRead(fd)

Outside == ztl_tcp_server_start \/ ztl_tcp_server_stop \/ ztl_tcp_server_release
           \/ Connect \/ \E fd \in Clients : Send(fd) \/ Leave(fd)

Next == IoStep \/ (~harmed /\ Outside)

(* As long as memory is whole: table and poll set agree, a descriptor is   *)
(* watched exactly when it has a connection, for exactly the events of the *)
(* connection.  No event of a batch meets a connection that an earlier     *)
(* handler of the batch took away.  A message is echoed once or lost in    *)
(* the send, and only a refused descriptor or one at its end has no        *)
(* connection.                                                             *)
ServerSound ==
  \/ harmed
  \/ /\ ~nullConn
     /\ \A fd \in Fd :
          /\ ev.watch[fd] = IF ev.conns[fd] = NoConn THEN {} ELSE {"reg"} \cup ev.conns[fd].events
          /\ ev.conns[fd] # NoConn => sock[fd].open
          /\ echoed[fd] + lost[fd] + sock[fd].data = sent[fd] \/ io = "released"
     /\ io \notin {"none", "released"} =>
          \A fd \in Fd : sock[fd].open /\ ev.conns[fd] = NoConn => fd > EventSize \/ sock[fd].eof

(* What a client sent is read and answered with a send, however accepts,   *)
(* timers and the handlers of other connections interleave, unless the     *)
(* server is stopped or a failed recv or a freed connection harms it.      *)
ServerServed ==
  \A fd \in Clients :
    (sock[fd].data > 0 /\ ev.conns[fd] # NoConn) ~> (sock[fd].data = 0 \/ ~ev.running \/ harmed)
=============================================================================
