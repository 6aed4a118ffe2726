------------------------------ MODULE TcpClient ------------------------------
(***************************************************************************)
(* ztl_tcp_client.c: an I/O thread connects, polls and reconnects; the     *)
(* user's thread sends and stops the client.  In sync mode the caller of   *)
(* ztl_tcp_client_init does the I/O thread's work.  Nothing is locked: the *)
(* object's mutex is initialised and never taken.  The kernel's sockets    *)
(* are sock[fd]; closing one takes it out of the poll set.                 *)
(***************************************************************************)
EXTENDS Integers, FiniteSets

CONSTANTS Socks,          \* descriptors, positive numbers
          MaxMsg          \* bound: messages of the server on one connection

INVALID_SOCKET == -1

VARIABLES cli,            \* fd, connect_status, added, running, and whether reconnect_ms is not 0
          sock,           \* per descriptor: "closed", "new", "up", "down"
          data,           \* per descriptor: messages to read
          watch,          \* descriptors in the epoll set
          io, iofd,       \* where the I/O thread is, the local fd of do_connect
          sync,           \* sync_mode
          user,           \* where the user's thread is
          unannounced     \* the connection has not been announced by on_connect

cliVars == <<cli, sock, data, watch, io, iofd, sync, user, unannounced>>
kernel == <<sock, data, watch>>

\* ztl_tcp_client_create.
Init ==
  /\ \E r \in BOOLEAN : cli = [fd |-> INVALID_SOCKET, connect_status |-> "DisConnected",
                              added |-> FALSE, running |-> FALSE, reconnect |-> r]
  /\ sock = [s \in Socks |-> "closed"] /\ data = [s \in Socks |-> 0] /\ watch = {}
  /\ io = "none" /\ iofd = INVALID_SOCKET /\ sync \in BOOLEAN /\ user = "idle"
  /\ unannounced = FALSE

connected == cli.connect_status = "Connected"

\* In sync mode the user's thread is the I/O thread: it is free at "user".
UserFree == user = "idle" /\ (sync => io = "user")

ztl_tcp_client_init ==
  /\ io = "none" /\ user = "idle"
  /\ cli' = [cli EXCEPT !.running = TRUE]
  /\ io' = IF sync THEN "close" ELSE "test"
  /\ UNCHANGED <<sock, data, watch, iofd, sync, user, unannounced>>

\* _io_thread_func: while (running) { connect unless connected; poll }.
\* Without reconnect_ms the thread ends, before the first connection as well.
\* A broken variant: a connected client polls without a look at running.
IoTest_Connected ==
  /\ io = "test"
  /\ io' = IF connected THEN "poll" ELSE IF cli.running /\ cli.reconnect THEN "close" ELSE "done"
  /\ UNCHANGED <<cli, sock, data, watch, iofd, sync, user, unannounced>>
IoTest ==
  /\ io = "test"
  /\ io' = CASE ~cli.running -> "done"
             [] cli.running /\ connected -> "poll"
             [] cli.running /\ ~connected -> IF cli.reconnect THEN "close" ELSE "done"
  /\ UNCHANGED <<cli, sock, data, watch, iofd, sync, user, unannounced>>

\* ztl_tcp_client_close_fd up to the close of the descriptor, which it reads
\* from the object, and then its last assignment.
Closing(next, skip) ==
  IF cli.fd = INVALID_SOCKET THEN skip /\ UNCHANGED <<cli, kernel>>
  ELSE /\ next
       /\ cli' = [cli EXCEPT !.added = FALSE]
       /\ sock' = [sock EXCEPT ![cli.fd] = "closed"] /\ data' = [data EXCEPT ![cli.fd] = 0]
       /\ watch' = watch \ {cli.fd}
Forget == cli' = [cli EXCEPT !.fd = INVALID_SOCKET] /\ UNCHANGED kernel

\* ztl_tcp_client_do_connect, from the old socket to the result.
\* A broken variant: the old socket is not closed before the next is made.
ConnectClose_Skip == io = "close" /\ io' = "socket" /\ UNCHANGED <<cli, kernel, iofd, sync, user, unannounced>>
ConnectClose ==
  /\ io = "close" /\ Closing(io' = "forget", io' = "socket")
  /\ UNCHANGED <<iofd, sync, user, unannounced>>
ConnectForget ==
  /\ io = "forget" /\ io' = "socket" /\ Forget
  /\ UNCHANGED <<iofd, sync, user, unannounced>>

LowestFree == CHOOSE s \in Socks : sock[s] = "closed" /\ \A t \in Socks : t < s => sock[t] # "closed"
ConnectSocket ==
  /\ io = "socket" /\ \E s \in Socks : sock[s] = "closed"
  /\ iofd' = LowestFree /\ sock' = [sock EXCEPT ![LowestFree] = "new"]
  /\ cli' = [cli EXCEPT !.connect_status = "Connecting"]
  /\ io' = "connect"
  /\ UNCHANGED <<data, watch, sync, user, unannounced>>

ConnectRefused ==
  /\ io = "connect" /\ io' = "after"
  /\ sock' = [sock EXCEPT ![iofd] = "closed"] /\ iofd' = INVALID_SOCKET
  /\ cli' = [cli EXCEPT !.connect_status = "DisConnected"]
  /\ UNCHANGED <<data, watch, sync, user, unannounced>>

\* net_connect_nonb gave up waiting, its errno still is EINPROGRESS: the
\* socket is kept and polled, and the next attempt throws it away.
ConnectPending ==
  /\ io = "connect" /\ ~sync /\ io' = "add" /\ cli' = [cli EXCEPT !.fd = iofd]
  /\ UNCHANGED <<kernel, iofd, sync, user, unannounced>>
ConnectDone ==
  /\ io = "connect" /\ io' = "add"
  /\ sock' = [sock EXCEPT ![iofd] = "up"]
  /\ cli' = [cli EXCEPT !.connect_status = "Connected", !.fd = iofd]
  /\ unannounced' = TRUE
  /\ UNCHANGED <<data, watch, iofd, sync, user>>

\* ztl_tcp_client_add_fd: ADD or MOD by the value of added, for the object's
\* own descriptor only.
ConnectAdd ==
  LET own == iofd = cli.fd
      ok == sock[iofd] # "closed" /\ (own /\ cli.added <=> iofd \in watch) IN
  /\ io = "add" /\ io' = "after" /\ iofd' = INVALID_SOCKET
  /\ cli' = [cli EXCEPT !.added = own \/ @]
  /\ watch' = IF ok THEN watch \cup {iofd} ELSE watch
  /\ UNCHANGED <<sock, data, sync, user, unannounced>>

\* on_connect is for a connection that is still there; sync mode has none.
\* A broken variant: the connection is polled without a second look.
Announce_Always == io = "after" /\ ~sync /\ io' = "poll" /\ unannounced' = FALSE /\ UNCHANGED <<cli, kernel, iofd, sync, user>>
Announce ==
  /\ io = "after" /\ ~sync
  /\ io' = IF connected THEN "poll" ELSE "test"
  /\ unannounced' = (unannounced /\ ~connected)
  /\ UNCHANGED <<cli, kernel, iofd, sync, user>>
SyncReturn == io = "after" /\ sync /\ io' = "user" /\ UNCHANGED <<cli, kernel, iofd, sync, user, unannounced>>

\* ztl_tcp_client_poll: a time-out, or the handler of a ready descriptor.
PollEnd == io' = IF sync THEN "user" ELSE "test"
PollTimeout == io = "poll" /\ PollEnd /\ UNCHANGED <<cli, kernel, iofd, sync, user, unannounced>>
PollRead(s) ==
  /\ io = "poll" /\ s \in watch /\ (data[s] > 0 \/ sock[s] = "down")
  /\ io' = "read"
  /\ UNCHANGED <<cli, kernel, iofd, sync, user, unannounced>>

\* on_read calls ztl_tcp_client_recv, which looks at the object again.
Recv ==
  /\ io = "read" /\ PollEnd
  /\ \/ /\ connected /\ cli.fd # INVALID_SOCKET /\ data[cli.fd] > 0
        /\ data' = [data EXCEPT ![cli.fd] = @ - 1] /\ UNCHANGED <<cli, watch>>
     \/ /\ connected /\ cli.fd # INVALID_SOCKET /\ data[cli.fd] = 0 /\ sock[cli.fd] \in {"down", "closed"}
        /\ cli' = [cli EXCEPT !.connect_status = "DisConnected", !.added = FALSE]
        /\ watch' = watch \ {cli.fd} /\ UNCHANGED data
     \/ /\ ~connected \/ cli.fd = INVALID_SOCKET
        /\ UNCHANGED <<cli, data, watch>>
  /\ UNCHANGED <<sock, iofd, sync, user, unannounced>>

\* In sync mode the user polls, and may call do_connect again.
SyncPoll == sync /\ io = "user" /\ user = "idle" /\ io' \in {"poll", "close"}
            /\ UNCHANGED <<cli, kernel, iofd, sync, user, unannounced>>

\* ztl_tcp_client_send: the result of send() is applied after it returned.
SendFails ==
  /\ UserFree /\ cli.running /\ connected /\ cli.fd # INVALID_SOCKET
  /\ sock[cli.fd] # "up"
  /\ user' = "failed" /\ UNCHANGED <<cli, kernel, io, iofd, sync, unannounced>>
SendMark ==
  /\ user = "failed" /\ user' = "idle"
  /\ cli' = [cli EXCEPT !.connect_status = "DisConnected"]
  /\ UNCHANGED <<kernel, io, iofd, sync, unannounced>>

\* ztl_tcp_client_stop (also the whole of ztl_tcp_client_release but frees).
Stop == /\ UserFree /\ cli.running
        /\ cli' = [cli EXCEPT !.running = FALSE] /\ user' = "close"
        /\ UNCHANGED <<kernel, io, iofd, sync, unannounced>>
StopClose == /\ user = "close" /\ Closing(user' = "forget", user' = "join")
             /\ UNCHANGED <<io, iofd, sync, unannounced>>
StopForget == user = "forget" /\ user' = "join" /\ Forget /\ UNCHANGED <<io, iofd, sync, unannounced>>
StopJoin == /\ user = "join" /\ io \in {"done", "user"} /\ user' = "stopped"
            /\ UNCHANGED <<cli, kernel, io, iofd, sync, unannounced>>

\* The server sends, and leaves.
ServerData(s) == /\ sock[s] = "up" /\ data[s] < MaxMsg /\ data' = [data EXCEPT ![s] = @ + 1]
                 /\ UNCHANGED <<cli, sock, watch, io, iofd, sync, user, unannounced>>
ServerGone(s) == /\ sock[s] = "up" /\ sock' = [sock EXCEPT ![s] = "down"]
                 /\ UNCHANGED <<cli, data, watch, io, iofd, sync, user, unannounced>>

\* The client was stopped, or its thread ended for want of reconnect_ms.
Finished == (user = "stopped" \/ (io = "done" /\ ~cli.reconnect)) /\ UNCHANGED cliVars

IoStep == \/ IoTest \/ ConnectClose \/ ConnectForget \/ ConnectSocket
          \/ ConnectRefused \/ ConnectPending \/ ConnectDone \/ ConnectAdd
          \/ Announce \/ SyncReturn \/ PollTimeout \/ Recv
          \/ \E s \in Socks : PollRead(s)
StopStep == StopClose \/ StopForget \/ StopJoin
Next == \/ ztl_tcp_client_init \/ IoStep \/ StopStep \/ SyncPoll
        \/ SendFails \/ SendMark \/ Stop \/ Finished
        \/ \E s \in Socks : ServerData(s) \/ ServerGone(s)

(* Until it is stopped the client owns at most one socket besides the one  *)
(* it is connecting, and knows it; a thread that waits in the poll waits   *)
(* on the connected socket, which is in the poll set exactly when added    *)
(* says so, and which on_connect announced: a send of the user that failed *)
(* on an older socket and marks this one disconnected costs a connection,  *)
(* never the poll.                                                         *)
ClientSound ==
  user \in {"idle", "failed"} =>
    /\ {s \in Socks : sock[s] # "closed"} \subseteq {cli.fd, iofd}
    /\ io \notin {"forget", "add"} => (cli.added <=> cli.fd \in watch) /\ watch \subseteq {cli.fd}
    /\ io = "poll" /\ ~sync => cli.fd # INVALID_SOCKET /\ ~unannounced
    /\ io = "poll" /\ connected => cli.fd \in watch

(* ztl_tcp_client_stop returns, wherever it meets the I/O thread: between  *)
(* connect attempts, in a connect, in the poll or in a handler.            *)
ClientStopReturns == user = "close" ~> user = "stopped"
=============================================================================
