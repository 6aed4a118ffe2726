----------------------------- MODULE MCServices -----------------------------
(***************************************************************************)
(* The parts of the library that own a thread or block one: the blocking   *)
(* queue, the event dispatcher, the logger, the TCP server and the TCP     *)
(* client.  A behaviour exercises one of them, named by part; the          *)
(* variables of the others stay as they are, Off or initial.               *)
(***************************************************************************)
EXTENDS BlockingQueue

CONSTANTS MAX_EVID, EvdQue, Handlers, MaxEvd,
          LogCallers, LogQue, LogWord, MaxLog,
          Fd, ListenFd, EventSize, reuse_addr, MaxSend,
          Socks, MaxMsg

ASSUME EvdAssumption == MAX_EVID \in Nat
ASSUME LogAssumption == LogWord \in Nat \ {0}
ASSUME SvrAssumption ==
    /\ IsFiniteSet(Fd) /\ Fd \subseteq Nat /\ ListenFd \in Fd
    /\ EventSize \in Nat
ASSUME CliAssumption == Socks \subseteq Nat

VARIABLES part,
          evtable, evque, evStarted, evState, evStop, posting, cur, ran, posted, handled, promised,
          log, gpc, line, writer, closer, accepted, net, rcv,
          ev, io, fired, backlog, sock, armed, sent, echoed, nullConn,
          shut, lost, harmed,
          cli, peer, data, watch, cio, iofd, sync, user, unannounced

Off == "off"
BqTimeouts == {-1, 1}      \* for ever, and a millisecond

Evd == INSTANCE EventDispatcher
Lg  == INSTANCE Logger
Svr == INSTANCE TcpServer
Cl  == INSTANCE TcpClient WITH io <- cio, sock <- peer

evdVars == <<evtable, evque, evStarted, evState, evStop, posting,
             cur, ran, posted, handled, promised>>
logVars == <<log, gpc, line, writer, closer, accepted, net, rcv>>
svrVars == <<ev, io, fired, backlog, sock, armed, sent, echoed, nullConn,
             shut, lost, harmed>>
cliVars == <<cli, peer, data, watch, cio, iofd, sync, user, unannounced>>
vars == <<part, bqVars, evdVars, logVars, svrVars, cliVars>>

EvdOff == /\ evtable = Off /\ evque = Off /\ evStarted = Off /\ evState = Off
          /\ evStop = Off /\ posting = Off /\ promised = Off
          /\ cur = Off /\ ran = Off /\ posted = Off /\ handled = Off
LogOff == /\ log = Off /\ gpc = Off /\ line = Off /\ writer = Off
          /\ closer = Off /\ accepted = Off /\ net = Off /\ rcv = Off
SvrOff == /\ ev = Off /\ io = Off /\ fired = Off /\ backlog = Off /\ sock = Off
          /\ armed = Off /\ sent = Off /\ echoed = Off /\ nullConn = Off
          /\ shut = Off /\ lost = Off /\ harmed = Off
CliOff == /\ cli = Off /\ peer = Off /\ data = Off /\ watch = Off /\ cio = Off
          /\ iofd = Off /\ sync = Off /\ user = Off /\ unannounced = Off

Init ==
    /\ BqInit
    /\ \/ part = "queue" /\ EvdOff /\ LogOff /\ SvrOff /\ CliOff
       \/ part = "dispatcher" /\ Evd!EvdInit /\ LogOff /\ SvrOff /\ CliOff
       \/ part = "logger" /\ Lg!LogInit /\ EvdOff /\ SvrOff /\ CliOff
       \/ part = "server" /\ Svr!Init /\ EvdOff /\ LogOff /\ CliOff
       \/ part = "client" /\ Cl!Init /\ EvdOff /\ LogOff /\ SvrOff

NotQueue == UNCHANGED <<part, evdVars, logVars, svrVars, cliVars>>
NotServer == UNCHANGED <<part, bqVars, evdVars, logVars, cliVars>>
NotClient == UNCHANGED <<part, bqVars, evdVars, logVars, svrVars>>

QueuePart == part = "queue" /\ BqNext /\ NotQueue
DispatcherPart == part = "dispatcher" /\ Evd!EvdNext /\ UNCHANGED <<part, bqVars, logVars, svrVars, cliVars>>
LoggerPart == part = "logger" /\ Lg!LogNext /\ UNCHANGED <<part, bqVars, evdVars, svrVars, cliVars>>
ServerPart == part = "server" /\ Svr!Next /\ NotServer
ClientPart == part = "client" /\ Cl!Next /\ NotClient

Next == QueuePart \/ DispatcherPart \/ LoggerPart \/ ServerPart \/ ClientPart

(***************************************************************************)
(* A thread inside a call of the blocking queue runs on, and so do the I/O *)
(* threads of server and client and a thread inside ztl_tcp_client_stop.   *)
(* Nobody has to call anything, and the network owes no message.           *)
(***************************************************************************)
Fairness ==
    /\ \A t \in BqThreads : WF_vars(part = "queue" /\ BqInside(t) /\ NotQueue)
    /\ WF_vars(part = "server" /\ Svr!IoStep /\ NotServer)
    /\ WF_vars(part = "client" /\ Cl!IoStep /\ NotClient)
    /\ WF_vars(part = "client" /\ Cl!StopStep /\ NotClient)

Spec == Init /\ [][Next]_vars /\ Fairness

(***************************************************************************)
(* EvdInOrder of EventDispatcher: events are dispatched once, in the order *)
(* of the posts, to the handlers of their type in the order of their       *)
(* registration, also when a handler registers another one.                *)
(***************************************************************************)
EvdInOrder == part = "dispatcher" => Evd!EvdInOrder

(***************************************************************************)
(* LogInOrder of Logger: the file is the lines pushed, in that order, up   *)
(* to those the writer of ztl_logger.c has yet to write, and closing loses *)
(* none that it has taken.                                                 *)
(***************************************************************************)
LogInOrder == part = "logger" => Lg!LogInOrder

(***************************************************************************)
(* ServerSound of TcpServer: as long as memory is whole, connection table  *)
(* and poll set agree, no event of a batch meets a connection an earlier   *)
(* handler took away, and messages are echoed or lost in the send.         *)
(***************************************************************************)
ServerSound == part = "server" => Svr!ServerSound

(***************************************************************************)
(* ClientSound of TcpClient: the client loses no socket over reconnects    *)
(* and failed sends, and polls the socket it is connected with.            *)
(***************************************************************************)
ClientSound == part = "client" => Cl!ClientSound

(***************************************************************************)
(* ServerServed of TcpServer: what a client sent is read and answered with *)
(* a send unless the server is stopped or harmed.                          *)
(***************************************************************************)
ServerServed ==
    \A fd \in Fd \ {ListenFd} :
        (part = "server" /\ sock[fd].data > 0 /\ ev.conns[fd] # Svr!NoConn)
          ~> (part = "server" /\ (sock[fd].data = 0 \/ ~ev.running \/ harmed))

(***************************************************************************)
(* ClientStopReturns of TcpClient: ztl_tcp_client_stop returns, wherever   *)
(* it meets the I/O thread.                                                *)
(***************************************************************************)
ClientStopReturns == (part = "client" /\ user = "close") ~> (user = "stopped")
=============================================================================
