-------------------------------- MODULE Logger --------------------------------
(***************************************************************************)
(* ztl_logger.c: callers log straight to the file (sync), through a queue  *)
(* to a writer thread (async), or over UDP to a second logger that writes  *)
(* (udp).  The writer waits on a condition variable it shares with nobody  *)
(* through the mutex, so that a signal sent between its failed pop and its *)
(* wait is lost.  Lines are numbers; their text is left out.  The buffers  *)
(* of the memory pool are the lines themselves.                            *)
(***************************************************************************)
EXTENDS Integers, Sequences, FiniteSets, SequencesExt

CONSTANTS LogCallers,
          LogQue,          \* items the queue holds (ZTL_LOG_QUEUE_SIZE - 1)
          LogWord,         \* itemCount is unsigned: 2^32
          MaxLog           \* bound: messages

VARIABLES log,       \* mode, running, level, itemCount, sequence, queue, file
          gpc, line, \* of each caller: where it is, the line it logs
          writer,    \* where the writer thread is, and the line it has
          closer,    \* where ztl_log_close is
          accepted,  \* lines pushed, in order
          net,       \* datagrams under way
          rcv        \* the receiving logger: running, lSequence, file

logVars == <<log, gpc, line, writer, closer, accepted, net, rcv>>

Levels == [NONE |-> 0, DEBUG |-> 3, INFO |-> 4, ERROR |-> 7]

LogInit ==
  /\ log = [mode |-> "none", running |-> FALSE, level |-> Levels.INFO, itemCount |-> 0,
            sequence |-> 0, queue |-> <<>>, file |-> <<>>]
  /\ gpc = [t \in LogCallers |-> "idle"] /\ line = [t \in LogCallers |-> 0]
  /\ writer = [at |-> "gone", line |-> 0]
  /\ closer = "no"
  /\ accepted = <<>> /\ net = {}
  /\ rcv = [running |-> FALSE, lSequence |-> 0, file |-> <<>>]

\* ztl_log_create, and ztl_log_create_udp for a sender with its receiver.
LogCreate(mode) ==
  /\ log.mode = "none"
  /\ log' = [log EXCEPT !.mode = mode, !.running = TRUE]
  /\ writer' = IF mode = "async" THEN [writer EXCEPT !.at = "loop"] ELSE writer
  /\ rcv' = [rcv EXCEPT !.running = (mode = "udp")]
  /\ UNCHANGED <<gpc, line, closer, accepted, net>>

ztl_log_set_level(l) ==
  /\ log.running /\ log.level # l
  /\ log' = [log EXCEPT !.level = l]
  /\ UNCHANGED <<gpc, line, writer, closer, accepted, net, rcv>>

\* ztl_log and ztl_log2: level and running are tested once, at the start.
LogLine(t, level) ==
  LET n == log.sequence + 1 IN
  /\ gpc[t] = "idle" /\ log.running /\ level >= log.level /\ log.sequence < MaxLog
  /\ line' = [line EXCEPT ![t] = n]
  /\ CASE log.mode = "async" ->
            /\ gpc' = [gpc EXCEPT ![t] = "push"]
            /\ log' = [log EXCEPT !.sequence = n] /\ UNCHANGED net
       [] log.mode = "udp" ->
            /\ log' = [log EXCEPT !.sequence = n]
            /\ net' = net \cup {n} /\ UNCHANGED gpc
       [] OTHER ->
            /\ log' = [log EXCEPT !.sequence = n, !.file = Append(@, n)] /\ UNCHANGED <<gpc, net>>
  /\ UNCHANGED <<writer, closer, accepted, rcv>>

\* The result of lfqueue_push is ignored: a full queue drops the line.
LogPush(t) ==
  LET fits == Len(log.queue) < LogQue IN
  /\ gpc[t] = "push" /\ gpc' = [gpc EXCEPT ![t] = "count"]
  /\ log' = IF fits THEN [log EXCEPT !.queue = Append(@, line[t])] ELSE log
  /\ accepted' = IF fits THEN Append(accepted, line[t]) ELSE accepted
  /\ UNCHANGED <<line, writer, closer, net, rcv>>

LogCount(t) ==
  /\ gpc[t] = "count"
  /\ log' = [log EXCEPT !.itemCount = (@ + 1) % LogWord]
  /\ gpc' = [gpc EXCEPT ![t] = IF log.itemCount = 0 THEN "signal" ELSE "idle"]
  /\ UNCHANGED <<line, writer, closer, accepted, net, rcv>>

Wake == writer' = IF writer.at = "asleep" THEN [writer EXCEPT !.at = "woken"] ELSE writer
LogSignal(t) ==
  /\ gpc[t] = "signal" /\ gpc' = [gpc EXCEPT ![t] = "idle"] /\ Wake
  /\ UNCHANGED <<log, line, closer, accepted, net, rcv>>

WriterGoes(from, to) ==
  writer.at = from /\ writer' = [writer EXCEPT !.at = to] /\ UNCHANGED <<log, gpc, line, closer, accepted, net, rcv>>

WriterLoop == WriterGoes("loop", IF log.running THEN "pop" ELSE "gone")

\* _WaitLogMsg: pop; if that fails wait, then go on while running.
WriterPop ==
  /\ writer.at = "pop" /\ log.queue # <<>>
  /\ writer' = [at |-> "dec", line |-> Head(log.queue)]
  /\ log' = [log EXCEPT !.queue = Tail(@)]
  /\ UNCHANGED <<gpc, line, closer, accepted, net, rcv>>
WriterPopEmpty == log.queue = <<>> /\ WriterGoes("pop", "wait")
WriterSleep == WriterGoes("wait", "asleep")
WriterSpurious == WriterGoes("asleep", "woken")
WriterWoken == WriterGoes("woken", IF log.running THEN "pop" ELSE "loop")

WriterDec ==
  /\ writer.at = "dec" /\ writer' = [writer EXCEPT !.at = "write"]
  /\ log' = [log EXCEPT !.itemCount = (@ + LogWord - 1) % LogWord]
  /\ UNCHANGED <<gpc, line, closer, accepted, net, rcv>>

\* A broken variant: a line is written only while the logger runs.
WriterWrite_WhileRunning ==
  /\ writer.at = "write" /\ writer' = [at |-> "loop", line |-> 0]
  /\ log' = IF log.running THEN [log EXCEPT !.file = Append(@, writer.line)] ELSE log
  /\ UNCHANGED <<gpc, line, closer, accepted, net, rcv>>

WriterWrite ==
  /\ writer.at = "write" /\ writer' = [at |-> "loop", line |-> 0]
  /\ log' = [log EXCEPT !.file = Append(@, writer.line)]
  /\ UNCHANGED <<gpc, line, closer, accepted, net, rcv>>

\* The receiver: datagrams may come twice, late or not at all.  lSequence is
\* compared and never assigned.
RcvMessage(n) ==
  /\ rcv.running /\ n \in net
  /\ net' \in {net, net \ {n}}
  /\ Len(rcv.file) < MaxLog
  /\ rcv' = IF n > 0 /\ n <= rcv.lSequence THEN rcv ELSE [rcv EXCEPT !.file = Append(@, n)]
  /\ UNCHANGED <<log, gpc, line, writer, closer, accepted>>
NetLoss(n) == n \in net /\ net' = net \ {n} /\ UNCHANGED <<log, gpc, line, writer, closer, accepted, rcv>>

\* ztl_log_close; nobody is inside ztl_log when it is called.
CloseCall ==
  /\ log.mode # "none" /\ closer = "no" /\ \A t \in LogCallers : gpc[t] = "idle"
  /\ log' = [log EXCEPT !.running = FALSE]
  /\ rcv' = [rcv EXCEPT !.running = FALSE]
  /\ closer' = IF log.mode = "async" THEN "signal" ELSE "closed"
  /\ UNCHANGED <<gpc, line, writer, accepted, net>>
CloseSignal ==
  /\ closer = "signal" /\ closer' = "join" /\ Wake
  /\ UNCHANGED <<log, gpc, line, accepted, net, rcv>>
CloseJoin ==
  /\ closer = "join" /\ writer.at = "gone"
  /\ closer' = "closed" /\ log' = [log EXCEPT !.queue = <<>>]
  /\ UNCHANGED <<gpc, line, writer, accepted, net, rcv>>

CallerStep(t) == LogPush(t) \/ LogCount(t) \/ LogSignal(t)
WriterStep == WriterLoop \/ WriterPop \/ WriterPopEmpty \/ WriterSleep \/ WriterWoken \/ WriterDec \/ WriterWrite

LogNext ==
  \/ \E m \in {"sync", "async", "udp"} : LogCreate(m)
  \/ \E t \in LogCallers : CallerStep(t) \/ \E l \in {Levels.DEBUG, Levels.ERROR} : LogLine(t, l)
  \/ \E l \in {Levels.NONE, Levels.ERROR} : ztl_log_set_level(l)
  \/ WriterStep \/ WriterSpurious
  \/ \E n \in 1 .. MaxLog : RcvMessage(n) \/ NetLoss(n)
  \/ CloseCall \/ CloseSignal \/ CloseJoin

LogFair == (\A t \in LogCallers : WF_logVars(CallerStep(t))) /\ WF_logVars(WriterStep) /\ WF_logVars(CloseSignal) /\ WF_logVars(CloseJoin)
LogSpec == LogInit /\ [][LogNext]_logVars /\ LogFair

(* The file of an asynchronous logger is the lines that were pushed, in    *)
(* that order, none twice, none missing but those the writer has yet to    *)
(* write; a close loses only the lines still queued, never the one the     *)
(* writer has taken.  A receiver writes only what was sent.                *)
LogInOrder ==
  LET taken == IF writer.at \in {"dec", "write"} THEN <<writer.line>> ELSE <<>> IN
  /\ log.mode = "async" => IF closer = "closed" THEN IsPrefix(log.file, accepted) ELSE accepted = log.file \o taken \o log.queue
  /\ writer.at = "gone" => taken = <<>>
  /\ log.mode = "sync" => Cardinality(ToSet(log.file)) = log.sequence
  /\ ToSet(rcv.file) \subseteq 1 .. log.sequence

(* ztl_log_close returns.  It does not when its signal comes between the   *)
(* writer's failed pop and its wait: the join waits for a writer that      *)
(* nobody will wake.                                                       *)
CloseReturns == (closer = "signal") ~> (closer = "closed")
=============================================================================
