\* Two workers, a thread that dispatches and removes beside ztl_thrpool_stop, a queue of two.
SPECIFICATION FairSpec
CONSTANTS
  Workers = {w1, w2}
  Dispatchers = {d}
  Control = ctl
  Funcs = {f}
  MaxSize = 2
  MaxJob = 2
CHECK_DEADLOCK FALSE
INVARIANTS
  TypeOK
  QueueBound
  NodeExclusive
  RunsOnce
  NoStranded
  JoinedNoTask
PROPERTIES
  TaskRuns
  StopTerminatesUnremoved
