\* More workers than places in the queue: ztl_thrpool_create(2, 1).
SPECIFICATION FairSpec
CONSTANTS
  Workers = {w1, w2}
  Dispatchers = {d}
  Control = ctl
  Funcs = {f}
  MaxSize = 1
  MaxJob = 1
CHECK_DEADLOCK FALSE
PROPERTY
  StopTerminates
