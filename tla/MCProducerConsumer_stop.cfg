\* A queue of one item that is full when ztl_pc_stop is called.
SPECIFICATION FairSpec
CONSTANTS
  Posters = {a}
  Control = ctl
  QueSize = 2
  Wrap = 8
  MaxPost = 2
  MaxStart = 1
CHECK_DEADLOCK FALSE
PROPERTIES
  StopReturns
