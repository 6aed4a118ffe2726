\* Two posters, two lives of the worker, a queue of two.
SPECIFICATION FairSpec
CONSTANTS
  Posters = {a, b}
  Control = ctl
  QueSize = 3
  Wrap = 8
  MaxPost = 2
  MaxStart = 2
CHECK_DEADLOCK FALSE
INVARIANTS
  CountExact
  DrainedOnStop
PROPERTIES
  EventuallyHandled
  StopReturnsOnceQueued
