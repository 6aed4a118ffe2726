\* Two producers and two consumers, one of which may die inside an operation.
SPECIFICATION Spec
CONSTANTS
  Producers = {p1, p2}
  Consumers = {c1, c2}
  Size = 3
  MaxPush = 4
  MaxCrash = 1
SYMMETRY ThreadSymmetry
INVARIANTS
  TypeOK
  Inv
  ExactlyOnceWhileClean
  SlotOwnership
PROPERTIES
  FifoWhileClean
