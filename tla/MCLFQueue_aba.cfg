\* The smallest queue that holds an item, two consumers.
SPECIFICATION Spec
CONSTANTS
  Producers = {p1}
  Consumers = {c1, c2}
  Size = 2
  MaxPush = 3
  MaxCrash = 0
INVARIANTS
  ExactlyOnce
