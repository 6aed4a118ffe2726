\* One producer and one consumer, going round the array twice.
SPECIFICATION FairSpec
CONSTANTS
  Producers = {p1}
  Consumers = {c1}
  Size = 3
  MaxPush = 7
  MaxCrash = 0
INVARIANTS
  SingleNeverLapped
  TruthfulReturns
  PeekExact
PROPERTIES
  RefinesFifo
  Delivered
