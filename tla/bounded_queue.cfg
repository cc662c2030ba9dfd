\* Two producers and two consumers on a queue with a single place.
SPECIFICATION FairSpec
CONSTANTS
  Producers = {p1, p2}
  Consumers = {c1, c2}
  Capacity = 1
  Pushes = 2
INVARIANTS
  TypeOK
  NoLostWakeup
  CloseWakesEveryone
  DrainedAtEnd
PROPERTY EveryCallReturns
