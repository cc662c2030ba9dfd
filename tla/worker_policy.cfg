\* Every combination of the inputs up to 12 topics: primes, prime powers and
\* numbers with many divisors.
SPECIFICATION Spec
CONSTANTS
  MaxCores = 9
  MaxRequest = 13
  MaxTopics = 12
INVARIANTS
  TypeOK
  PoolFitsSlots
  LargestEvenShare
CHECK_DEADLOCK FALSE
