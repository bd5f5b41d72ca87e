CONSTANTS
  MaxRequests = 3
  Kinds <- MCKinds
  PoolSizes <- MCPoolSizes
  MaxCalls = 3
  MaxWorkers = 3

SPECIFICATION Spec

INVARIANT
  Accounted

PROPERTIES
  ServiceSpec
  EverySettles
  RetiredClose

\* Once everything is settled and nobody calls anything, the threads wait.
CHECK_DEADLOCK FALSE
