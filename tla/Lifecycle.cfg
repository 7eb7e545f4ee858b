SPECIFICATION FairSpec
CONSTANTS
  Worker = {"outbox", "resolver", "dlq"}
  Monitor = {"dlq"}
  Call = {"get", "post"}
INVARIANTS
  TypeOK
  PoolOutlivesWork
  FailedStartLeavesNothing
  DrainKnowsDeadline
  DrainIsGranted
PROPERTIES
  StopEnds
