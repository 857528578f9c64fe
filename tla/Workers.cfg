SPECIFICATION FairSpec
CONSTANTS
  Jobs = {j1}
  NoJob = NoJob
  Workers = {w1, w2}
  Results <- MCResults
  MaxAttempts = 2
  LeaseTicks = 2
  VisibilityTicks = 3
  HeartbeatTicks = 1
  RowDecodes = TRUE
  MaxFaults = 2
INVARIANTS TypeOK SucceededHasResult AckedRunIsFinal OneLeaseHolder ExhaustedMeansAllAttemptsUsed LeaseHeldWhileWorking AttemptedOnce
PROPERTIES SucceedsOnOwnResult ImplementsLifecycle EveryRunEnds QueueDrains
CHECK_DEADLOCK FALSE
