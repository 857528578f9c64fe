SPECIFICATION Spec
CONSTANTS
  Jobs = {j1}
  NoJob = NoJob
  Workers = {w1}
  Results <- MCResults
  MaxAttempts = 2
  LeaseTicks = 1
  VisibilityTicks = 2
  HeartbeatTicks = 1
  RowDecodes = FALSE
  MaxFaults = 0
PROPERTIES ClaimHandsOutLease
CHECK_DEADLOCK FALSE
