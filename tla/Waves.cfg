SPECIFICATION FairSpec
CONSTANTS
  None = None
  Plan <- MCPlan
  MaxWorkers = 2
INVARIANTS WaveBarrier DeclaredOrder
PROPERTIES Returns
CHECK_DEADLOCK FALSE
