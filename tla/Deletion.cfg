SPECIFICATION Spec
CONSTANTS
  Executors = {e1, e2}
  Requests = {q1, q2}
  Ops = {"op", "ws"}
  Resources = {"dataset", "workspace"}
  OpOf <- MCOpOf
  ResourceOf <- MCResourceOf
  MaxFaults = 2
INVARIANTS CompletedMeansDeleted DeletionIsOnRecord CompletedIsAudited AnswersHold
PROPERTIES SettledIsNotRetried ImplementsLedger
CHECK_DEADLOCK FALSE
