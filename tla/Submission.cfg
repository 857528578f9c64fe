SPECIFICATION Spec
CONSTANTS
  r1 = r1
  r2 = r2
  r3 = r3
  r4 = r4
  Requests = {r1, r2, r3, r4}
  NoRequest = NoRequest
  Keys = {"k1", "k2"}
  Bodies = {"b1", "b2"}
  KeyOf <- MCKeyOf
  BodyOf <- MCBodyOf
  MaxConcurrent = 2
  MaxMonthly = 3
  MaxFaults = 2
INVARIANTS OneRunPerKey AnswersAgree UndeliveredRunsWereReported
PROPERTIES LimitsUnlessRaced
CHECK_DEADLOCK FALSE
