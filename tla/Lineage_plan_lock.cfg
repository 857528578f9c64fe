SPECIFICATION Spec
CONSTANTS
  Clients = {x1, x2}
  None = None
  Claims = {c1, c2}
  UuidClaims = {c1}
  Plans = {p1, p2}
  Runs = {r1, r2}
  Keys = {k1}
  Manifests = {m1}
  Digests = {d1, d2}
PROPERTIES LockedPlanIsKept
CHECK_DEADLOCK FALSE
