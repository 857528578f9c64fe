SPECIFICATION Spec
CONSTANTS
  None = None
  EventIds <- MCEventIds
  Messages <- MCMessages
  MaxDatasets <- MCMaxDatasets
  Clients = {x1, x2}
  Datasets = {d1, d2, d3}
  Digests = {g1, g2}
  MaxVersions = 2
  MaxFaults = 1
SYMMETRY MCSymmetry
INVARIANTS VersionsNumbered CleanUploads QuotaOvershoot NewestEventWins
PROPERTIES ReplayIsInert
CHECK_DEADLOCK FALSE
