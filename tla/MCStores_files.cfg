SPECIFICATION StoresSpec
CONSTANTS
  Items = {i1}
  Versions = {v1, v2}
  Procs = {p1, p2}
  None = none
  TornFile = tornfile
  Users = {u1, u2}
  Torn = torn
  MaxIssued = 2
  PkCount = 2
  MaxFetched = 3
  MaxPkFaults = 1
  CoderKinds <- CoderKindsOfStack
  Caps = {2}
  Unlimited = unlimited
  Minimums = {70}
  Confidences = {50, 90}
  MaxContent = 2
  Broken = {1}
  MaxShipFaults = 1
  Threshold = 80
  Writers = {p1, p2}
  Branches = {1, 2}
  Eol = eol
  MaxStamps = 4
  MaxResets = 1
SYMMETRY Interchangeable
CONSTRAINT Undisturbed
INVARIANTS TrustSound AuthSound ScorecardSound PackagesSound RoutesSound ShipSound
CHECK_DEADLOCK FALSE
