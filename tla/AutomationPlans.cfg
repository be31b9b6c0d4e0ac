SPECIFICATION Spec
CONSTANTS
  UserPlans = {p1, p2}
  SystemPlan = sys
  Strategies = {s1, s2}
  Clients = {c1, c2}
  RuleIds = {"r1", "r2"}
  Specs <- MCSpecs
  Capabilities <- MCCapabilities
  MaxVersion = 3
  MaxRequests = 3
  Legacy = TRUE
  None = None
SYMMETRY MCSymmetry
CHECK_DEADLOCK FALSE
INVARIANTS
  OneActivePlan
  VersionsAreApproved
PROPERTIES
  FiringsAreKept
