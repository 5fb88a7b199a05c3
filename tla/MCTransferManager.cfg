SPECIFICATION Spec
CONSTANTS
  u1 = u1
  u2 = u2
  p = p
  Uploads = {u1, u2}
  Download = d
  Paths = {p}
  Dest <- MCDest
  MaxKey = 2
  MaxFaults = 1
  MaxTorn = 1
  MaxTaps = 2
  None = None
INVARIANTS
  ShownResultIsTrue
  PublishedOnce
  NeverReplacedUnasked
  ApprovedPlayerOnly
  LeaksHaveACause
CHECK_DEADLOCK FALSE
SYMMETRY Symmetry
CONSTRAINTS
  Asking
  OneCompanion
  FewEvents
