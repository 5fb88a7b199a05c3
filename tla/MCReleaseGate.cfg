SPECIFICATION Spec
CONSTANTS
  v1 = v1
  v2 = v2
  v3 = v3
  c1 = c1
  c2 = c2
  Versions = {v1, v2, v3}
  Ssh <- MCSsh
  Pipelines = {p1, p2}
  Runs = {r1, r2}
  NumFeatured = 2
  MaxEvents = 2
  Partial = Partial
  None = None
SYMMETRY Symmetry
CONSTRAINT FewEvents
INVARIANTS OneLifecycle PublishedTested EvidenceOfOneRun
