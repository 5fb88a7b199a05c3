SPECIFICATION ValidationSpec
CONSTANTS
  Runtimes <- MCRuntimes
  Candidates <- MCCandidates
INVARIANTS
  PassMeansWorking
  ShotsTruthful
PROPERTY
  Concludes
CHECK_DEADLOCK FALSE
