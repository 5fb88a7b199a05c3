SPECIFICATION FairSpec
CONSTANTS
  Threads = {t1, t2}
  MaxOffset = 1
  Nobody = Nobody
INVARIANTS
  SessionOwnsDisplay
  SidecarContained
  HandedBack
PROPERTIES
  CoherenceLostOnlyAtHandOver
  ReadBackTruthful
  HandBackClean
  LaunchConcludes
  OrphanGone
