SPECIFICATION Spec
CONSTANTS
  Monitors = {m1}
  Clis = {c1, c2}
  Boot = c1
  Addresses = {a1}
  None = None
  Commands = {"disable", "toggle", "restart"}
  MaxServers = 1
CONSTRAINT NoCard
INVARIANT TypeOK
PROPERTIES MarkersLostOnlyByOverlap
