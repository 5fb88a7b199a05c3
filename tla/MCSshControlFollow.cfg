SPECIFICATION FairSpec
CONSTANTS
  Monitors = {m1}
  Clis = {c1, c2}
  Boot = c1
  Addresses = {a1, a2}
  None = None
  Commands = {"enable"}
  MaxServers = 4
INVARIANT BoundIpTruthful
PROPERTIES Rebinds ListensOnlyWhenAllowed
