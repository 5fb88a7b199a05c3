SPECIFICATION FairSpec
CONSTANTS
  Monitors = {m1}
  Clis = {c1}
  Boot = c1
  Addresses = {a1}
  None = None
  Commands = {"disable"}
  MaxServers = 4
PROPERTY ListensOnlyWhenAllowed
