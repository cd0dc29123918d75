SPECIFICATION FairSpec
CONSTANTS
  Profiles = {personal, work}
  Networks <- MCNetworks
  Nodes = {relay}
  Clients = {c1}
  None = None
  MaxChanges = 2
  MaxCommands = 3
  MaxFailures = 1
PROPERTIES
  PathIsFollowed
  RecomputeIsOurs
CHECK_DEADLOCK FALSE
