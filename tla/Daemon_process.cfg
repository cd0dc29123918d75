SPECIFICATION FairSpec
CONSTANTS
  Conns = {c1}
  Dials = {d1}
  Launches <- MCLaunches
  ProxySlots = 1
  MaxStarts = 2
  MaxKills = 1
  MaxHups = 1
INVARIANTS
  LeavesNothing
  HostIsOurs
PROPERTIES
  VerbRestarts
  TermEnds
CHECK_DEADLOCK FALSE
