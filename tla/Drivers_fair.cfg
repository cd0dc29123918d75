SPECIFICATION FairSpec
CONSTANTS
  default = default
  Profiles = {default}
  LiveValues = {a}
  FixedValues = {plain, bad}
  BadFixed = {bad}
  DefaultLive = a
  DefaultFixed = plain
  AlwaysOn = FALSE
  OverrideWithReason = FALSE
  ReconnectAfter = TRUE
  None = None
  Clients = {c1}
  Sighup = Sighup
  Reconnector = Reconnector
  Commands = {"up", "set", "reload-config", "down", "logout", "sighup"}
  Faults = {}
  MaxGeneration = 4
  MaxKeys = 2
  MaxRestarts = 1
INVARIANTS
  TypeOK
PROPERTIES
  TasksFinish
  ReconnectHappens
CHECK_DEADLOCK FALSE
