SPECIFICATION Spec
CONSTANTS
  default = default
  Profiles = {default}
  LiveValues = {a}
  FixedValues = {plain}
  BadFixed = {}
  DefaultLive = a
  DefaultFixed = plain
  AlwaysOn = FALSE
  OverrideWithReason = FALSE
  ReconnectAfter = FALSE
  None = None
  Clients = {c1, c2}
  Sighup = Sighup
  Reconnector = Reconnector
  Commands = {"up", "set", "down"}
  Faults = {}
  MaxGeneration = 4
  MaxKeys = 2
  MaxRestarts = 0
SYMMETRY ClientSymmetry
PROPERTIES
  RebuildNeverStartsNode
CHECK_DEADLOCK FALSE
