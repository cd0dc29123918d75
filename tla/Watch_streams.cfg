SPECIFICATION WatchSpec
CONSTANTS
  default = default
  Profiles = {default}
  LiveValues = {a, b}
  FixedValues = {plain}
  BadFixed = {}
  DefaultLive = a
  DefaultFixed = plain
  AlwaysOn = FALSE
  OverrideWithReason = FALSE
  ReconnectAfter = FALSE
  None = None
  Clients = {c1}
  Sighup = Sighup
  Reconnector = Reconnector
  Commands = {"up", "set", "down", "logout"}
  Faults = {}
  MaxGeneration = 4
  MaxKeys = 2
  MaxRestarts = 0
  EngineStates = {"Connecting", "Running"}
  Masks <- StreamMasks
  MaxQueue = 2
INVARIANTS
  StatusIsCurrent
  NotifyStateIsCurrent
  PrefsAreCurrent
PROPERTIES
  StatusIsDelivered
CHECK_DEADLOCK FALSE
