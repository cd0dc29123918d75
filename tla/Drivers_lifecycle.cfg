SPECIFICATION Spec
CONSTANTS
  default = default
  Profiles = {default, work}
  LiveValues = {a}
  FixedValues = {plain}
  BadFixed = {}
  DefaultLive = a
  DefaultFixed = plain
  AlwaysOn = TRUE
  OverrideWithReason = TRUE
  ReconnectAfter = FALSE
  None = None
  Clients = {c1, c2}
  Sighup = Sighup
  Reconnector = Reconnector
  Commands = {"up", "down", "logout", "switch", "create", "new", "delete", "sighup"}
  Faults = {"persist", "wipe", "profile", "gate"}
  MaxGeneration = 4
  MaxKeys = 3
  MaxRestarts = 1
SYMMETRY ClientSymmetry
INVARIANTS
  AttemptGuard
  DeviceOnCurrentProfile
  DeviceKeyOnDisk
  DeviceIsWanted
  LoggedOutKeyGone
  KeyCacheAgrees
  PointerAgrees
  AlwaysOnHolds
PROPERTIES
  KeepsPromise
CHECK_DEADLOCK FALSE
