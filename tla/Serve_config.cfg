SPECIFICATION Spec
CONSTANTS
  Clients = {c1, c2}
  Profiles = {personal, work}
  Hosts = {1, 2}
  Ports = {80, 443}
  Edits <- ServeEdits
  StoredAtBoot <- BootConfigs
  MaxEdits = 2
  MaxRenames = 1
  MaxStops = 1
SYMMETRY ServeSymmetry
INVARIANTS
  ServesWhatIsStored
PROPERTIES
  OffIsOff
  RestoreIsTaken
CHECK_DEADLOCK FALSE
