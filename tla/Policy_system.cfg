SPECIFICATION Spec
CONSTANTS
  Profiles = {"personal", "work"}
  FirstProfile = "personal"
  PolicyFiles <- Policies
  ConfigFiles <- Configs
  Edits <- PrefEdits
  Addresses = {"pinned", "other"}
  None = None
  MaxCommands = 3
  MaxBoots = 2
INVARIANTS
  PolicyOnDevice
  PolicyKeyEnrolsOnly
CHECK_DEADLOCK FALSE
