SPECIFICATION Spec
CONSTANTS
  Gateways = {g1, g2}
  NoGateway = NoGateway
  Types = {"", "pcp", "upnp", "other"}
  MaxAttempts = 2
INVARIANTS
  GrantsAreAccounted
  HeldIsFromLastGateway
  SlotMatchesAttempt
PROPERTIES
  RunFinishes
CHECK_DEADLOCK FALSE
