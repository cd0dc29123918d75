SPECIFICATION FairSpec
CONSTANTS
  Networks <- MCNetworks
  SettleTime <- MCSettleTime
  RECHECK_INTERVAL = 4
  ProbeSeconds = 1
  None = None
  MaxChanges = 6
  MaxFailures = 1
PROPERTIES
  WarningIsCurrent
  WarningClears
