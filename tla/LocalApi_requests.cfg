CONSTANTS
  Conns = {c1, c2}
  Requested = {"Status", "Down", "Logout", "Set", "Up", "Watch", "Nc", "Shutdown", "Ping", "BugReport"}
  Uids = {"owner", "stranger"}
  Urls = {"url1", "url2"}
  MaxConnections = 2
  MaxStreams = 1
  MaxRequests = 1
  MaxGen = 2
  Free = Free
SPECIFICATION Spec
INVARIANTS
  StreamsLeaveRoom
  StopIsEarned
PROPERTIES
  LockIsNeverStuck
CHECK_DEADLOCK FALSE
