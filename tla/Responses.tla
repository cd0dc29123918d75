----------------------------- MODULE Responses ------------------------------
(***************************************************************************)
(* The LocalAPI's answers (localapi.rs): the variants a request is         *)
(* answered with when it is not refused (server.rs dispatch, ipn/diag.rs), *)
(* and the ones the client reads as an answer to it (bin/tnet.rs).  Any    *)
(* request may also be answered with an error.                             *)
(***************************************************************************)
EXTENDS Requests

(* Acknowledgements without a body.                                        *)
Acknowledged ==
  {"Set", "Down", "Logout", "Shutdown", "SetServeConfig", "CheckPrefs",
   "SwitchProfile", "CreateProfile", "SwitchToEmptyProfile", "DeleteProfile",
   "LockInit", "LockSign", "LockDisable", "DebugRebind", "DebugReStun", "DebugCapture",
   "FileCp", "FileGet", "Nc"}

(* Answers that carry a report named like the request.                     *)
Reported ==
  {"Status", "Ip", "Whois", "Ping", "Version", "Metrics", "LockLog", "DnsStatus",
   "DnsQuery", "Netcheck", "Services", "Cert", "BugReport", "ReloadConfig", "IdToken",
   "FileTargets"}

(* And the ones with a name of their own.                                  *)
Named ==
  [GetPrefs |-> "Prefs", ProfileList |-> "Profiles", LockStatus |-> "Lock",
   SuggestExitNode |-> "ExitNodeSuggestion", SyspolicyList |-> "Policy",
   SyspolicyReload |-> "Policy", CheckIpForwarding |-> "IpForwardingCheck",
   GetServeConfig |-> "ServeConfig", FileList |-> "Files", FileGetDir |-> "FilesGot",
   DebugStateDir |-> "StateDir", DebugPortmap |-> "PortmapLog"]

(* The daemon's side.  A watch sends statuses or notifications, as its     *)
(* mask says; an up that would revert a preference is told which.          *)
Response(request, reverts, masked) ==
  CASE request = "Up" /\ reverts -> "RevertGuard"
    [] request = "Up" /\ ~reverts -> "Ok"
    [] request = "Watch" -> IF masked THEN "Notify" ELSE "Status"
    [] request \in Acknowledged -> "Ok"
    [] request \in Reported -> request
    [] request \in DOMAIN Named -> Named[request]

(* The client's side: what each command takes for an answer.               *)
Expects(command, request) ==
  CASE request = "Up" -> IF command = "up" THEN {"Ok", "RevertGuard"} ELSE {"Ok"}
    [] request = "Set" -> IF command = "set" THEN {"Ok", "RevertGuard"} ELSE {"Ok"}
    [] request = "Watch" -> IF command = "debug watch-ipn" THEN {"Notify"} ELSE {"Status"}
    [] request \in {"FileList", "FileGet", "FileGetDir"} -> {"Files", "FilesGot", "Ok"}
    [] request \in Acknowledged \ {"Set", "FileGet"} -> {"Ok"}
    [] request \in Reported -> {request}
    [] request \in DOMAIN Named \ {"FileList", "FileGetDir"} -> {Named[request]}
=============================================================================
