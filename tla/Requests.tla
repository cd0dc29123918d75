------------------------------ MODULE Requests ------------------------------
(***************************************************************************)
(* The LocalAPI's vocabulary (localapi.rs, auth.rs): the requests a client *)
(* may send, grouped by what they ask for, and which of them need a caller *)
(* that may write.  A request is its variant; its fields are data.         *)
(***************************************************************************)

(* Requests that take their connection over.                               *)
Streams == {"Watch", "Nc", "DebugPortmap"}

(* Bring-up and preferences.                                               *)
UpRequests == {"Up"}
SetRequests == {"Set", "GetPrefs", "CheckPrefs", "CheckIpForwarding", "ReloadConfig"}

(* The two ways down, and the end of the daemon.                           *)
DownRequests == {"Down", "Logout", "Shutdown"}

ProfileRequests ==
  {"ProfileList", "SwitchProfile", "CreateProfile", "SwitchToEmptyProfile", "DeleteProfile"}

ServeRequests == {"GetServeConfig", "SetServeConfig"}

LockRequests == {"LockStatus", "LockLog", "LockInit", "LockSign", "LockDisable"}

FileRequests == {"FileCp", "FileList", "FileGet", "FileGetDir", "FileTargets"}

(* Questions about the node, and diagnostics of its engine.                *)
StatusRequests ==
  {"Status", "Version", "Metrics", "DnsStatus", "DnsQuery", "Netcheck",
   "SuggestExitNode", "Services", "SyspolicyList", "SyspolicyReload",
   "Cert", "BugReport", "Ip", "Whois", "IdToken", "Ping"}

DebugRequests == {"DebugCapture", "DebugRebind", "DebugReStun", "DebugStateDir"}

AllRequests ==
  UNION {Streams, UpRequests, SetRequests, DownRequests, ProfileRequests,
         ServeRequests, LockRequests, FileRequests, StatusRequests, DebugRequests}

(* The one authority on which verbs may be sent by anyone who can reach    *)
(* the socket.                                                             *)
Reads ==
  {"Status", "Watch", "Ip", "Whois", "Ping", "Version", "GetPrefs", "ProfileList",
   "LockStatus", "LockLog", "DnsStatus", "DnsQuery", "Netcheck", "SuggestExitNode",
   "Services", "SyspolicyList", "SyspolicyReload", "CheckIpForwarding", "BugReport",
   "GetServeConfig", "FileList", "FileTargets"}

requires_write(request) == request \notin Reads

(* Root and the daemon's owner may write; so may nobody whose credentials  *)
(* the kernel does not tell.                                               *)
access_for_uid(uid) == IF uid \in {"root", "owner"} THEN "ReadWrite" ELSE "ReadOnly"

authorized(request, access) == requires_write(request) => access = "ReadWrite"
=============================================================================
