------------------------------ MODULE MCPolicy ------------------------------
(* A small instance of Policy for TLC: an administrator who pins an exit   *)
(* node and may allow another, one who keeps the node on, a file that does *)
(* not validate, and a --config file that is good, bad or half good.       *)
EXTENDS Policy

bool(v) == [json |-> "bool", v |-> v]
str(v) == [json |-> "string", v |-> v]

Pinned == "ExitNodeIP" :> str("pinned") @@ "AllowIncomingConnections" :> str("never")
Lenient == Pinned @@ "ExitNode.AllowOverride" :> bool(TRUE) @@ "AuthKey" :> str("key")
Strict ==
  Pinned @@ "AlwaysOn.Enabled" :> bool(TRUE) @@ "AlwaysOn.OverrideWithReason" :> bool(TRUE)
    @@ "ReconnectAfter" :> str("1h") @@ "Hostname" :> str("")
Mixed == Pinned @@ "ExitNodeID" :> str("node") @@ "UseTailscaleSubnets" :> str("user-decides")
Invalid == Pinned @@ "ExitNode.AllowOverride" :> str("yes")

Policies == {Lenient, Strict, Mixed, Invalid}
config(parses, enabled, prefs, key_resolves) ==
  [parses |-> parses, enabled |-> enabled, prefs |-> prefs, key_resolves |-> key_resolves]

Configs ==
  {config(TRUE, TRUE, "exit_node" :> "other", TRUE), config(TRUE, FALSE, <<>>, TRUE),
   config(TRUE, FALSE, "hostname" :> "new", FALSE), config(TRUE, TRUE, "exit_node" :> "", TRUE)}
PrefEdits ==
  {<<>>, "exit_node" :> "other", "exit_node" :> "pinned", "exit_node" :> "",
   "exit_node" :> "other" @@ "shields_up" :> FALSE}
=============================================================================
