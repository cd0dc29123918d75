------------------------------- MODULE Policy -------------------------------
(***************************************************************************)
(* System policy over the preferences (ipn/syspolicy.rs, exitnodepolicy.rs *)
(* and alwayson.rs, the reconcile points of ipn/mod.rs, conffile.rs): what *)
(* an administrator pins, the exemptions an operator may earn, and the     *)
(* commands, config reloads and restarts that meet them.                   *)
(***************************************************************************)
EXTENDS Naturals, Sequences

CONSTANTS
  Profiles,     \* login profiles
  FirstProfile, \* the one a fresh state directory is on
  PolicyFiles,  \* contents the policy file may have, as functions from keys to values
  ConfigFiles,  \* contents the --config file may have
  Edits,        \* what up and set may name, as functions from prefs to values
  Addresses,    \* strings that parse as an IP address
  None,         \* no device, no attempt, no file
  MaxCommands,  \* bound on commands
  MaxBoots      \* bound on starts of the daemon

(* An edit or a config file names settings, never the record of a login.   *)
ASSUME PolicyAssumption ==
  /\ FirstProfile \in Profiles
  /\ \A named \in Edits : "has_logged_in" \notin DOMAIN named
  /\ \A config \in ConfigFiles : "has_logged_in" \notin DOMAIN config.prefs

VARIABLES
  files,    \* the policy file and the --config file (None: not given)
  stored,   \* each profile's prefs.json, None before the first save
  sources,  \* the registered policy sources
  be,       \* the backend: profile, prefs, override, timer, config_source
  engine,   \* the device's config and state, and the bring-up in flight
  tasks,    \* what set and reload-config still have to do off their first lock
  count     \* how much of each bound is used

vars == <<files, stored, sources, be, engine, tasks, count>>

(* One field of an edit, and an edit laid over what was there.             *)
d :> e == [x \in {d} |-> e]
f @@ g == [x \in DOMAIN f \union DOMAIN g |-> IF x \in DOMAIN f THEN f[x] ELSE g[x]]
-----------------------------------------------------------------------------
(* The policy's keys, with the type of each.  A JSON value is a record of  *)
(* its type and what it holds.                                             *)
PREFERENCE_POLICIES ==
  [AllowIncomingConnections |-> "shields_up",
   ExitNodeAllowLANAccess   |-> "exit_node_allow_lan_access",
   UseTailscaleDNSSettings  |-> "accept_dns",
   UseTailscaleSubnets      |-> "accept_routes",
   CheckUpdates             |-> "auto_update_check",
   InstallUpdates           |-> "auto_update_apply",
   AdvertiseExitNode        |-> "advertise_exit_node"]

StringPolicies == [LoginURL |-> "control_url", Hostname |-> "hostname"]

DEFINITIONS ==
  [k \in DOMAIN PREFERENCE_POLICIES \union {"UnattendedMode"} |-> "PreferenceOption"]
    @@ [k \in DOMAIN StringPolicies \union {"AuthKey", "ExitNodeID", "ExitNodeIP"} |-> "String"]
    @@ [k \in {"ExitNode.AllowOverride", "AlwaysOn.Enabled", "AlwaysOn.OverrideWithReason"} |->
          "Boolean"]
    @@ "ReconnectAfter" :> "Duration" @@ "AllowedSuggestedExitNodes" :> "StringList"
    @@ "AdminConsole" :> "Visibility"

read_value(value, type) ==
  CASE type = "Boolean"          -> value.json = "bool"
    [] type = "StringList"       -> value.json = "array" /\ \A i \in DOMAIN value.v : value.v[i].json = "string"
    [] type = "Duration"         -> value.json = "string" /\ value.v \in {"0s", "1h"}
    [] type = "PreferenceOption" -> value.json = "string" /\ value.v \in {"always", "never", "user-decides"}
    [] type = "Visibility"       -> value.json = "string" /\ value.v \in {"show", "hide"}
    [] OTHER                     -> value.json = "string"

validate(store) ==
  \A k \in DOMAIN store : k \in DOMAIN DEFINITIONS /\ read_value(store[k], DEFINITIONS[k])

(* The auth key is kept aside and never rendered with the other settings.  *)
read_settings(store) ==
  [k \in DOMAIN store |-> IF k = "AuthKey" THEN "<redacted>" ELSE store[k].v]

read_source(store) ==
  [settings |-> read_settings(store),
   auth_key |-> IF "AuthKey" \in DOMAIN store THEN store["AuthKey"].v ELSE ""]

(* Later sources win; a file that is absent or invalid registers nothing.  *)
load_json_policy_file(store) ==
  IF store = None \/ ~validate(store) THEN <<>> ELSE <<read_source(store)>>

registered_store_settings(srcs) == IF srcs = <<>> THEN <<>> ELSE srcs[Len(srcs)].settings
configured_auth_key(srcs) == IF srcs = <<>> THEN "" ELSE srcs[Len(srcs)].auth_key

Settings == registered_store_settings(sources)
configured(settings, key, default) == IF key \in DOMAIN settings THEN settings[key] ELSE default

reconnect_after(settings) == configured(settings, "ReconnectAfter", "0s") # "0s"

policy_exit_node_in(settings) ==
  LET ip == configured(settings, "ExitNodeIP", "") IN
  IF configured(settings, "ExitNodeID", "") = "" /\ ip \in Addresses THEN ip ELSE None
-----------------------------------------------------------------------------
(* What the policy makes of the prefs.  "" is a string pref that is unset. *)
should_enable(key, option) == (option = "always") # (key = "AllowIncomingConnections")

Pins(settings) ==
  LET strings == DOMAIN StringPolicies \intersect DOMAIN settings
      options == {k \in DOMAIN PREFERENCE_POLICIES \intersect DOMAIN settings :
                    settings[k] # "user-decides"}
      policies == StringPolicies @@ PREFERENCE_POLICIES
      key(p) == CHOOSE k \in strings \union options : policies[k] = p
      value(k) == IF k \in strings THEN settings[k] ELSE should_enable(k, settings[k])
  IN [p \in {policies[k] : k \in strings \union options} |-> value(key(p))]
       @@ IF policy_exit_node_in(settings) = None THEN <<>>
          ELSE "exit_node" :> policy_exit_node_in(settings)

apply_settings_to_prefs(settings, prefs, overrides) ==
  LET pins == Pins(settings) IN
  [p \in DOMAIN prefs |->
     CASE p = "want_running" ->
            prefs[p] \/ (configured(settings, "AlwaysOn.Enabled", FALSE) /\ ~overrides.always_on)
       [] p \in DOMAIN pins /\ ~(p = "exit_node" /\ overrides.exit_node) -> pins[p]
       [] OTHER -> prefs[p]]

reconcile_sys_policy(prefs, overrides) == apply_settings_to_prefs(Settings, prefs, overrides)

(* Mutant: an allowed override may turn the exit node off.                 *)
check_exit_node_edit_clears(named) ==
  LET pinned == policy_exit_node_in(Settings) IN
  IF "exit_node" \notin DOMAIN named THEN "Untouched"
  ELSE IF pinned = None THEN "NoOverride"
  ELSE IF ~configured(Settings, "ExitNode.AllowOverride", FALSE) THEN "refused"
  ELSE IF named["exit_node"] = pinned THEN "NoOverride" ELSE "Override"

(* What an edit that names an exit node means for the exemption.           *)
check_exit_node_edit(named) ==
  LET pinned == policy_exit_node_in(Settings) IN
  IF "exit_node" \notin DOMAIN named THEN "Untouched"
  ELSE IF pinned = None THEN "NoOverride"
  ELSE IF ~configured(Settings, "ExitNode.AllowOverride", FALSE) \/ named["exit_node"] = ""
    THEN "refused"
  ELSE IF named["exit_node"] = pinned THEN "NoOverride" ELSE "Override"

record_exit_node_edit(standing, edit) == edit = "Override" \/ (edit = "Untouched" /\ standing)

check_disconnect_policy(reason) ==
  \/ ~configured(Settings, "AlwaysOn.Enabled", FALSE)
  \/ configured(Settings, "AlwaysOn.OverrideWithReason", FALSE) /\ reason # ""
-----------------------------------------------------------------------------
NoOverrides == [always_on |-> FALSE, exit_node |-> FALSE]

DefaultPrefs ==
  [want_running |-> FALSE, logged_out |-> FALSE, has_logged_in |-> FALSE, control_url |-> "",
   hostname |-> "", exit_node |-> "", shields_up |-> FALSE, exit_node_allow_lan_access |-> FALSE,
   accept_dns |-> TRUE, accept_routes |-> FALSE, auto_update_check |-> TRUE,
   auto_update_apply |-> FALSE, advertise_exit_node |-> FALSE]

reset_up_managed_to_default(prefs) ==
  [p \in DOMAIN prefs |->
     IF p \in {"want_running", "logged_out", "has_logged_in", "auto_update_check", "auto_update_apply"}
     THEN prefs[p] ELSE DefaultPrefs[p]]

(* The AuthKey of the policy, for a bring-up that has no key of its own.   *)
auth_key_gate ==
  [running |-> engine.state = "Running", needs_login |-> engine.state = "NeedsLogin",
   enrolled |-> be.prefs.has_logged_in, config_in_use |-> be.config_source]

(* Mutant: an enrolled node is not told apart.                             *)
auth_key_in_whenever(srcs, gate) ==
  configured_auth_key(srcs) # "" /\ ~gate.running /\ ~gate.config_in_use

auth_key_in(srcs, gate) ==
  /\ configured_auth_key(srcs) # ""
  /\ ~gate.running /\ ~gate.config_in_use
  /\ gate.enrolled => gate.needs_login

policy_auth_key(given) ==
  IF given # "none" THEN given ELSE IF auth_key_in(sources, auth_key_gate) THEN "policy" ELSE "none"

StoppedEngine == [device |-> None, state |-> "none", attempt |-> None]

(* begin_up: every check passed, the device is stopped, the edit lands,    *)
(* the exemptions end, the policy has the last word, and a bring-up starts.*)
begin_up(named, reset, key) ==
  LET kept == IF reset THEN reset_up_managed_to_default(be.prefs) ELSE be.prefs
      edited == [named @@ kept EXCEPT !.want_running = TRUE, !.logged_out = FALSE]
      overrides == [NoOverrides EXCEPT !.exit_node =
                      record_exit_node_edit(FALSE, check_exit_node_edit(named))]
      prefs == reconcile_sys_policy(edited, overrides)
  IN /\ be' = [be EXCEPT !.prefs = prefs, !.override = overrides, !.timer = FALSE]
     /\ stored' = [stored EXCEPT ![be.profile] = prefs]
     /\ engine' = [StoppedEngine EXCEPT !.attempt =
                     [config |-> prefs, key |-> key, needs_login |-> engine.state = "NeedsLogin",
                      boot |-> FALSE]]

(* The server answers only once the bring-up of the start has ended.       *)
Serving == count.boots > 0 /\ (engine.attempt # None => ~engine.attempt.boot)

Command ==
  /\ Serving
  /\ count.commands < MaxCommands
  /\ count' = [count EXCEPT !.commands = @ + 1]

Up(named, reset, given) ==
  /\ Command
  /\ check_exit_node_edit(named) # "refused"
  /\ begin_up(named, reset, policy_auth_key(given))
  /\ UNCHANGED <<files, sources, tasks>>

(* The prefs set applies to a running device in place, and those that take *)
(* a rebuild.                                                              *)
LiveSetters == <<"exit_node", "hostname", "accept_routes", "accept_dns", "advertise_exit_node">>
RebuildOnly == {"shields_up", "auto_update_apply"}

(* begin_set: a live setter may fail, and then those after it are not tried.*)
Set(named) ==
  LET edit == check_exit_node_edit(named)
      overrides == [be.override EXCEPT !.exit_node = record_exit_node_edit(@, edit)]
      prefs == reconcile_sys_policy(named @@ be.prefs, overrides)
      rebuild == DOMAIN named \intersect RebuildOnly # {}
  IN
  /\ Command
  /\ edit # "refused"
  /\ be' = [be EXCEPT !.prefs = prefs, !.override = overrides]
  /\ stored' = [stored EXCEPT ![be.profile] = prefs]
  /\ tasks' = IF engine.device # None /\ rebuild THEN tasks \union {"rebuild for set"} ELSE tasks
  /\ \E done \in IF engine.device = None \/ rebuild THEN {0} ELSE 0 .. Len(LiveSetters) :
       LET applied == {LiveSetters[i] : i \in 1 .. done} \intersect DOMAIN named IN
       engine' = IF applied = {} THEN engine
                 ELSE [engine EXCEPT !.device = [p \in applied |-> prefs[p]] @@ @]
  /\ UNCHANGED <<files, sources>>

(* rebuild_running_device: begin_up from the prefs as they are by now.     *)
Rebuild(task) ==
  /\ task \in tasks \ {"bring down"}
  /\ tasks' = tasks \ {task}
  /\ begin_up(<<>>, FALSE, "none")
  /\ UNCHANGED <<files, sources, count>>

(* finish_up and the save after it: the bring-up in flight is the newest.  *)
FinishUp ==
  /\ engine.attempt # None
  /\ \/ /\ be' = [be EXCEPT !.prefs.has_logged_in = TRUE]
        /\ stored' = [stored EXCEPT ![be.profile] = be'.prefs]
        /\ engine' = [device |-> engine.attempt.config, state |-> "Running", attempt |-> None]
     \/ engine' = [engine EXCEPT !.attempt = None] /\ UNCHANGED <<be, stored>>
  /\ UNCHANGED <<files, sources, tasks, count>>

(* The control plane wants the node to log in again.                       *)
KeyExpires ==
  /\ engine.state = "Running"
  /\ engine' = [engine EXCEPT !.state = "NeedsLogin"]
  /\ UNCHANGED <<files, stored, sources, be, tasks, count>>

(* down and logout: a permitted disconnect earns the always-on exemption   *)
(* and arms the timer; an exit node override ends without a reconcile.     *)
Disconnects(change) ==
  LET prefs == change @@ be.prefs IN
  /\ be' = [be EXCEPT
       !.prefs = prefs,
       !.override = [always_on |-> @.always_on \/ be.prefs.want_running, exit_node |-> FALSE],
       !.timer = @ \/ (be.prefs.want_running /\ reconnect_after(Settings))]
  /\ stored' = [stored EXCEPT ![be.profile] = prefs]
  /\ engine' = StoppedEngine

Down(reason) ==
  /\ Command
  /\ check_disconnect_policy(reason)
  /\ Disconnects("want_running" :> FALSE)
  /\ UNCHANGED <<files, sources, tasks>>

Logout(reason) ==
  /\ Command
  /\ check_disconnect_policy(reason)
  /\ Disconnects("want_running" :> FALSE @@ "logged_out" :> TRUE @@ "has_logged_in" :> FALSE)
  /\ UNCHANGED <<files, sources, tasks>>

(* The rest of a reload-config that turned the node off.                   *)
BringDown ==
  /\ "bring down" \in tasks
  /\ tasks' = tasks \ {"bring down"}
  /\ Disconnects("want_running" :> FALSE)
  /\ UNCHANGED <<files, sources, count>>

(* reconnect_now: the armed window elapsed.                                *)
Reconnect ==
  /\ be.timer
  /\ begin_up(<<>>, FALSE, policy_auth_key("none"))
  /\ UNCHANGED <<files, sources, tasks, count>>

(* activate_profile: the target's prefs, reconciled but not saved.         *)
Switch(target) ==
  LET prefs == IF stored[target] = None THEN DefaultPrefs ELSE stored[target] IN
  /\ Command
  /\ target # be.profile
  /\ be' = [be EXCEPT !.profile = target, !.prefs = reconcile_sys_policy(prefs, NoOverrides),
                      !.override = NoOverrides, !.timer = FALSE]
  /\ engine' = StoppedEngine
  /\ UNCHANGED <<files, stored, sources, tasks>>
-----------------------------------------------------------------------------
(* The --config file: named prefs, Enabled, whether its fields are valid,  *)
(* and whether the key file its AuthKey names can be read.                 *)
ConfigIsValid(config) ==
  config.parses /\ ("exit_node" \in DOMAIN config.prefs => config.prefs["exit_node"] # "")

apply_to_prefs(config, prefs) == "want_running" :> config.enabled @@ config.prefs @@ prefs

reload_config_refused ==
  /\ ~ConfigIsValid(files.config)
  /\ UNCHANGED <<stored, be, engine, tasks>>

(* The fields have landed when the auth key turns out not to resolve.      *)
reload_config_no_key ==
  /\ ConfigIsValid(files.config) /\ ~files.config.key_resolves
  /\ be' = [be EXCEPT !.prefs = apply_to_prefs(files.config, @)]
  /\ UNCHANGED <<stored, engine, tasks>>

(* apply_config, and the ReloadAction its outcome calls for.               *)
reload_config_applies ==
  LET prefs == reconcile_sys_policy(apply_to_prefs(files.config, be.prefs), be.override)
      action == IF prefs.want_running THEN "rebuild for reload-config" ELSE "bring down"
  IN
  /\ ConfigIsValid(files.config) /\ files.config.key_resolves
  /\ be' = [be EXCEPT !.prefs = prefs]
  /\ stored' = [stored EXCEPT ![be.profile] = prefs]
  /\ tasks' = IF engine.device = None THEN tasks ELSE tasks \union {action}
  /\ UNCHANGED engine

ReloadConfig ==
  /\ Command
  /\ be.config_source
  /\ reload_config_refused \/ reload_config_no_key \/ reload_config_applies
  /\ UNCHANGED <<files, sources>>

EditConfig ==
  /\ Command
  /\ be.config_source
  /\ \E config \in ConfigFiles \ {files.config} : files' = [files EXCEPT !.config = config]
  /\ UNCHANGED <<stored, sources, be, engine, tasks>>

(* A start of the daemon, after a stop or a crash and whatever was done to *)
(* the files meanwhile: the policy is registered before the prefs load, a  *)
(* bad config ends the start, and a node that wants to run is brought up.  *)
Starts(policy, config, stored_prefs, profile) ==
  LET srcs == load_json_policy_file(policy)
      settings == registered_store_settings(srcs)
      loaded == apply_settings_to_prefs(settings,
                  IF stored_prefs = None THEN DefaultPrefs ELSE stored_prefs, NoOverrides)
      merged == IF config = None THEN loaded
                ELSE apply_settings_to_prefs(settings, apply_to_prefs(config, loaded), NoOverrides)
      wanted == merged.want_running /\ ~merged.logged_out
      gate == [running |-> FALSE, needs_login |-> FALSE, enrolled |-> merged.has_logged_in,
               config_in_use |-> config # None]
  IN
  /\ config # None => ConfigIsValid(config) /\ config.key_resolves
  /\ files' = [policy |-> policy, config |-> config]
  /\ sources' = srcs
  /\ be' = [profile |-> profile, prefs |-> merged, override |-> NoOverrides, timer |-> FALSE,
            config_source |-> config # None]
  /\ engine' = IF wanted
               THEN [StoppedEngine EXCEPT !.attempt =
                       [config |-> merged, key |-> IF auth_key_in(srcs, gate) THEN "policy" ELSE "none",
                        needs_login |-> FALSE, boot |-> TRUE]]
               ELSE StoppedEngine
  /\ stored' = IF config # None \/ wanted THEN [stored EXCEPT ![profile] = merged] ELSE stored
  /\ tasks' = {}

Boot ==
  /\ count.boots < MaxBoots
  /\ count' = [count EXCEPT !.boots = @ + 1]
  /\ \E policy \in PolicyFiles \union {None}, config \in ConfigFiles \union {None} :
       Starts(policy, config, stored[be.profile], be.profile)

Init ==
  /\ files = [policy |-> None, config |-> None]
  /\ stored = [p \in Profiles |-> None]
  /\ sources = <<>>
  /\ be = [profile |-> FirstProfile, prefs |-> DefaultPrefs, override |-> NoOverrides,
           timer |-> FALSE, config_source |-> FALSE]
  /\ engine = StoppedEngine
  /\ tasks = {}
  /\ count = [commands |-> 0, boots |-> 0]

Next ==
  \/ Boot
  \/ \E named \in Edits, reset \in BOOLEAN, given \in {"none", "operator"} : Up(named, reset, given)
  \/ \E named \in Edits : Set(named)
  \/ \E task \in tasks : Rebuild(task)
  \/ BringDown
  \/ FinishUp
  \/ KeyExpires
  \/ \E reason \in {"", "reason"} : Down(reason) \/ Logout(reason)
  \/ Reconnect
  \/ \E target \in Profiles : Switch(target)
  \/ ReloadConfig
  \/ EditConfig

Spec == Init /\ [][Next]_vars
-----------------------------------------------------------------------------
(* Properties.                                                             *)

(* Whatever was edited, reloaded, switched or restarted, the device runs   *)
(* with every pref the registered policy pins, and egresses by the pinned  *)
(* node or, where ExitNode.AllowOverride says so, by another, never by     *)
(* none (exitnodepolicy.rs, reconcile_sys_policy).                         *)
PolicyOnDevice ==
  engine.device # None =>
    \A p \in DOMAIN Pins(Settings) :
      \/ engine.device[p] = Pins(Settings)[p]
      \/ /\ p = "exit_node"
         /\ configured(Settings, "ExitNode.AllowOverride", FALSE)
         /\ engine.device[p] # ""

(* A bring-up takes the policy's AuthKey only on a node whose prefs.json   *)
(* does not record a login, or whose control plane asked for a new one: no *)
(* restart, reconnect or switch registers an enrolled node again           *)
(* (auth_key_gate, auth_key_in).                                           *)
PolicyKeyEnrolsOnly ==
  engine.attempt # None /\ engine.attempt.key = "policy" =>
    \/ stored[be.profile] # None /\ ~stored[be.profile].has_logged_in
    \/ engine.attempt.needs_login

=============================================================================
