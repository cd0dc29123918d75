---------------------------- MODULE PolicyProofs ----------------------------
(***************************************************************************)
(* Proofs about Policy for every set of profiles, policy files, config     *)
(* files and edits and every bound: no path to the device escapes a pin,   *)
(* and the policy's key enrols but never enrols again.                     *)
(***************************************************************************)
EXTENDS Policy, TLAPS

Names ==
  {"want_running", "logged_out", "has_logged_in", "control_url", "hostname", "exit_node",
   "shields_up", "exit_node_allow_lan_access", "accept_dns", "accept_routes",
   "auto_update_check", "auto_update_apply", "advertise_exit_node"}

(* Every pref is there: a pin on a missing one would be no pin.            *)
Whole(prefs) == Names \subseteq DOMAIN prefs

(* A device built with these prefs is as the settings pin it.              *)
Obeys(prefs, settings) ==
  \A p \in DOMAIN Pins(settings) :
    \/ prefs[p] = Pins(settings)[p]
    \/ /\ p = "exit_node"
       /\ configured(settings, "ExitNode.AllowOverride", FALSE)
       /\ prefs[p] # ""

(* An override that stands was allowed, and names an exit node.            *)
Earned(settings, prefs, overrides) ==
  overrides.exit_node =>
    configured(settings, "ExitNode.AllowOverride", FALSE) /\ prefs["exit_node"] # ""

Shape ==
  /\ DOMAIN be = {"profile", "prefs", "override", "timer", "config_source"}
  /\ be.profile \in Profiles
  /\ DOMAIN be.override = {"always_on", "exit_node"}
  /\ Whole(be.prefs) /\ Earned(Settings, be.prefs, be.override)
  /\ DOMAIN stored = Profiles
  /\ \A p \in Profiles : stored[p] # None => Whole(stored[p])
  /\ DOMAIN engine = {"device", "state", "attempt"}
  /\ DOMAIN files = {"policy", "config"}
  /\ be.config_source => files.config \in ConfigFiles

(* The device obeys, and so will the one that a bring-up in flight builds. *)
Obedient ==
  /\ engine.device # None => Whole(engine.device) /\ Obeys(engine.device, Settings)
  /\ engine.attempt # None =>
       Whole(engine.attempt.config) /\ Obeys(engine.attempt.config, Settings)

(* While a bring-up that took the policy's key is in flight, neither the   *)
(* prefs nor their file records a login.                                   *)
Enrolling ==
  /\ engine.attempt # None /\ engine.attempt.key = "policy" /\ ~engine.attempt.needs_login
  => /\ ~be.prefs.has_logged_in
     /\ Whole(stored[be.profile]) /\ ~stored[be.profile].has_logged_in

PolicyInv == Shape /\ Obedient /\ Enrolling
-----------------------------------------------------------------------------
(* The policy and the prefs.                                               *)

LEMMA DefaultWhole == DOMAIN DefaultPrefs = Names /\ ~DefaultPrefs.has_logged_in
BY DEF DefaultPrefs, Names

(* What can be pinned is a setting: neither the intent nor the login.      *)
LEMMA PinsDomain ==
  ASSUME NEW settings
  PROVE  DOMAIN Pins(settings) \subseteq Names \ {"want_running", "logged_out", "has_logged_in"}
<1> DEFINE policies == StringPolicies @@ PREFERENCE_POLICIES
           strings == DOMAIN StringPolicies \intersect DOMAIN settings
           options == {k \in DOMAIN PREFERENCE_POLICIES \intersect DOMAIN settings :
                         settings[k] # "user-decides"}
           named == {policies[k] : k \in strings \union options}
<1>1. \A k \in DOMAIN StringPolicies : StringPolicies[k] \in {"control_url", "hostname"}
  BY DEF StringPolicies
<1>2. \A k \in DOMAIN PREFERENCE_POLICIES :
        PREFERENCE_POLICIES[k] \in
          {"shields_up", "exit_node_allow_lan_access", "accept_dns", "accept_routes",
           "auto_update_check", "auto_update_apply", "advertise_exit_node"}
  BY DEF PREFERENCE_POLICIES
<1>3. named \subseteq Names \ {"want_running", "logged_out", "has_logged_in", "exit_node"}
  BY <1>1, <1>2 DEF @@, Names
<1>4. DOMAIN Pins(settings) \subseteq named \union {"exit_node"}
  <2>1. DOMAIN (IF policy_exit_node_in(settings) = None THEN <<>>
                ELSE "exit_node" :> policy_exit_node_in(settings)) \subseteq {"exit_node"}
    BY DEF :>
  <2> QED
    BY <2>1 DEF Pins, @@
<1> QED
  BY <1>3, <1>4 DEF Names

(* A reconcile keeps the prefs whole and the login as it was, and leaves   *)
(* them obeying, unless an override lets another exit node stand.          *)
LEMMA ApplyObeys ==
  ASSUME NEW settings, NEW prefs, Whole(prefs), NEW overrides,
         Earned(settings, prefs, overrides)
  PROVE  LET new == apply_settings_to_prefs(settings, prefs, overrides)
         IN  /\ Whole(new) /\ new.has_logged_in = prefs.has_logged_in
             /\ Obeys(new, settings) /\ Earned(settings, new, overrides)
<1> DEFINE new == apply_settings_to_prefs(settings, prefs, overrides)
<1>1. DOMAIN new = DOMAIN prefs
  BY DEF apply_settings_to_prefs
<1>2. \A p \in DOMAIN prefs \ {"exit_node", "want_running"} :
        new[p] = IF p \in DOMAIN Pins(settings) THEN Pins(settings)[p] ELSE prefs[p]
  BY DEF apply_settings_to_prefs
<1>3. new["exit_node"] = IF overrides.exit_node \/ "exit_node" \notin DOMAIN Pins(settings)
                         THEN prefs["exit_node"] ELSE Pins(settings)["exit_node"]
  <2>1. "exit_node" \in DOMAIN prefs
    BY DEF Whole, Names
  <2> QED
    BY <2>1 DEF apply_settings_to_prefs
<1> HIDE DEF new
<1>4. Whole(new) /\ new.has_logged_in = prefs.has_logged_in
  BY <1>1, <1>2, PinsDomain DEF Whole, Names
<1>5. Obeys(new, settings)
  BY <1>2, <1>3, PinsDomain DEF Obeys, Whole, Earned
<1>6. Earned(settings, new, overrides)
  BY <1>3 DEF Earned
<1> QED
  BY <1>4, <1>5, <1>6 DEF new

(* An edit that earns the override names another exit node, where the      *)
(* policy allows one.                                                      *)
LEMMA EditEarns ==
  ASSUME NEW named, check_exit_node_edit(named) = "Override"
  PROVE  /\ "exit_node" \in DOMAIN named /\ named["exit_node"] # ""
         /\ configured(Settings, "ExitNode.AllowOverride", FALSE)
BY DEF check_exit_node_edit

LEMMA LaidOver ==
  ASSUME NEW named, NEW prefs, Whole(prefs)
  PROVE  /\ Whole(named @@ prefs)
         /\ \A p \in Names : (named @@ prefs)[p] = IF p \in DOMAIN named THEN named[p] ELSE prefs[p]
BY DEF @@, Whole

-----------------------------------------------------------------------------
(* The steps.  What does not restart the daemon keeps its policy.          *)

LEMMA NoOverridesShape ==
  DOMAIN NoOverrides = {"always_on", "exit_node"} /\ NoOverrides.exit_node = FALSE
BY DEF NoOverrides

(* A bring-up obeys; it takes the policy's key only where no login is on   *)
(* record or the control plane asked for one.                              *)
LEMMA BeginUpKeeps ==
  ASSUME PolicyInv, NEW named, "has_logged_in" \notin DOMAIN named, NEW reset \in BOOLEAN,
         NEW key, key = "policy" => auth_key_in(sources, auth_key_gate),
         check_exit_node_edit(named) # "refused",
         begin_up(named, reset, key), UNCHANGED <<files, sources>>
  PROVE  PolicyInv'
<1> DEFINE kept == IF reset THEN reset_up_managed_to_default(be.prefs) ELSE be.prefs
           laid == named @@ kept
           edited == [laid EXCEPT !.want_running = TRUE, !.logged_out = FALSE]
           overrides == [NoOverrides EXCEPT !.exit_node =
                           record_exit_node_edit(FALSE, check_exit_node_edit(named))]
           prefs == reconcile_sys_policy(edited, overrides)
           attempt == [config |-> prefs, key |-> key,
                       needs_login |-> engine.state = "NeedsLogin", boot |-> FALSE]
<1>1. /\ be' = [be EXCEPT !.prefs = prefs, !.override = overrides, !.timer = FALSE]
      /\ stored' = [stored EXCEPT ![be.profile] = prefs]
      /\ engine' = [StoppedEngine EXCEPT !.attempt = attempt]
      /\ sources' = sources /\ files' = files
  BY DEF begin_up
<1>2. Whole(kept) /\ kept.has_logged_in = be.prefs.has_logged_in
  BY DEF PolicyInv, Shape, Whole, Names, reset_up_managed_to_default
<1> HIDE DEF kept
<1>3. /\ Whole(laid) /\ laid.has_logged_in = be.prefs.has_logged_in
      /\ "exit_node" \in DOMAIN named => laid["exit_node"] = named["exit_node"]
  BY <1>2, LaidOver DEF Names
<1> HIDE DEF laid
<1>4. /\ Whole(edited) /\ edited.has_logged_in = be.prefs.has_logged_in
      /\ edited["exit_node"] = laid["exit_node"]
  BY <1>3 DEF Whole, Names
<1> HIDE DEF edited
<1>5. /\ DOMAIN overrides = {"always_on", "exit_node"}
      /\ overrides.exit_node <=> check_exit_node_edit(named) = "Override"
  <2> DEFINE earned == record_exit_node_edit(FALSE, check_exit_node_edit(named))
  <2>1. earned <=> check_exit_node_edit(named) = "Override"
    BY DEF record_exit_node_edit
  <2>2. overrides = [NoOverrides EXCEPT !.exit_node = earned]
    OBVIOUS
  <2> HIDE DEF earned, overrides
  <2>3. DOMAIN overrides = {"always_on", "exit_node"} /\ overrides.exit_node = earned
    BY <2>2, NoOverridesShape
  <2> QED
    BY <2>1, <2>3
<1>6. Earned(Settings, edited, overrides)
  <2> SUFFICES ASSUME check_exit_node_edit(named) = "Override"
               PROVE  /\ configured(Settings, "ExitNode.AllowOverride", FALSE)
                      /\ edited["exit_node"] # ""
    BY <1>5 DEF Earned
  <2>1. /\ "exit_node" \in DOMAIN named /\ named["exit_node"] # ""
        /\ configured(Settings, "ExitNode.AllowOverride", FALSE)
    BY EditEarns
  <2> QED
    BY <1>3, <1>4, <2>1
<1> HIDE DEF overrides
<1>7. /\ Whole(prefs) /\ prefs.has_logged_in = be.prefs.has_logged_in
      /\ Obeys(prefs, Settings) /\ Earned(Settings, prefs, overrides)
  BY <1>4, <1>6, ApplyObeys DEF reconcile_sys_policy
<1> HIDE DEF prefs
<1>8. /\ DOMAIN be' = DOMAIN be /\ be'.profile = be.profile /\ be'.prefs = prefs
      /\ be'.override = overrides /\ be'.config_source = be.config_source
  BY <1>1 DEF PolicyInv, Shape
<1>9. /\ DOMAIN engine' = {"device", "state", "attempt"} /\ engine'.device = None
      /\ engine'.attempt = attempt
  BY <1>1 DEF StoppedEngine
<1>10. /\ attempt.config = prefs /\ attempt.key = key
       /\ attempt.needs_login <=> engine.state = "NeedsLogin"
  OBVIOUS
<1> HIDE DEF attempt
<1>11. Shape'
  BY <1>1, <1>5, <1>7, <1>8, <1>9 DEF PolicyInv, Shape, Settings
<1>12. Obedient'
  BY <1>1, <1>7, <1>9, <1>10 DEF Obedient, Settings
<1>13. Enrolling'
  <2> SUFFICES ASSUME key = "policy", engine.state # "NeedsLogin"
               PROVE  /\ ~be'.prefs.has_logged_in
                      /\ Whole(stored'[be'.profile]) /\ ~stored'[be'.profile].has_logged_in
    BY <1>9, <1>10 DEF Enrolling
  <2>1. ~be.prefs.has_logged_in
    BY DEF auth_key_in, auth_key_gate
  <2>2. stored'[be'.profile] = prefs
    BY <1>1, <1>8 DEF PolicyInv, Shape
  <2> QED
    BY <1>7, <1>8, <2>1, <2>2
<1> QED
  BY <1>11, <1>12, <1>13 DEF PolicyInv

(* New prefs on the same engine, saved or not.                             *)
LEMMA PrefsChange ==
  ASSUME PolicyInv, NEW prefs, NEW overrides, NEW saved \in BOOLEAN,
         Whole(prefs), prefs.has_logged_in = be.prefs.has_logged_in,
         Earned(Settings, prefs, overrides), DOMAIN overrides = {"always_on", "exit_node"},
         DOMAIN be' = DOMAIN be, be'.profile = be.profile, be'.prefs = prefs,
         be'.override = overrides, be'.config_source = be.config_source,
         stored' = IF saved THEN [stored EXCEPT ![be.profile] = prefs] ELSE stored,
         engine'.attempt = engine.attempt, DOMAIN engine' = DOMAIN engine,
         engine'.device # None => Whole(engine'.device) /\ Obeys(engine'.device, Settings),
         sources' = sources, files' = files
  PROVE  PolicyInv'
<1>2. Settings' = Settings
  BY DEF Settings
<1>3. /\ DOMAIN stored' = Profiles
      /\ \A p \in Profiles : stored'[p] # None => Whole(stored'[p])
      /\ stored'[be.profile] = IF saved THEN prefs ELSE stored[be.profile]
  BY DEF PolicyInv, Shape
<1>4. Shape'
  BY <1>2, <1>3 DEF PolicyInv, Shape
<1>5. Obedient'
  BY <1>2 DEF PolicyInv, Obedient
<1>6. Enrolling'
  BY <1>3 DEF PolicyInv, Enrolling
<1> QED
  BY <1>4, <1>5, <1>6 DEF PolicyInv

LEMMA SetKeeps ==
  ASSUME PolicyInv, NEW named \in Edits, Set(named)
  PROVE  PolicyInv'
<1> DEFINE edit == check_exit_node_edit(named)
           stands == record_exit_node_edit(be.override.exit_node, edit)
           overrides == [be.override EXCEPT !.exit_node = stands]
           laid == named @@ be.prefs
           prefs == reconcile_sys_policy(laid, overrides)
<1>1. /\ be' = [be EXCEPT !.prefs = prefs, !.override = overrides]
      /\ stored' = [stored EXCEPT ![be.profile] = prefs]
      /\ files' = files /\ sources' = sources
  BY DEF Set
<1>2. PICK applied :
        engine' = IF applied = {} THEN engine
                  ELSE [engine EXCEPT !.device = [p \in applied |-> prefs[p]] @@ engine.device]
  BY DEF Set
<1>3. engine.device = None => engine' = engine
  BY DEF Set
<1>4. /\ Whole(laid) /\ laid.has_logged_in = be.prefs.has_logged_in
      /\ laid["exit_node"] = IF "exit_node" \in DOMAIN named THEN named["exit_node"]
                             ELSE be.prefs["exit_node"]
  BY LaidOver, PolicyAssumption DEF PolicyInv, Shape, Names
<1> HIDE DEF laid
<1>5. /\ stands <=> edit = "Override" \/ (edit = "Untouched" /\ be.override.exit_node)
      /\ edit = "Untouched" => "exit_node" \notin DOMAIN named
  BY DEF record_exit_node_edit, check_exit_node_edit
<1> HIDE DEF stands
<1>6. DOMAIN overrides = {"always_on", "exit_node"} /\ overrides.exit_node = stands
  BY DEF PolicyInv, Shape
<1> HIDE DEF overrides
<1>7. Earned(Settings, laid, overrides)
  <2>1. CASE edit = "Override"
    <3>1. /\ "exit_node" \in DOMAIN named /\ named["exit_node"] # ""
          /\ configured(Settings, "ExitNode.AllowOverride", FALSE)
      BY <2>1, EditEarns
    <3> QED
      BY <1>4, <3>1 DEF Earned
  <2>2. CASE edit = "Untouched" /\ be.override.exit_node
    <3>1. Earned(Settings, be.prefs, be.override)
      BY DEF PolicyInv, Shape
    <3> QED
      BY <1>4, <1>5, <2>2, <3>1 DEF Earned
  <2>3. CASE ~stands
    BY <1>6, <2>3 DEF Earned
  <2> QED
    BY <1>5, <2>1, <2>2, <2>3
<1> HIDE DEF edit
<1>8. /\ Whole(prefs) /\ prefs.has_logged_in = be.prefs.has_logged_in
      /\ Obeys(prefs, Settings) /\ Earned(Settings, prefs, overrides)
  BY <1>4, <1>7, ApplyObeys DEF reconcile_sys_policy
<1> HIDE DEF prefs
<1>9. DOMAIN engine' = DOMAIN engine /\ engine'.attempt = engine.attempt
  BY <1>2 DEF PolicyInv, Shape
<1>10. ASSUME engine'.device # None
       PROVE  Whole(engine'.device) /\ Obeys(engine'.device, Settings)
  <2>1. /\ engine.device # None /\ Whole(engine.device) /\ Obeys(engine.device, Settings)
        /\ "device" \in DOMAIN engine
    BY <1>3, <1>10 DEF PolicyInv, Obedient, Shape
  <2>2. CASE engine' = engine
    BY <2>1, <2>2
  <2>3. CASE engine' = [engine EXCEPT !.device = [p \in applied |-> prefs[p]] @@ engine.device]
    <3> DEFINE new == [p \in applied |-> prefs[p]] @@ engine.device
    <3>1. engine'.device = new
      BY <2>1, <2>3
    <3>2. /\ Whole(new)
          /\ \A p \in Names : new[p] = IF p \in applied THEN prefs[p] ELSE engine.device[p]
      BY <2>1 DEF @@, Whole
    <3> HIDE DEF new
    <3>3. Obeys(new, Settings)
      BY <1>8, <2>1, <3>2, PinsDomain DEF Obeys
    <3> QED
      BY <3>1, <3>2, <3>3
  <2> QED
    BY <1>2, <2>2, <2>3
<1>11. /\ DOMAIN be' = DOMAIN be /\ be'.profile = be.profile /\ be'.prefs = prefs
       /\ be'.override = overrides /\ be'.config_source = be.config_source
  BY <1>1 DEF PolicyInv, Shape
<1> QED
  BY <1>1, <1>6, <1>8, <1>9, <1>10, <1>11, PrefsChange

(* A reload lays a valid config over the prefs: it cannot take the exit    *)
(* node from an override that stands.                                      *)
LEMMA ConfigLaid ==
  ASSUME PolicyInv, be.config_source, ConfigIsValid(files.config)
  PROVE  LET laid == apply_to_prefs(files.config, be.prefs)
         IN  /\ Whole(laid) /\ laid.has_logged_in = be.prefs.has_logged_in
             /\ Earned(Settings, laid, be.override)
<1> DEFINE config == files.config
           named == "want_running" :> config.enabled @@ config.prefs
           laid == named @@ be.prefs
<1>1. /\ Whole(be.prefs) /\ Earned(Settings, be.prefs, be.override)
      /\ config \in ConfigFiles
  BY DEF PolicyInv, Shape
<1>2. "has_logged_in" \notin DOMAIN config.prefs
  BY <1>1, PolicyAssumption
<1>3. /\ "exit_node" \in DOMAIN config.prefs => config.prefs["exit_node"] # ""
  BY DEF ConfigIsValid
<1> HIDE DEF config
<1>4. /\ DOMAIN named = {"want_running"} \union DOMAIN config.prefs
      /\ "exit_node" \in DOMAIN config.prefs => named["exit_node"] = config.prefs["exit_node"]
  BY DEF @@, :>
<1> HIDE DEF named
<1>5. /\ Whole(laid) /\ laid.has_logged_in = be.prefs.has_logged_in
      /\ laid["exit_node"] = IF "exit_node" \in DOMAIN named THEN named["exit_node"]
                             ELSE be.prefs["exit_node"]
  BY <1>1, <1>2, <1>4, LaidOver DEF Names
<1>6. laid = apply_to_prefs(files.config, be.prefs)
  BY DEF apply_to_prefs, named, config
<1> HIDE DEF laid
<1>7. Earned(Settings, laid, be.override)
  BY <1>1, <1>3, <1>4, <1>5 DEF Earned
<1> QED
  BY <1>5, <1>6, <1>7

LEMMA ReloadKeeps ==
  ASSUME PolicyInv, ReloadConfig
  PROVE  PolicyInv'
<1>1. files' = files /\ sources' = sources /\ be.config_source
  BY DEF ReloadConfig
<1>2. CASE reload_config_refused
  BY <1>1, <1>2 DEF reload_config_refused, PolicyInv, Shape, Obedient, Enrolling, Settings
<1> DEFINE laid == apply_to_prefs(files.config, be.prefs)
<1>3. CASE reload_config_no_key
  <2>1. /\ be' = [be EXCEPT !.prefs = laid] /\ stored' = stored /\ engine' = engine
        /\ ConfigIsValid(files.config)
    BY <1>3 DEF reload_config_no_key
  <2>2. /\ Whole(laid) /\ laid.has_logged_in = be.prefs.has_logged_in
        /\ Earned(Settings, laid, be.override)
    BY <1>1, <2>1, ConfigLaid
  <2> HIDE DEF laid
  <2>3. /\ DOMAIN be' = DOMAIN be /\ be'.profile = be.profile /\ be'.prefs = laid
        /\ be'.override = be.override /\ be'.config_source = be.config_source
        /\ DOMAIN be.override = {"always_on", "exit_node"}
    BY <2>1 DEF PolicyInv, Shape
  <2>4. engine'.device # None => Whole(engine'.device) /\ Obeys(engine'.device, Settings)
    BY <2>1 DEF PolicyInv, Obedient
  <2> QED
    BY <1>1, <2>1, <2>2, <2>3, <2>4, PrefsChange
<1>4. CASE reload_config_applies
  <2> DEFINE prefs == reconcile_sys_policy(laid, be.override)
  <2>1. /\ be' = [be EXCEPT !.prefs = prefs] /\ engine' = engine
        /\ stored' = [stored EXCEPT ![be.profile] = prefs]
        /\ ConfigIsValid(files.config)
    BY <1>4 DEF reload_config_applies
  <2>2. /\ Whole(laid) /\ laid.has_logged_in = be.prefs.has_logged_in
        /\ Earned(Settings, laid, be.override)
    BY <1>1, <2>1, ConfigLaid
  <2> HIDE DEF laid
  <2>3. /\ Whole(prefs) /\ prefs.has_logged_in = be.prefs.has_logged_in
        /\ Earned(Settings, prefs, be.override)
    BY <2>2, ApplyObeys DEF reconcile_sys_policy
  <2> HIDE DEF prefs
  <2>4. /\ DOMAIN be' = DOMAIN be /\ be'.profile = be.profile /\ be'.prefs = prefs
        /\ be'.override = be.override /\ be'.config_source = be.config_source
        /\ DOMAIN be.override = {"always_on", "exit_node"}
    BY <2>1 DEF PolicyInv, Shape
  <2>5. engine'.device # None => Whole(engine'.device) /\ Obeys(engine'.device, Settings)
    BY <2>1 DEF PolicyInv, Obedient
  <2> QED
    BY <1>1, <2>1, <2>3, <2>4, <2>5, PrefsChange
<1> QED
  BY <1>2, <1>3, <1>4 DEF ReloadConfig

(* down, logout and the end of a reload: the engine stops.                 *)
LEMMA DisconnectsKeep ==
  ASSUME PolicyInv, NEW change, Disconnects(change), UNCHANGED <<files, sources>>
  PROVE  PolicyInv'
<1> DEFINE prefs == change @@ be.prefs
           overrides == [always_on |-> be.override.always_on \/ be.prefs.want_running,
                         exit_node |-> FALSE]
<1>1. /\ DOMAIN be' = DOMAIN be /\ be'.profile = be.profile /\ be'.prefs = prefs
      /\ be'.override = overrides /\ be'.config_source = be.config_source
  BY DEF Disconnects, PolicyInv, Shape
<1>2. /\ DOMAIN overrides = {"always_on", "exit_node"} /\ overrides.exit_node = FALSE
  OBVIOUS
<1> HIDE DEF overrides
<1>3. Whole(prefs)
  BY LaidOver DEF PolicyInv, Shape
<1>4. stored' = [stored EXCEPT ![be.profile] = prefs] /\ engine' = StoppedEngine
  BY DEF Disconnects
<1> HIDE DEF prefs
<1>5. /\ DOMAIN engine' = {"device", "state", "attempt"} /\ engine'.device = None
      /\ engine'.attempt = None
  BY <1>4 DEF StoppedEngine
<1>6. Earned(Settings, prefs, overrides)
  BY <1>2 DEF Earned
<1>7. Shape'
  BY <1>1, <1>2, <1>3, <1>4, <1>5, <1>6 DEF PolicyInv, Shape, Settings
<1> QED
  BY <1>5, <1>7 DEF PolicyInv, Obedient, Enrolling

LEMMA SwitchKeeps ==
  ASSUME PolicyInv, NEW target \in Profiles, Switch(target)
  PROVE  PolicyInv'
<1> DEFINE file == IF stored[target] = None THEN DefaultPrefs ELSE stored[target]
           prefs == reconcile_sys_policy(file, NoOverrides)
<1>1. Whole(file)
  BY DefaultWhole DEF PolicyInv, Shape, Whole
<1>2. /\ be' = [be EXCEPT !.profile = target, !.prefs = prefs, !.override = NoOverrides,
                          !.timer = FALSE]
      /\ engine' = StoppedEngine /\ files' = files /\ stored' = stored /\ sources' = sources
  BY DEF Switch
<1> HIDE DEF file
<1>3. Earned(Settings, file, NoOverrides)
  BY NoOverridesShape DEF Earned
<1>4. Whole(prefs) /\ Earned(Settings, prefs, NoOverrides)
  BY <1>1, <1>3, ApplyObeys DEF reconcile_sys_policy
<1> HIDE DEF prefs
<1>5. /\ DOMAIN be' = DOMAIN be /\ be'.profile = target /\ be'.prefs = prefs
      /\ be'.override = NoOverrides /\ be'.config_source = be.config_source
  BY <1>2 DEF PolicyInv, Shape
<1>6. /\ DOMAIN engine' = {"device", "state", "attempt"} /\ engine'.device = None
      /\ engine'.attempt = None
  BY <1>2 DEF StoppedEngine
<1>7. Shape'
  BY <1>2, <1>4, <1>5, <1>6, NoOverridesShape DEF PolicyInv, Shape, Settings
<1> QED
  BY <1>6, <1>7 DEF PolicyInv, Obedient, Enrolling

LEMMA FinishUpKeeps ==
  ASSUME PolicyInv, FinishUp
  PROVE  PolicyInv'
<1>1. files' = files /\ sources' = sources /\ engine.attempt # None
  BY DEF FinishUp
<1>2. CASE /\ be' = [be EXCEPT !.prefs.has_logged_in = TRUE]
           /\ stored' = [stored EXCEPT ![be.profile] = be'.prefs]
           /\ engine' = [device |-> engine.attempt.config, state |-> "Running", attempt |-> None]
  <2>1. /\ DOMAIN be' = DOMAIN be /\ be'.profile = be.profile
        /\ be'.prefs = [be.prefs EXCEPT !.has_logged_in = TRUE]
        /\ be'.override = be.override /\ be'.config_source = be.config_source
    BY <1>2 DEF PolicyInv, Shape
  <2>2. Whole(be'.prefs) /\ be'.prefs["exit_node"] = be.prefs["exit_node"]
    BY <2>1 DEF PolicyInv, Shape, Whole, Names
  <2>3. Earned(Settings, be'.prefs, be'.override)
    BY <2>1, <2>2 DEF PolicyInv, Shape, Earned
  <2>4. /\ DOMAIN engine' = {"device", "state", "attempt"} /\ engine'.attempt = None
        /\ engine'.device = engine.attempt.config
    BY <1>2
  <2>5. Shape'
    BY <1>1, <1>2, <2>1, <2>2, <2>3, <2>4 DEF PolicyInv, Shape, Settings
  <2>6. Obedient' /\ Enrolling'
    BY <1>1, <2>4 DEF PolicyInv, Obedient, Enrolling, Settings
  <2> QED
    BY <2>5, <2>6 DEF PolicyInv
<1>3. CASE engine' = [engine EXCEPT !.attempt = None] /\ UNCHANGED <<be, stored>>
  <2>1. /\ DOMAIN engine' = DOMAIN engine /\ engine'.device = engine.device
        /\ engine'.attempt = None
    BY <1>3 DEF PolicyInv, Shape
  <2> QED
    BY <1>1, <1>3, <2>1 DEF PolicyInv, Shape, Obedient, Enrolling, Settings
<1> QED
  BY <1>2, <1>3 DEF FinishUp

LEMMA KeyExpiresKeeps ==
  ASSUME PolicyInv, KeyExpires
  PROVE  PolicyInv'
<1>1. /\ DOMAIN engine' = DOMAIN engine /\ engine'.device = engine.device
      /\ engine'.attempt = engine.attempt
  BY DEF KeyExpires, PolicyInv, Shape
<1> QED
  BY <1>1 DEF KeyExpires, PolicyInv, Shape, Obedient, Enrolling, Settings

LEMMA EditConfigKeeps ==
  ASSUME PolicyInv, EditConfig
  PROVE  PolicyInv'
<1>1. DOMAIN files' = DOMAIN files /\ files'.config \in ConfigFiles
  BY DEF EditConfig, PolicyInv, Shape
<1> QED
  BY <1>1 DEF EditConfig, PolicyInv, Shape, Obedient, Enrolling, Settings

(* A start: the stored prefs meet the policy file as it is now.            *)
LEMMA BootKeeps ==
  ASSUME PolicyInv, Boot
  PROVE  PolicyInv'
<1>1. PICK policy \in PolicyFiles \union {None}, config \in ConfigFiles \union {None} :
        Starts(policy, config, stored[be.profile], be.profile)
  BY DEF Boot
<1> DEFINE srcs == load_json_policy_file(policy)
           settings == registered_store_settings(srcs)
           file == IF stored[be.profile] = None THEN DefaultPrefs ELSE stored[be.profile]
           loaded == apply_settings_to_prefs(settings, file, NoOverrides)
           laid == apply_to_prefs(config, loaded)
           merged == IF config = None THEN loaded
                     ELSE apply_settings_to_prefs(settings, laid, NoOverrides)
           wanted == merged.want_running /\ ~merged.logged_out
           gate == [running |-> FALSE, needs_login |-> FALSE, enrolled |-> merged.has_logged_in,
                    config_in_use |-> config # None]
           key == IF auth_key_in(srcs, gate) THEN "policy" ELSE "none"
           attempt == [config |-> merged, key |-> key, needs_login |-> FALSE, boot |-> TRUE]
<1>2. /\ files' = [policy |-> policy, config |-> config]
      /\ sources' = srcs
      /\ be' = [profile |-> be.profile, prefs |-> merged, override |-> NoOverrides,
                timer |-> FALSE, config_source |-> config # None]
      /\ engine' = IF wanted THEN [StoppedEngine EXCEPT !.attempt = attempt] ELSE StoppedEngine
      /\ stored' = IF config # None \/ wanted THEN [stored EXCEPT ![be.profile] = merged]
                   ELSE stored
  BY <1>1 DEF Starts
<1>3. Whole(file)
  BY DefaultWhole DEF PolicyInv, Shape, Whole
<1>4. Settings' = settings
  BY <1>2 DEF Settings
<1> HIDE DEF file, settings
<1>5. \A prefs : Earned(settings, prefs, NoOverrides)
  BY NoOverridesShape DEF Earned
<1>6. Whole(loaded) /\ Obeys(loaded, settings)
  BY <1>3, <1>5, ApplyObeys
<1> HIDE DEF loaded
<1>7. Whole(laid)
  BY <1>6, LaidOver DEF apply_to_prefs
<1> HIDE DEF laid
<1>8. Whole(merged) /\ Obeys(merged, settings)
  BY <1>5, <1>6, <1>7, ApplyObeys
<1>9. key = "policy" => ~merged.has_logged_in
  BY DEF auth_key_in
<1> HIDE DEF merged, wanted, key
<1>10. /\ DOMAIN engine' = {"device", "state", "attempt"} /\ engine'.device = None
       /\ engine'.attempt # None => wanted /\ engine'.attempt = attempt
  BY <1>2 DEF StoppedEngine
<1>11. attempt.config = merged /\ attempt.key = key
  OBVIOUS
<1> HIDE DEF attempt
<1>12. /\ DOMAIN be' = {"profile", "prefs", "override", "timer", "config_source"}
       /\ be'.profile = be.profile /\ be'.prefs = merged /\ be'.override = NoOverrides
       /\ be'.config_source = (config # None)
  BY <1>2
<1>13. /\ DOMAIN files' = {"policy", "config"} /\ files'.config = config
  BY <1>2
<1>14. /\ DOMAIN stored' = Profiles
       /\ \A p \in Profiles : stored'[p] # None => Whole(stored'[p])
       /\ wanted => stored'[be.profile] = merged
  BY <1>2, <1>8 DEF PolicyInv, Shape
<1>15. Shape'
  BY <1>4, <1>5, <1>8, <1>10, <1>12, <1>13, <1>14, NoOverridesShape DEF PolicyInv, Shape
<1>16. Obedient'
  BY <1>4, <1>8, <1>10, <1>11 DEF Obedient
<1>17. Enrolling'
  BY <1>8, <1>9, <1>10, <1>11, <1>12, <1>14 DEF Enrolling
<1> QED
  BY <1>15, <1>16, <1>17 DEF PolicyInv

LEMMA InitKeeps == Init => PolicyInv
<1> SUFFICES ASSUME Init PROVE PolicyInv
  OBVIOUS
<1>1. /\ DOMAIN be = {"profile", "prefs", "override", "timer", "config_source"}
      /\ be.profile \in Profiles /\ be.prefs = DefaultPrefs /\ be.override = NoOverrides
      /\ be.config_source = FALSE
  BY PolicyAssumption DEF Init
<1>2. /\ DOMAIN engine = {"device", "state", "attempt"} /\ engine.device = None
      /\ engine.attempt = None
  BY DEF Init, StoppedEngine
<1>3. /\ DOMAIN stored = Profiles /\ \A p \in Profiles : stored[p] = None
      /\ DOMAIN files = {"policy", "config"}
  BY DEF Init
<1>4. Whole(be.prefs) /\ Earned(Settings, be.prefs, be.override)
  BY <1>1, DefaultWhole, NoOverridesShape DEF Whole, Earned
<1> QED
  BY <1>1, <1>2, <1>3, <1>4, NoOverridesShape DEF PolicyInv, Shape, Obedient, Enrolling

LEMMA NextKeeps ==
  ASSUME PolicyInv, [Next]_vars
  PROVE  PolicyInv'
<1>1. ASSUME NEW named \in Edits, NEW reset \in BOOLEAN, NEW given \in {"none", "operator"},
             Up(named, reset, given)
      PROVE  PolicyInv'
  <2> DEFINE key == policy_auth_key(given)
  <2>1. /\ begin_up(named, reset, key) /\ check_exit_node_edit(named) # "refused"
        /\ UNCHANGED <<files, sources>> /\ "has_logged_in" \notin DOMAIN named
    BY <1>1, PolicyAssumption DEF Up
  <2>2. key = "policy" => auth_key_in(sources, auth_key_gate)
    BY DEF policy_auth_key
  <2> HIDE DEF key
  <2> QED
    BY <2>1, <2>2, BeginUpKeeps
<1>2. ASSUME begin_up(<<>>, FALSE, "none") \/ begin_up(<<>>, FALSE, policy_auth_key("none")),
             UNCHANGED <<files, sources>>
      PROVE  PolicyInv'
  <2>1. DOMAIN <<>> = {}
    OBVIOUS
  <2>2. /\ "has_logged_in" \notin DOMAIN <<>>
        /\ check_exit_node_edit(<<>>) # "refused"
    BY <2>1 DEF check_exit_node_edit
  <2>3. policy_auth_key("none") = "policy" => auth_key_in(sources, auth_key_gate)
    BY DEF policy_auth_key
  <2> QED
    BY <1>2, <2>2, <2>3, BeginUpKeeps
<1>3. CASE \E task \in tasks : Rebuild(task)
  BY <1>2, <1>3 DEF Rebuild
<1>4. CASE Reconnect
  BY <1>2, <1>4 DEF Reconnect
<1>5. CASE BringDown \/ \E reason \in {"", "reason"} : Down(reason) \/ Logout(reason)
  BY <1>5, DisconnectsKeep DEF BringDown, Down, Logout
<1>6. CASE UNCHANGED vars
  BY <1>6 DEF vars, PolicyInv, Shape, Obedient, Enrolling, Settings
<1> QED
  BY <1>1, <1>3, <1>4, <1>5, <1>6, BootKeeps, SetKeeps, FinishUpKeeps, KeyExpiresKeeps,
     SwitchKeeps, ReloadKeeps, EditConfigKeeps DEF Next

LEMMA Inductive == Spec => []PolicyInv
BY InitKeeps, NextKeeps, PTL DEF Spec
-----------------------------------------------------------------------------
(* Whatever is edited, reloaded, switched, reconnected or restarted, with  *)
(* whatever policy and config files, the device runs with every pref the   *)
(* registered policy pins; where the policy allows another exit node it    *)
(* still egresses by one (reconcile_sys_policy, check_exit_node_edit).     *)
THEOREM NoPathEscapes == Spec => []PolicyOnDevice
<1>1. PolicyInv => PolicyOnDevice
  BY DEF PolicyInv, Obedient, Obeys, PolicyOnDevice
<1> QED
  BY <1>1, Inductive, PTL

(* A bring-up takes the policy's key only where prefs.json records no      *)
(* login or the control plane asked for one, through every interleaving of *)
(* edits, reloads and restarts with it (auth_key_gate, auth_key_in).       *)
(* The hypothesis says that an absent file is no set of prefs.             *)
THEOREM PolicyKeyNeverEnrolsAgain ==
  ASSUME ~Whole(None)
  PROVE  Spec => []PolicyKeyEnrolsOnly
<1>1. PolicyInv => PolicyKeyEnrolsOnly
  BY DEF PolicyInv, Enrolling, PolicyKeyEnrolsOnly
<1> QED
  BY <1>1, Inductive, PTL
=============================================================================
