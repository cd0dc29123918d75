--------------------------- MODULE DriversProofs ---------------------------
(***************************************************************************)
(* Proofs about the Backend and the tasks that drive it, for any number of *)
(* connections, profiles, settings, commands and faults.                   *)
(*                                                                         *)
(* First the Backend methods.  Their types: each maps a well-typed backend *)
(* and a well-typed state directory to a well-typed one.  Their effects:   *)
(* what each does to the fields the invariants of Drivers relate.  And the *)
(* agreement of the backend with the state directory it persists to: every *)
(* method is a function of the pair, so each agreement is a predicate on   *)
(* pairs that the methods keep.  Then the drivers.                         *)
(***************************************************************************)
EXTENDS Drivers, TLAPS

Opts == [config : Settings, force_reauth : BOOLEAN]

LEMMA BumpType ==
  ASSUME NEW b \in BackendState
  PROVE  bump_generation(b) \in BackendState
BY DEF bump_generation, BackendState

LEMMA StopType ==
  ASSUME NEW b \in BackendState
  PROVE  stop_device(b) \in BackendState
BY DEF stop_device, BackendState

LEMMA ResetType ==
  ASSUME NEW b \in BackendState
  PROVE  reset_always_on_override(b) \in BackendState
BY DEF reset_always_on_override, BackendState

LEMMA ReconcileType ==
  ASSUME NEW b \in BackendState
  PROVE  reconcile_sys_policy(b) \in BackendState
BY BackendAssumption DEF reconcile_sys_policy, BackendState, Prefs

LEMMA TimerType ==
  ASSUME NEW b \in BackendState
  PROVE  start_reconnect_timer(b) \in BackendState
<1> DEFINE next == b.reconnect_seq + 1
           timer == [seq |-> next, profile |-> b.current_profile]
<1>1. next \in Nat /\ b.current_profile \in Profiles
  BY DEF BackendState
<1>2. timer \in ReconnectTimer
  BY <1>1 DEF ReconnectTimer
<1>3. [b EXCEPT !.reconnect_seq = next, !.reconnect = timer] \in BackendState
  <2> HIDE DEF next, timer
  <2> QED
    BY <1>1, <1>2 DEF BackendState
<1>4. QED
  BY <1>3 DEF start_reconnect_timer

LEMMA PermittedType ==
  ASSUME NEW b \in BackendState
  PROVE  on_permitted_disconnect(b) \in BackendState
<1> DEFINE exempt == [b EXCEPT !.override_always_on = TRUE]
<1>1. exempt \in BackendState
  BY DEF BackendState
<1>2. QED
  BY <1>1, TimerType DEF on_permitted_disconnect

LEMMA PersistType ==
  ASSUME NEW b \in BackendState, NEW d \in Disk, NEW stop
  PROVE  persist_prefs(b, d, stop) \in Disk
BY DEF persist_prefs, BackendState, Disk

LEMMA KeyFileType ==
  ASSUME NEW b \in BackendState, NEW d \in Disk, NEW fresh \in Nat
  PROVE  load_key_file(b, d, fresh) \in Disk /\ remove_key_file(b, d) \in Disk
BY DEF load_key_file, remove_key_file, BackendState, Disk

LEMMA DefaultPrefsType == DefaultPrefs \in Prefs
BY BackendAssumption DEF DefaultPrefs, Prefs, Settings

LEMMA LoadPrefsType ==
  ASSUME NEW d \in Disk, NEW p \in Profiles
  PROVE  load_prefs(d, p) \in Prefs
BY DefaultPrefsType DEF load_prefs, Disk

LEMMA LoadType ==
  ASSUME NEW d \in Disk
  PROVE  load(d) \in BackendState
<1>1. d.current \in Profiles
  BY DEF Disk
<1>2. load_prefs(d, d.current) \in Prefs
  BY <1>1, LoadPrefsType
<1>3. QED
  BY <1>1, <1>2, ReconcileType DEF load, BackendState

LEMMA BeginUpPrefsType ==
  ASSUME NEW b \in BackendState, NEW opts \in Opts
  PROVE  begin_up_prefs(b, opts) \in BackendState
BY DEF begin_up_prefs, BackendState, Prefs, Opts

LEMMA BeginUpType ==
  ASSUME NEW b \in BackendState, NEW opts \in Opts, NEW stop, NEW ok \in BOOLEAN
  PROVE  begin_up(b, opts, stop, ok) \in BackendState
<1> DEFINE halted  == stop_device(b)
           rekeyed == [halted EXCEPT !.has_node_key = @ /\ ~opts.force_reauth]
           applied == reconcile_sys_policy(reset_always_on_override(begin_up_prefs(rekeyed, opts)))
<1>1. halted \in BackendState
  BY StopType
<1>2. rekeyed \in BackendState
  BY <1>1 DEF BackendState, Opts
<1>3. applied \in BackendState
  BY <1>2, BeginUpPrefsType, ResetType, ReconcileType
<1>4. [applied EXCEPT !.has_node_key = TRUE] \in BackendState
  BY <1>3 DEF BackendState
<1>5. bump_generation([applied EXCEPT !.has_node_key = TRUE]) \in BackendState
  BY <1>4, BumpType
<1>6. QED
  BY <1>1, <1>3, <1>5 DEF begin_up

LEMMA FinishUpType ==
  ASSUME NEW b \in BackendState, NEW p \in PendingUp \cup {None}, NEW built \in BOOLEAN
  PROVE  finish_up(b, p, built) \in BackendState
<1> DEFINE up == [b EXCEPT !.device = p, !.prefs.has_logged_in = TRUE]
<1>1. up \in BackendState
  BY DEF BackendState, Prefs
<1>2. QED
  BY <1>1, BumpType DEF finish_up

LEMMA BeginUpDiskType ==
  ASSUME NEW b \in BackendState, NEW d \in Disk, NEW opts \in Opts, NEW stop, NEW fresh \in Nat
  PROVE  begin_up_disk(b, d, opts, stop, fresh) \in Disk
<1> DEFINE after == begin_up(b, opts, stop, FALSE)
           wiped == IF opts.force_reauth THEN remove_key_file(b, d) ELSE d
           saved == persist_prefs(after, wiped, stop)
<1>1. after \in BackendState
  BY BeginUpType
<1>2. wiped \in Disk
  BY KeyFileType
<1>3. saved \in Disk
  BY <1>1, <1>2, PersistType
<1>4. load_key_file(after, saved, fresh) \in Disk
  BY <1>1, <1>3, KeyFileType
<1>5. QED
  BY <1>3, <1>4 DEF begin_up_disk

LEMMA PendingType ==
  ASSUME NEW b \in BackendState, NEW d \in Disk
  PROVE  pending_up(b, d) \in PendingUp
BY DEF pending_up, PendingUp, BackendState, Disk, Prefs

LEMMA BeginSetPrefsType ==
  ASSUME NEW b \in BackendState, NEW config \in Settings
  PROVE  begin_set_prefs(b, config) \in BackendState
<1>1. [b EXCEPT !.prefs.config = config, !.ever_configured = TRUE] \in BackendState
  BY DEF BackendState, Prefs
<1>2. QED
  BY <1>1, ReconcileType DEF begin_set_prefs

LEMMA BeginSetType ==
  ASSUME NEW b \in BackendState, NEW config \in Settings, NEW live \in BOOLEAN
  PROVE  begin_set(b, config, live) \in BackendState
<1> DEFINE set == begin_set_prefs(b, config)
<1>1. set \in BackendState /\ set.device = b.device
  BY BeginSetPrefsType DEF begin_set_prefs, reconcile_sys_policy, BackendState
<1>2. CASE live /\ b.device # None
  <2>1. set.device \in PendingUp
    BY <1>1, <1>2 DEF BackendState
  <2>2. config.live \in LiveValues
    BY DEF Settings
  <2>3. [set.device EXCEPT !.config.live = config.live] \in PendingUp
    BY <2>1, <2>2 DEF PendingUp, Settings
  <2>4. [set EXCEPT !.device.config.live = config.live] \in BackendState
    <3> HIDE DEF set
    <3> QED
      BY <1>1, <2>3 DEF BackendState
  <2>5. QED
    BY <1>2, <2>4 DEF begin_set
<1>3. CASE ~(live /\ b.device # None)
  BY <1>1, <1>3 DEF begin_set
<1>4. QED
  BY <1>2, <1>3

LEMMA ApplyConfigType ==
  ASSUME NEW b \in BackendState, NEW enabled \in BOOLEAN, NEW config \in Settings
  PROVE  apply_config(b, enabled, config) \in BackendState
<1>1. [b EXCEPT !.prefs.want_running = enabled, !.prefs.config = config,
                !.ever_configured = TRUE] \in BackendState
  BY DEF BackendState, Prefs
<1>2. QED
  BY <1>1, ReconcileType DEF apply_config

LEMMA DownType ==
  ASSUME NEW b \in BackendState
  PROVE  down(b) \in BackendState
<1> DEFINE stopped == bump_generation(stop_device(b))
           off == [stopped EXCEPT !.prefs.want_running = FALSE, !.ever_configured = TRUE]
<1>1. stopped \in BackendState
  BY StopType, BumpType
<1>2. off \in BackendState
  BY <1>1 DEF BackendState, Prefs
<1>3. QED
  BY <1>2, PermittedType DEF down

LEMMA LogoutType ==
  ASSUME NEW b \in BackendState, NEW stop
  PROVE  logout(b, stop) \in BackendState
<1> DEFINE off == bump_generation(stop_device(b))
           out == [off EXCEPT !.has_node_key = FALSE, !.prefs.want_running = FALSE,
                              !.prefs.logged_out = TRUE, !.prefs.has_logged_in = FALSE,
                              !.ever_configured = TRUE]
<1>1. off \in BackendState
  BY StopType, BumpType
<1>2. out \in BackendState
  BY <1>1 DEF BackendState, Prefs
<1>3. QED
  BY <1>1, <1>2, PermittedType DEF logout

LEMMA LogoutDiskType ==
  ASSUME NEW b \in BackendState, NEW d \in Disk, NEW stop
  PROVE  logout_disk(b, d, stop) \in Disk
BY LogoutType, KeyFileType, PersistType DEF logout_disk

LEMMA ActivateType ==
  ASSUME NEW b \in BackendState, NEW d \in Disk, NEW target \in Profiles, NEW stop
  PROVE  activate_profile(b, d, target, stop) \in BackendState
<1> DEFINE off == bump_generation(stop_device(b))
           prefs == load_prefs(d, target)
<1>1. off \in BackendState /\ prefs \in Prefs
  BY StopType, BumpType, LoadPrefsType
<1>2. adopt_profile(off, d, target) \in BackendState
  <2> HIDE DEF off
  <2> QED
    BY <1>1 DEF adopt_profile, BackendState
<1>3. QED
  BY <1>1, <1>2, ResetType, ReconcileType DEF activate_profile

LEMMA ActivateDiskType ==
  ASSUME NEW d \in Disk, NEW target \in Profiles, NEW register \in BOOLEAN, NEW stop
  PROVE  activate_profile_disk(d, target, register, stop) \in Disk
BY DEF activate_profile_disk, Disk

LEMMA RemoveFilesType ==
  ASSUME NEW d \in Disk, NEW p \in Profiles
  PROVE  remove_profile_files(d, p) \in Disk
BY DEF remove_profile_files, Disk

LEMMA ResetToEmptyType ==
  ASSUME NEW b \in BackendState, NEW stop
  PROVE  reset_to_empty_profile(b, stop) \in BackendState
<1> DEFINE off == bump_generation(stop_device(b))
           empty == [off EXCEPT !.prefs = DefaultPrefs, !.ever_configured = FALSE,
                                !.boot_attempted_up = FALSE]
<1>1. off \in BackendState
  BY StopType, BumpType
<1>2. empty \in BackendState
  BY <1>1, DefaultPrefsType DEF BackendState
<1>3. QED
  BY <1>1, <1>2, ResetType, ReconcileType DEF reset_to_empty_profile

LEMMA ResetToEmptyDiskType ==
  ASSUME NEW b \in BackendState, NEW d \in Disk, NEW stop
  PROVE  reset_to_empty_profile_disk(b, d, stop) \in Disk
BY DEF reset_to_empty_profile_disk, BackendState, Disk

LEMMA AfterClaimType ==
  ASSUME NEW b \in BackendState, NEW timer
  PROVE  after_claim(b, timer) \in BackendState
BY DEF after_claim, BackendState
----------------------------------------------------------------------------
(* Effects.                                                                *)

LEMMA StopEffect ==
  ASSUME NEW b \in BackendState
  PROVE  /\ stop_device(b).device = None
         /\ stop_device(b).generation = b.generation
         /\ stop_device(b).current_profile = b.current_profile
         /\ stop_device(b).prefs = b.prefs
         /\ stop_device(b).override_always_on = b.override_always_on
         /\ stop_device(b).reconnect = b.reconnect
BY DEF stop_device, BackendState

LEMMA BumpEffect ==
  ASSUME NEW b \in BackendState
  PROVE  /\ bump_generation(b).generation = b.generation + 1
         /\ bump_generation(b).device = b.device
         /\ bump_generation(b).current_profile = b.current_profile
         /\ bump_generation(b).prefs = b.prefs
         /\ bump_generation(b).override_always_on = b.override_always_on
         /\ bump_generation(b).reconnect = b.reconnect
BY DEF bump_generation, BackendState

LEMMA ResetEffect ==
  ASSUME NEW b \in BackendState
  PROVE  /\ reset_always_on_override(b).device = b.device
         /\ reset_always_on_override(b).generation = b.generation
         /\ reset_always_on_override(b).current_profile = b.current_profile
         /\ reset_always_on_override(b).prefs = b.prefs
         /\ reset_always_on_override(b).override_always_on = FALSE
         /\ reset_always_on_override(b).reconnect = None
BY DEF reset_always_on_override, BackendState

LEMMA ReconcileEffect ==
  ASSUME NEW b \in BackendState
  PROVE  /\ reconcile_sys_policy(b).device = b.device
         /\ reconcile_sys_policy(b).generation = b.generation
         /\ reconcile_sys_policy(b).current_profile = b.current_profile
         /\ reconcile_sys_policy(b).prefs.logged_out = b.prefs.logged_out
         /\ reconcile_sys_policy(b).prefs.want_running
              <=> b.prefs.want_running \/ (AlwaysOn /\ ~b.override_always_on)
         /\ reconcile_sys_policy(b).override_always_on = b.override_always_on
         /\ reconcile_sys_policy(b).reconnect = b.reconnect
BY DEF reconcile_sys_policy, BackendState, Prefs

LEMMA LoadEffect ==
  ASSUME NEW d \in Disk
  PROVE  load(d).device = None /\ load(d).current_profile = d.current
<1>1. load_prefs(d, d.current) \in Prefs /\ d.current \in Profiles
  BY LoadPrefsType DEF Disk
<1> DEFINE raw ==
  [prefs |-> load_prefs(d, d.current), current_profile |-> d.current, device |-> None,
   generation |-> 0, has_node_key |-> d.key[d.current] # 0,
   ever_configured |-> d.prefs[d.current] # None, boot_attempted_up |-> FALSE,
   override_always_on |-> FALSE, reconnect |-> None, reconnect_seq |-> 0]
<1>2. raw \in BackendState /\ raw.device = None /\ raw.current_profile = d.current
  BY <1>1 DEF BackendState
<1>3. load(d) = reconcile_sys_policy(raw)
  BY DEF load
<1> HIDE DEF raw
<1>4. QED
  BY <1>2, <1>3, ReconcileEffect

LEMMA PermittedEffect ==
  ASSUME NEW b \in BackendState
  PROVE  /\ on_permitted_disconnect(b).device = b.device
         /\ on_permitted_disconnect(b).generation = b.generation
         /\ on_permitted_disconnect(b).current_profile = b.current_profile
         /\ on_permitted_disconnect(b).prefs = b.prefs
         /\ on_permitted_disconnect(b).override_always_on = TRUE
BY DEF on_permitted_disconnect, start_reconnect_timer, BackendState

(* begin_up stops a running engine unless it is refused outright, leaves   *)
(* the profile alone, wants the node up once it reaches the prefs, and     *)
(* bumps the generation exactly when it hands out a PendingUp.             *)
LEMMA BeginUpEffect ==
  ASSUME NEW b \in BackendState, NEW opts \in Opts, NEW stop, NEW ok \in BOOLEAN,
         ok => stop = "saved"
  PROVE  LET a == begin_up(b, opts, stop, ok)
         IN  /\ a.current_profile = b.current_profile
             /\ stop = "refused" => a = b
             /\ stop # "refused" => a.device = None
             /\ a.generation = IF ok THEN b.generation + 1 ELSE b.generation
             /\ wants_running(b) => wants_running(a)
             /\ ok => wants_running(a)
<1> DEFINE halted  == stop_device(b)
           rekeyed == [halted EXCEPT !.has_node_key = @ /\ ~opts.force_reauth]
           up      == begin_up_prefs(rekeyed, opts)
           applied == reconcile_sys_policy(reset_always_on_override(up))
           keyed   == [applied EXCEPT !.has_node_key = TRUE]
<1>1. /\ halted \in BackendState /\ halted.device = None /\ halted.generation = b.generation
      /\ halted.current_profile = b.current_profile /\ halted.prefs = b.prefs
  BY StopType, StopEffect
<1>2. /\ rekeyed \in BackendState /\ rekeyed.device = None /\ rekeyed.generation = b.generation
      /\ rekeyed.current_profile = b.current_profile
  BY <1>1 DEF BackendState, Opts
<1>3. /\ up \in BackendState /\ up.device = None /\ up.generation = b.generation
      /\ up.current_profile = b.current_profile /\ wants_running(up)
  <2> HIDE DEF rekeyed
  <2>1. up \in BackendState
    BY <1>2, BeginUpPrefsType
  <2>2. QED
    BY <1>2, <2>1 DEF begin_up_prefs, BackendState, Prefs, Opts, wants_running
<1>4. /\ applied \in BackendState /\ applied.device = None /\ applied.generation = b.generation
      /\ applied.current_profile = b.current_profile /\ wants_running(applied)
  <2> DEFINE reset == reset_always_on_override(up)
  <2> HIDE DEF up
  <2>1. /\ reset \in BackendState /\ reset.device = None /\ reset.generation = b.generation
        /\ reset.current_profile = b.current_profile /\ wants_running(reset)
    BY <1>3, ResetType, ResetEffect DEF wants_running
  <2> HIDE DEF reset
  <2>2. reconcile_sys_policy(reset) \in BackendState
    BY <2>1, ReconcileType
  <2>3. QED
    BY <2>1, <2>2, ReconcileEffect DEF wants_running, reset
<1>5. /\ keyed \in BackendState /\ keyed.device = None /\ keyed.generation = b.generation
      /\ keyed.current_profile = b.current_profile /\ wants_running(keyed)
  <2> HIDE DEF applied
  <2> QED
    BY <1>4 DEF BackendState, wants_running
<1>6. LET k == bump_generation(keyed)
      IN  /\ k.device = None /\ k.generation = b.generation + 1
          /\ k.current_profile = b.current_profile /\ wants_running(k)
  <2> HIDE DEF keyed
  <2> QED
    BY <1>5, BumpEffect DEF wants_running
<1>7. CASE stop = "refused"
  BY <1>7 DEF begin_up
<1>8. CASE stop = "unwiped"
  <2>1. begin_up(b, opts, stop, ok) = halted
    BY <1>8 DEF begin_up
  <2> QED
    BY <1>1, <1>8, <2>1 DEF wants_running
<1>9. CASE stop \notin {"refused", "unwiped"} /\ ok
  <2>1. begin_up(b, opts, stop, ok) = bump_generation(keyed)
    BY <1>9 DEF begin_up
  <2> HIDE DEF keyed
  <2> QED
    BY <1>6, <1>9, <2>1
<1>10. CASE stop \notin {"refused", "unwiped"} /\ ~ok
  <2>1. begin_up(b, opts, stop, ok) = applied
    BY <1>10 DEF begin_up
  <2> HIDE DEF applied
  <2> QED
    BY <1>4, <1>10, <2>1
<1>11. QED
  BY <1>7, <1>8, <1>9, <1>10

LEMMA PersistEffect ==
  ASSUME NEW b \in BackendState, NEW d \in Disk, NEW stop
  PROVE  persist_prefs(b, d, stop).key = d.key /\ persist_prefs(b, d, stop).current = d.current
BY DEF persist_prefs, BackendState, Disk

(* Loading the key file mints only where there is no key.                  *)
LEMMA LoadKeyEffect ==
  ASSUME NEW b \in BackendState, NEW d \in Disk, NEW fresh \in Nat \ {0}
  PROVE  LET e == load_key_file(b, d, fresh)
             p == b.current_profile
         IN  /\ e.current = d.current
             /\ e.key[p] # 0
             /\ d.key[p] # 0 => e.key[p] = d.key[p]
BY DEF load_key_file, BackendState, Disk

(* A bring-up that is not a force-reauth keeps the key it finds; one that  *)
(* reaches build_config leaves a key behind.                               *)
LEMMA BeginUpDiskEffect ==
  ASSUME NEW b \in BackendState, NEW d \in Disk, NEW opts \in Opts, NEW stop,
         NEW fresh \in Nat \ {0}
  PROVE  LET e == begin_up_disk(b, d, opts, stop, fresh)
             p == b.current_profile
         IN  /\ e.current = d.current
             /\ ~opts.force_reauth /\ d.key[p] # 0 => e.key[p] = d.key[p]
             /\ stop = "saved" => e.key[p] # 0
<1> DEFINE after == begin_up(b, opts, stop, FALSE)
           wiped == IF opts.force_reauth THEN remove_key_file(b, d) ELSE d
           saved == persist_prefs(after, wiped, stop)
           p     == b.current_profile
<1>1. after \in BackendState /\ after.current_profile = p
  BY BeginUpType, BeginUpEffect
<1>2. wiped \in Disk /\ wiped.current = d.current /\ (~opts.force_reauth => wiped = d)
  BY KeyFileType DEF remove_key_file, BackendState, Disk
<1> HIDE DEF after, wiped
<1>3. saved \in Disk /\ saved.key = wiped.key /\ saved.current = d.current
  BY <1>1, <1>2, PersistType, PersistEffect
<1> HIDE DEF saved
<1>4. LET e == load_key_file(after, saved, fresh)
      IN  /\ e.current = d.current
          /\ e.key[p] # 0
          /\ saved.key[p] # 0 => e.key[p] = saved.key[p]
  BY <1>1, <1>3, LoadKeyEffect
<1>5. CASE stop \in {"refused", "unwiped"}
  BY <1>5 DEF begin_up_disk
<1>6. CASE stop \in {"unsaved", "unlisted"}
  <2>1. begin_up_disk(b, d, opts, stop, fresh) = saved
    BY <1>6 DEF begin_up_disk, saved, wiped, after
  <2>2. QED
    BY <1>2, <1>3, <1>6, <2>1
<1>7. CASE stop \notin {"refused", "unwiped", "unsaved", "unlisted"}
  <2>1. begin_up_disk(b, d, opts, stop, fresh) = load_key_file(after, saved, fresh)
    BY <1>7 DEF begin_up_disk, saved, wiped, after
  <2>2. QED
    BY <1>2, <1>3, <1>4, <2>1
<1>8. QED
  BY <1>5, <1>6, <1>7

LEMMA FinishUpEffect ==
  ASSUME NEW b \in BackendState, NEW p \in PendingUp \cup {None}, NEW built \in BOOLEAN
  PROVE  LET a == finish_up(b, p, built)
         IN  /\ superseded(b, p) \/ ~built => a = b
             /\ ~superseded(b, p) /\ built =>
                  /\ a.device = p
                  /\ a.generation = b.generation + 1
                  /\ a.prefs.want_running = b.prefs.want_running
                  /\ a.prefs.logged_out = b.prefs.logged_out
             /\ a.current_profile = b.current_profile
             /\ wants_running(b) => wants_running(a)
             /\ a.prefs.want_running = b.prefs.want_running
             /\ a.override_always_on = b.override_always_on
             /\ a.reconnect = b.reconnect
<1> DEFINE up == [b EXCEPT !.device = p, !.prefs.has_logged_in = TRUE]
<1>1. up \in BackendState
  BY DEF BackendState, Prefs
<1>2. /\ up.device = p /\ up.generation = b.generation
      /\ up.current_profile = b.current_profile
      /\ up.prefs.want_running = b.prefs.want_running
      /\ up.prefs.logged_out = b.prefs.logged_out
      /\ up.override_always_on = b.override_always_on /\ up.reconnect = b.reconnect
  BY DEF BackendState, Prefs
<1>3. finish_up(b, p, built) = IF superseded(b, p) \/ ~built THEN b ELSE bump_generation(up)
  BY DEF finish_up
<1> HIDE DEF up
<1>4. QED
  BY <1>1, <1>2, <1>3, BumpEffect DEF wants_running

LEMMA BeginSetPrefsEffect ==
  ASSUME NEW b \in BackendState, NEW config \in Settings
  PROVE  LET a == begin_set_prefs(b, config)
         IN  /\ a.device = b.device /\ a.generation = b.generation
             /\ a.current_profile = b.current_profile
             /\ wants_running(b) => wants_running(a)
             /\ a.prefs.want_running
                  <=> b.prefs.want_running \/ (AlwaysOn /\ ~b.override_always_on)
             /\ a.override_always_on = b.override_always_on
             /\ a.reconnect = b.reconnect
<1> DEFINE new == [b EXCEPT !.prefs.config = config, !.ever_configured = TRUE]
<1>1. /\ new \in BackendState /\ new.device = b.device /\ new.generation = b.generation
      /\ new.current_profile = b.current_profile
      /\ new.prefs.want_running = b.prefs.want_running
      /\ new.prefs.logged_out = b.prefs.logged_out
      /\ new.override_always_on = b.override_always_on /\ new.reconnect = b.reconnect
  BY DEF BackendState, Prefs
<1>2. begin_set_prefs(b, config) = reconcile_sys_policy(new)
  BY DEF begin_set_prefs
<1> HIDE DEF new
<1>3. QED
  BY <1>1, <1>2, ReconcileEffect DEF wants_running

LEMMA BeginSetEffect ==
  ASSUME NEW b \in BackendState, NEW config \in Settings, NEW live \in BOOLEAN
  PROVE  LET a == begin_set(b, config, live)
         IN  /\ b.device = None => a.device = None
             /\ b.device # None => /\ a.device.profile = b.device.profile
                                   /\ a.device.key = b.device.key
                                   /\ a.device.generation = b.device.generation
             /\ a.generation = b.generation
             /\ a.current_profile = b.current_profile
             /\ wants_running(b) => wants_running(a)
             /\ a.prefs = begin_set_prefs(b, config).prefs
             /\ a.override_always_on = b.override_always_on
             /\ a.reconnect = b.reconnect
<1> DEFINE set == begin_set_prefs(b, config)
<1>1. set \in BackendState
  BY BeginSetPrefsType
<1>2. /\ set.device = b.device /\ set.generation = b.generation
      /\ set.current_profile = b.current_profile
      /\ wants_running(b) => wants_running(set)
      /\ set.override_always_on = b.override_always_on /\ set.reconnect = b.reconnect
  BY BeginSetPrefsEffect
<1>3. begin_set(b, config, live)
        = IF live /\ b.device # None THEN [set EXCEPT !.device.config.live = config.live] ELSE set
  BY DEF begin_set
<1> HIDE DEF set
<1>4. CASE live /\ b.device # None
  <2> DEFINE dev == [set.device EXCEPT !.config.live = config.live]
  <2>1. set.device \in PendingUp
    BY <1>1, <1>2, <1>4 DEF BackendState
  <2>2. /\ dev.profile = b.device.profile /\ dev.key = b.device.key
        /\ dev.generation = b.device.generation
    BY <1>2, <2>1 DEF PendingUp
  <2>3. begin_set(b, config, live) = [set EXCEPT !.device = dev]
    BY <1>3, <1>4
  <2> HIDE DEF dev
  <2>4. QED
    BY <1>1, <1>2, <1>4, <2>2, <2>3 DEF BackendState, wants_running, set
<1>5. CASE ~(live /\ b.device # None)
  BY <1>2, <1>3, <1>5 DEF set
<1>6. QED
  BY <1>4, <1>5

LEMMA ApplyConfigEffect ==
  ASSUME NEW b \in BackendState, NEW enabled \in BOOLEAN, NEW config \in Settings
  PROVE  LET a == apply_config(b, enabled, config)
         IN  /\ a.device = b.device /\ a.generation = b.generation
             /\ a.current_profile = b.current_profile
<1> DEFINE new == [b EXCEPT !.prefs.want_running = enabled, !.prefs.config = config,
                            !.ever_configured = TRUE]
<1>1. /\ new \in BackendState /\ new.device = b.device /\ new.generation = b.generation
      /\ new.current_profile = b.current_profile
  BY DEF BackendState, Prefs
<1>2. apply_config(b, enabled, config) = reconcile_sys_policy(new)
  BY DEF apply_config
<1> HIDE DEF new
<1>3. QED
  BY <1>1, <1>2, ReconcileEffect

LEMMA DownEffect ==
  ASSUME NEW b \in BackendState
  PROVE  /\ down(b).device = None
         /\ down(b).generation = b.generation + 1
         /\ down(b).current_profile = b.current_profile
         /\ b.prefs.want_running => down(b).override_always_on
         /\ ~b.prefs.want_running => down(b).override_always_on = b.override_always_on
<1> DEFINE stopped == bump_generation(stop_device(b))
           off == [stopped EXCEPT !.prefs.want_running = FALSE, !.ever_configured = TRUE]
<1>1. /\ stopped \in BackendState /\ stopped.device = None
      /\ stopped.generation = b.generation + 1 /\ stopped.current_profile = b.current_profile
      /\ stopped.override_always_on = b.override_always_on
  BY StopType, BumpType, StopEffect, BumpEffect
<1>2. down(b) = IF b.prefs.want_running THEN on_permitted_disconnect(off) ELSE off
  BY DEF down
<1> HIDE DEF stopped
<1>3. /\ off \in BackendState /\ off.device = None
      /\ off.generation = b.generation + 1 /\ off.current_profile = b.current_profile
      /\ off.override_always_on = b.override_always_on
  BY <1>1 DEF BackendState, Prefs
<1> HIDE DEF off
<1>4. QED
  BY <1>2, <1>3, PermittedEffect

LEMMA LogoutEffect ==
  ASSUME NEW b \in BackendState, NEW stop
  PROVE  LET a == logout(b, stop)
         IN  /\ a.device = None
             /\ a.generation = b.generation + 1
             /\ a.current_profile = b.current_profile
             /\ stop = "unwiped" => /\ a.prefs = b.prefs
                                    /\ a.override_always_on = b.override_always_on
             /\ stop # "unwiped" /\ b.prefs.want_running => a.override_always_on
             /\ ~b.prefs.want_running => a.override_always_on = b.override_always_on
<1> DEFINE off == bump_generation(stop_device(b))
           out == [off EXCEPT !.has_node_key = FALSE, !.prefs.want_running = FALSE,
                              !.prefs.logged_out = TRUE, !.prefs.has_logged_in = FALSE,
                              !.ever_configured = TRUE]
<1>1. /\ off \in BackendState /\ off.device = None /\ off.prefs = b.prefs
      /\ off.generation = b.generation + 1 /\ off.current_profile = b.current_profile
      /\ off.override_always_on = b.override_always_on
  BY StopType, BumpType, StopEffect, BumpEffect
<1>2. logout(b, stop)
        = IF stop = "unwiped" THEN off
          ELSE IF b.prefs.want_running THEN on_permitted_disconnect(out) ELSE out
  BY DEF logout
<1> HIDE DEF off
<1>3. /\ out \in BackendState /\ out.device = None
      /\ out.generation = b.generation + 1 /\ out.current_profile = b.current_profile
      /\ out.override_always_on = b.override_always_on
  BY <1>1 DEF BackendState, Prefs
<1> HIDE DEF out
<1>4. QED
  BY <1>1, <1>2, <1>3, PermittedEffect

LEMMA ActivateEffect ==
  ASSUME NEW b \in BackendState, NEW d \in Disk, NEW target \in Profiles, NEW stop
  PROVE  LET a == activate_profile(b, d, target, stop)
         IN  /\ a.device = None
             /\ a.generation = b.generation + 1
             /\ a.current_profile = IF stop = "saved" THEN target ELSE b.current_profile
             /\ stop # "saved" => /\ a.prefs = b.prefs
                                  /\ a.override_always_on = b.override_always_on
<1> DEFINE off == bump_generation(stop_device(b))
           new == adopt_profile(off, d, target)
           reset == reset_always_on_override(new)
<1>1. /\ off \in BackendState /\ off.device = None /\ off.prefs = b.prefs
      /\ off.generation = b.generation + 1 /\ off.current_profile = b.current_profile
      /\ off.override_always_on = b.override_always_on
  BY StopType, BumpType, StopEffect, BumpEffect
<1>2. activate_profile(b, d, target, stop)
        = IF stop # "saved" THEN off ELSE reconcile_sys_policy(reset)
  BY DEF activate_profile
<1>3. load_prefs(d, target) \in Prefs
  BY LoadPrefsType
<1> HIDE DEF off
<1>4. /\ new \in BackendState /\ new.device = None
      /\ new.generation = b.generation + 1 /\ new.current_profile = target
  BY <1>1, <1>3 DEF adopt_profile, BackendState
<1> HIDE DEF new
<1>5. /\ reset \in BackendState /\ reset.device = None
      /\ reset.generation = b.generation + 1 /\ reset.current_profile = target
  BY <1>4, ResetType, ResetEffect
<1> HIDE DEF reset
<1>6. QED
  BY <1>1, <1>2, <1>5, ReconcileEffect

LEMMA ActivateDiskEffect ==
  ASSUME NEW d \in Disk, NEW target \in Profiles, NEW register \in BOOLEAN, NEW stop
  PROVE  activate_profile_disk(d, target, register, stop).current
           = IF stop = "saved" THEN target ELSE d.current
BY DEF activate_profile_disk, Disk

LEMMA ResetToEmptyEffect ==
  ASSUME NEW b \in BackendState, NEW stop
  PROVE  LET a == reset_to_empty_profile(b, stop)
         IN  /\ a.device = None
             /\ a.generation = b.generation + 1
             /\ a.current_profile = b.current_profile
             /\ stop = "unsaved" => /\ a.prefs = b.prefs
                                    /\ a.override_always_on = b.override_always_on
<1> DEFINE off == bump_generation(stop_device(b))
           empty == [off EXCEPT !.prefs = DefaultPrefs, !.ever_configured = FALSE,
                                !.boot_attempted_up = FALSE]
           reset == reset_always_on_override(empty)
<1>1. /\ off \in BackendState /\ off.device = None /\ off.prefs = b.prefs
      /\ off.generation = b.generation + 1 /\ off.current_profile = b.current_profile
      /\ off.override_always_on = b.override_always_on
  BY StopType, BumpType, StopEffect, BumpEffect
<1>2. reset_to_empty_profile(b, stop)
        = IF stop = "unsaved" THEN off ELSE reconcile_sys_policy(reset)
  BY DEF reset_to_empty_profile
<1> HIDE DEF off
<1>3. /\ empty \in BackendState /\ empty.device = None
      /\ empty.generation = b.generation + 1 /\ empty.current_profile = b.current_profile
  BY <1>1, DefaultPrefsType DEF BackendState
<1> HIDE DEF empty
<1>4. /\ reset \in BackendState /\ reset.device = None
      /\ reset.generation = b.generation + 1 /\ reset.current_profile = b.current_profile
  BY <1>3, ResetType, ResetEffect
<1> HIDE DEF reset
<1>5. QED
  BY <1>1, <1>2, <1>4, ReconcileEffect

LEMMA AfterClaimEffect ==
  ASSUME NEW b \in BackendState, NEW timer
  PROVE  LET a == after_claim(b, timer)
         IN  /\ a.device = b.device /\ a.generation = b.generation
             /\ a.current_profile = b.current_profile /\ a.prefs = b.prefs
             /\ a.override_always_on = b.override_always_on
BY DEF after_claim, BackendState

----------------------------------------------------------------------------
(* The backend and the state directory.                                    *)

(* The pointer file names the backend's profile, the always-on policy is   *)
(* in force or exempted, and the cache never claims a key that is gone.    *)
Agree(b, d) ==
  /\ b.current_profile = d.current
  /\ AlwaysOn => b.prefs.want_running \/ b.override_always_on
  /\ b.has_node_key => d.key[b.current_profile] # 0

(* The cache says exactly whether there is a key.                          *)
Exact(b, d) == b.has_node_key <=> d.key[b.current_profile] # 0

(* No key on disk for a profile that is logged out, on disk or, for the    *)
(* current one, in the prefs the next write will save.                     *)
Gone(b, d) ==
  /\ \A p \in Profiles : d.prefs[p] # None /\ d.prefs[p].logged_out => d.key[p] = 0
  /\ b.prefs.logged_out => d.key[b.current_profile] = 0

(* The change from <<b, d>> to <<a, e>> keeps what held of the pair.  Only *)
(* a settings value that build_config refuses may cost the cache its       *)
(* exactness.                                                              *)
Keeps(b, d, a, e) ==
  /\ Agree(b, d) => Agree(a, e)
  /\ Gone(b, d) => Gone(a, e)
  /\ BadFixed = {} /\ Exact(b, d) => Exact(a, e)

LEMMA KeepsTrans ==
  ASSUME NEW b, NEW d, NEW a, NEW e, NEW x, NEW y, Keeps(b, d, a, e), Keeps(a, e, x, y)
  PROVE  Keeps(b, d, x, y)
BY DEF Keeps

LEMMA KeepsSelf ==
  ASSUME NEW b, NEW d
  PROVE  Keeps(b, d, b, d)
BY DEF Keeps

(* A method that touches neither the directory, the profile, the cache nor *)
(* logged_out keeps the pair when it keeps the always-on policy.           *)
LEMMA QuietKeeps ==
  ASSUME NEW b, NEW d, NEW a,
         a.current_profile = b.current_profile, a.has_node_key = b.has_node_key,
         a.prefs.logged_out = b.prefs.logged_out,
         AlwaysOn /\ (b.prefs.want_running \/ b.override_always_on)
           => a.prefs.want_running \/ a.override_always_on
  PROVE  Keeps(b, d, a, d)
BY DEF Keeps, Agree, Gone, Exact

(* persist_prefs writes what the backend holds, whichever way it ends.     *)
LEMMA PersistKeeps ==
  ASSUME NEW b \in BackendState, NEW d \in Disk, NEW stop
  PROVE  Keeps(b, d, b, persist_prefs(b, d, stop))
<1> DEFINE e == persist_prefs(b, d, stop)
<1>1. e.key = d.key /\ e.current = d.current
  BY PersistEffect
<1>2. \A p \in Profiles :
        e.prefs[p] = d.prefs[p] \/ (p = b.current_profile /\ e.prefs[p] = b.prefs)
  BY DEF persist_prefs, BackendState, Disk
<1> HIDE DEF e
<1>3. Gone(b, d) => Gone(b, e)
  BY <1>1, <1>2 DEF Gone
<1>4. QED
  BY <1>1, <1>3 DEF Keeps, Agree, Exact, e

LEMMA CacheEffect ==
  ASSUME NEW b \in BackendState
  PROVE  /\ stop_device(b).has_node_key = b.has_node_key
         /\ bump_generation(b).has_node_key = b.has_node_key
         /\ reset_always_on_override(b).has_node_key = b.has_node_key
         /\ reconcile_sys_policy(b).has_node_key = b.has_node_key
         /\ on_permitted_disconnect(b).has_node_key = b.has_node_key
BY DEF stop_device, bump_generation, reset_always_on_override, reconcile_sys_policy,
       on_permitted_disconnect, start_reconnect_timer, BackendState

(* What a method that reconciles last leaves satisfies the policy.         *)
LEMMA ReconcileHolds ==
  ASSUME NEW b \in BackendState
  PROVE  LET a == reconcile_sys_policy(b)
         IN  AlwaysOn => a.prefs.want_running \/ a.override_always_on
BY ReconcileEffect

----------------------------------------------------------------------------
(* The methods, one by one.                                                *)

LEMMA LoadKeeps ==
  ASSUME NEW d \in Disk
  PROVE  /\ Agree(load(d), d) /\ Exact(load(d), d)
         /\ \A b : Gone(b, d) => Gone(load(d), d)
<1>1. load_prefs(d, d.current) \in Prefs /\ d.current \in Profiles
  BY LoadPrefsType DEF Disk
<1> DEFINE raw ==
  [prefs |-> load_prefs(d, d.current), current_profile |-> d.current, device |-> None,
   generation |-> 0, has_node_key |-> d.key[d.current] # 0,
   ever_configured |-> d.prefs[d.current] # None, boot_attempted_up |-> FALSE,
   override_always_on |-> FALSE, reconnect |-> None, reconnect_seq |-> 0]
<1>2. /\ raw \in BackendState /\ raw.current_profile = d.current
      /\ raw.has_node_key = (d.key[d.current] # 0)
      /\ raw.prefs = load_prefs(d, d.current)
  BY <1>1 DEF BackendState
<1>3. load(d) = reconcile_sys_policy(raw)
  BY DEF load
<1> HIDE DEF raw
<1>4. /\ load(d).current_profile = d.current
      /\ load(d).has_node_key = (d.key[d.current] # 0)
      /\ load(d).prefs.logged_out = load_prefs(d, d.current).logged_out
      /\ AlwaysOn => load(d).prefs.want_running \/ load(d).override_always_on
  BY <1>2, <1>3, ReconcileEffect, ReconcileHolds, CacheEffect
<1>5. load_prefs(d, d.current).logged_out
        => d.prefs[d.current] # None /\ d.prefs[d.current].logged_out
  BY DEF load_prefs, DefaultPrefs
<1>6. QED
  BY <1>1, <1>4, <1>5 DEF Agree, Exact, Gone

Stops == {"refused", "unwiped", "unsaved", "unlisted", "saved"}

(* Past its pre-validation and its wipe, begin_up leaves a node that is    *)
(* wanted up and not logged out; the cache follows the key file.           *)
LEMMA BeginUpIntent ==
  ASSUME NEW b \in BackendState, NEW opts \in Opts, NEW stop \in Stops \ {"refused", "unwiped"},
         NEW ok \in BOOLEAN
  PROVE  LET a == begin_up(b, opts, stop, ok)
         IN  /\ a.prefs.want_running /\ ~a.prefs.logged_out
             /\ a.has_node_key <=> ok \/ (b.has_node_key /\ ~opts.force_reauth)
<1> DEFINE halted  == stop_device(b)
           rekeyed == [halted EXCEPT !.has_node_key = @ /\ ~opts.force_reauth]
           up      == begin_up_prefs(rekeyed, opts)
           reset   == reset_always_on_override(up)
           applied == reconcile_sys_policy(reset)
           keyed   == [applied EXCEPT !.has_node_key = TRUE]
           cached  == b.has_node_key /\ ~opts.force_reauth
<1>1. halted \in BackendState /\ halted.has_node_key = b.has_node_key
  BY StopType, CacheEffect
<1>2. rekeyed \in BackendState /\ (rekeyed.has_node_key <=> cached)
  <2> HIDE DEF halted
  <2> QED
    BY <1>1 DEF BackendState, Opts
<1> HIDE DEF rekeyed
<1>3. /\ up \in BackendState /\ up.prefs.want_running /\ ~up.prefs.logged_out
      /\ up.has_node_key <=> cached
  BY <1>2, BeginUpPrefsType DEF begin_up_prefs, BackendState, Prefs, Opts
<1> HIDE DEF up
<1>4. /\ reset \in BackendState /\ reset.prefs.want_running /\ ~reset.prefs.logged_out
      /\ reset.has_node_key <=> cached
  BY <1>3, ResetType, ResetEffect, CacheEffect
<1> HIDE DEF reset
<1>5. /\ applied \in BackendState /\ applied.prefs.want_running /\ ~applied.prefs.logged_out
      /\ applied.has_node_key <=> cached
  BY <1>4, ReconcileType, ReconcileEffect, CacheEffect
<1> HIDE DEF applied
<1>6. keyed \in BackendState /\ keyed.has_node_key /\ keyed.prefs = applied.prefs
  BY <1>5 DEF BackendState
<1>7. begin_up(b, opts, stop, ok) = IF ok THEN bump_generation(keyed) ELSE applied
  BY DEF begin_up, applied, reset, up, rekeyed, Stops
<1> HIDE DEF keyed
<1>8. QED
  BY <1>5, <1>6, <1>7, BumpEffect, CacheEffect

(* What begin_up leaves on disk: another profile's files are untouched,    *)
(* and this profile has a key, or has lost it, only as its prefs say.      *)
LEMMA BeginUpFiles ==
  ASSUME NEW b \in BackendState, NEW d \in Disk, NEW opts \in Opts,
         NEW stop \in Stops \ {"refused", "unwiped"}, NEW fresh \in Nat \ {0}
  PROVE  LET e == begin_up_disk(b, d, opts, stop, fresh)
             q == b.current_profile
         IN  /\ \A p \in Profiles \ {q} : e.prefs[p] = d.prefs[p] /\ e.key[p] = d.key[p]
             /\ stop = "saved" => ~e.prefs[q].logged_out
             /\ stop # "saved" =>
                  /\ e.key[q] = IF opts.force_reauth THEN 0 ELSE d.key[q]
                  /\ e.prefs[q] = d.prefs[q] \/ ~e.prefs[q].logged_out
<1> DEFINE after == begin_up(b, opts, stop, FALSE)
           wiped == IF opts.force_reauth THEN remove_key_file(b, d) ELSE d
           saved == persist_prefs(after, wiped, stop)
           final == load_key_file(after, saved, fresh)
           q     == b.current_profile
<1>1. /\ after \in BackendState /\ after.current_profile = q /\ ~after.prefs.logged_out
      /\ q \in Profiles
  <2>1. after \in BackendState /\ after.current_profile = q
    BY BeginUpType, BeginUpEffect
  <2>2. ~after.prefs.logged_out
    BY BeginUpIntent
  <2>3. QED
    BY <2>1, <2>2 DEF BackendState
<1>2. /\ wiped \in Disk /\ wiped.prefs = d.prefs
      /\ wiped.key[q] = IF opts.force_reauth THEN 0 ELSE d.key[q]
      /\ \A p \in Profiles \ {q} : wiped.key[p] = d.key[p]
  BY KeyFileType DEF remove_key_file, BackendState, Disk
<1> HIDE DEF after, wiped
<1>3. /\ saved \in Disk /\ saved.key = wiped.key
      /\ \A p \in Profiles \ {q} : saved.prefs[p] = d.prefs[p]
      /\ saved.prefs[q] = IF stop = "unsaved" THEN d.prefs[q] ELSE after.prefs
  <2>1. saved \in Disk /\ saved.key = wiped.key
    BY <1>1, <1>2, PersistType, PersistEffect
  <2>2. QED
    BY <1>1, <1>2, <2>1 DEF persist_prefs, BackendState, Disk
<1> HIDE DEF saved
<1>4. /\ final.prefs = saved.prefs
      /\ \A p \in Profiles \ {q} : final.key[p] = saved.key[p]
  BY <1>1, <1>3 DEF load_key_file, Disk
<1>5. begin_up_disk(b, d, opts, stop, fresh) = IF stop = "saved" THEN final ELSE saved
  BY DEF begin_up_disk, saved, wiped, after, Stops
<1> HIDE DEF final
<1>6. QED
  BY <1>1, <1>2, <1>3, <1>4, <1>5

LEMMA BeginUpKeeps ==
  ASSUME NEW b \in BackendState, NEW d \in Disk, NEW opts \in Opts, NEW stop \in Stops,
         NEW ok \in BOOLEAN, NEW fresh \in Nat \ {0},
         ok => stop = "saved", BadFixed = {} /\ stop = "saved" => ok
  PROVE  Keeps(b, d, begin_up(b, opts, stop, ok), begin_up_disk(b, d, opts, stop, fresh))
<1> DEFINE a == begin_up(b, opts, stop, ok)
           e == begin_up_disk(b, d, opts, stop, fresh)
           q == b.current_profile
<1>0. q \in Profiles
  BY DEF BackendState
<1>1. CASE stop = "refused"
  <2>1. a = b /\ e = d
    BY <1>1 DEF begin_up, begin_up_disk
  <2>2. QED
    BY <2>1, KeepsSelf
<1>2. CASE stop = "unwiped"
  <2>1. a = stop_device(b) /\ e = d
    BY <1>2 DEF begin_up, begin_up_disk
  <2>2. QED
    BY <2>1, StopEffect, CacheEffect, QuietKeeps
<1>3. CASE stop \notin {"refused", "unwiped"}
  <2>1. /\ a.current_profile = q /\ a.prefs.want_running /\ ~a.prefs.logged_out
        /\ a.has_node_key <=> ok \/ (b.has_node_key /\ ~opts.force_reauth)
    BY <1>3, BeginUpEffect, BeginUpIntent
  <2>2. /\ e.current = d.current
        /\ stop = "saved" => e.key[q] # 0
    BY BeginUpDiskEffect
  <2>3. /\ \A p \in Profiles \ {q} : e.prefs[p] = d.prefs[p] /\ e.key[p] = d.key[p]
        /\ stop = "saved" => ~e.prefs[q].logged_out
        /\ stop # "saved" =>
             /\ e.key[q] = IF opts.force_reauth THEN 0 ELSE d.key[q]
             /\ e.prefs[q] = d.prefs[q] \/ ~e.prefs[q].logged_out
    BY <1>3, BeginUpFiles
  <2> HIDE DEF a, e
  <2>4. Agree(b, d) => Agree(a, e)
    BY <2>1, <2>2, <2>3 DEF Agree
  <2>5. Gone(b, d) => Gone(a, e)
    BY <1>0, <2>1, <2>3 DEF Gone
  <2>6. BadFixed = {} /\ Exact(b, d) => Exact(a, e)
    BY <2>1, <2>2, <2>3 DEF Exact
  <2>7. QED
    BY <2>4, <2>5, <2>6 DEF Keeps, a, e
<1>4. QED
  BY <1>1, <1>2, <1>3

LEMMA FinishUpKeeps ==
  ASSUME NEW b \in BackendState, NEW d \in Disk, NEW p \in PendingUp \cup {None},
         NEW built \in BOOLEAN
  PROVE  Keeps(b, d, finish_up(b, p, built), d)
<1> DEFINE up == [b EXCEPT !.device = p, !.prefs.has_logged_in = TRUE]
           a  == finish_up(b, p, built)
<1>1. up \in BackendState /\ up.has_node_key = b.has_node_key
  BY DEF BackendState, Prefs
<1>2. a = IF superseded(b, p) \/ ~built THEN b ELSE bump_generation(up)
  BY DEF finish_up
<1> HIDE DEF up
<1>3. a.has_node_key = b.has_node_key
  BY <1>1, <1>2, CacheEffect
<1>4. /\ a.current_profile = b.current_profile
      /\ a.prefs.want_running = b.prefs.want_running
      /\ a.override_always_on = b.override_always_on
      /\ a.prefs.logged_out = b.prefs.logged_out
  BY FinishUpEffect
<1>5. QED
  BY <1>3, <1>4, QuietKeeps

LEMMA BeginSetKeeps ==
  ASSUME NEW b \in BackendState, NEW d \in Disk, NEW config \in Settings, NEW live \in BOOLEAN
  PROVE  Keeps(b, d, begin_set(b, config, live), d)
<1> DEFINE new == [b EXCEPT !.prefs.config = config, !.ever_configured = TRUE]
           set == begin_set_prefs(b, config)
           a   == begin_set(b, config, live)
<1>1. /\ new \in BackendState /\ new.has_node_key = b.has_node_key
      /\ new.prefs.logged_out = b.prefs.logged_out
  BY DEF BackendState, Prefs
<1>2. set = reconcile_sys_policy(new)
  BY DEF begin_set_prefs
<1> HIDE DEF new
<1>3. set.has_node_key = b.has_node_key /\ set.prefs.logged_out = b.prefs.logged_out
  BY <1>1, <1>2, ReconcileEffect, CacheEffect
<1>4. set \in BackendState
  BY BeginSetPrefsType
<1>5. a.has_node_key = set.has_node_key /\ a.prefs = set.prefs
  <2> HIDE DEF set
  <2>1. a = IF live /\ b.device # None THEN [set EXCEPT !.device.config.live = config.live]
                                        ELSE set
    BY DEF begin_set, set
  <2>2. QED
    BY <1>4, <2>1 DEF BackendState
<1>6. /\ a.current_profile = b.current_profile
      /\ a.override_always_on = b.override_always_on
      /\ b.prefs.want_running => set.prefs.want_running
  BY BeginSetEffect, BeginSetPrefsEffect
<1> HIDE DEF set, a
<1>7. QED
  BY <1>3, <1>5, <1>6, QuietKeeps DEF a

LEMMA ApplyConfigKeeps ==
  ASSUME NEW b \in BackendState, NEW d \in Disk, NEW enabled \in BOOLEAN, NEW config \in Settings
  PROVE  Keeps(b, d, apply_config(b, enabled, config), d)
<1> DEFINE new == [b EXCEPT !.prefs.want_running = enabled, !.prefs.config = config,
                            !.ever_configured = TRUE]
<1>1. /\ new \in BackendState /\ new.has_node_key = b.has_node_key
      /\ new.prefs.logged_out = b.prefs.logged_out
      /\ new.current_profile = b.current_profile
  BY DEF BackendState, Prefs
<1>2. apply_config(b, enabled, config) = reconcile_sys_policy(new)
  BY DEF apply_config
<1> HIDE DEF new
<1>3. QED
  BY <1>1, <1>2, ReconcileEffect, ReconcileHolds, CacheEffect, QuietKeeps

LEMMA DownKeeps ==
  ASSUME NEW b \in BackendState, NEW d \in Disk
  PROVE  Keeps(b, d, down(b), d)
<1> DEFINE stopped == bump_generation(stop_device(b))
           off == [stopped EXCEPT !.prefs.want_running = FALSE, !.ever_configured = TRUE]
<1>1. /\ stopped \in BackendState /\ stopped.has_node_key = b.has_node_key
      /\ stopped.prefs = b.prefs
  BY StopType, BumpType, StopEffect, BumpEffect, CacheEffect
<1>2. down(b) = IF b.prefs.want_running THEN on_permitted_disconnect(off) ELSE off
  BY DEF down
<1> HIDE DEF stopped
<1>3. /\ off \in BackendState /\ off.has_node_key = b.has_node_key
      /\ off.prefs.logged_out = b.prefs.logged_out
  BY <1>1 DEF BackendState, Prefs
<1> HIDE DEF off
<1>4. /\ down(b).has_node_key = b.has_node_key
      /\ down(b).prefs.logged_out = b.prefs.logged_out
  BY <1>2, <1>3, PermittedEffect, CacheEffect
<1>5. QED
  BY <1>4, DownEffect, QuietKeeps

(* logout wipes the key file before it records anything, so whichever way  *)
(* the record ends the key is gone and the cache knows.                    *)
LEMMA LogoutKeeps ==
  ASSUME NEW b \in BackendState, NEW d \in Disk, NEW stop
  PROVE  Keeps(b, d, logout(b, stop), logout_disk(b, d, stop))
<1> DEFINE off == bump_generation(stop_device(b))
           out == [off EXCEPT !.has_node_key = FALSE, !.prefs.want_running = FALSE,
                              !.prefs.logged_out = TRUE, !.prefs.has_logged_in = FALSE,
                              !.ever_configured = TRUE]
           a == logout(b, stop)
           w == remove_key_file(b, d)
<1>1. /\ off \in BackendState /\ off.has_node_key = b.has_node_key /\ off.prefs = b.prefs
      /\ off.current_profile = b.current_profile
      /\ off.override_always_on = b.override_always_on
  BY StopType, BumpType, StopEffect, BumpEffect, CacheEffect
<1>2. a = IF stop = "unwiped" THEN off
          ELSE IF b.prefs.want_running THEN on_permitted_disconnect(out) ELSE out
  BY DEF logout
<1> HIDE DEF off
<1>3. out \in BackendState /\ ~out.has_node_key
  BY <1>1 DEF BackendState, Prefs
<1> HIDE DEF out
<1>4. CASE stop = "unwiped"
  <2>1. a = off /\ logout_disk(b, d, stop) = d
    BY <1>2, <1>4 DEF logout_disk
  <2>2. QED
    BY <1>1, <2>1, QuietKeeps
<1>5. CASE stop # "unwiped"
  <2>1. ~a.has_node_key
    BY <1>2, <1>3, <1>5, CacheEffect
  <2>2. /\ a \in BackendState /\ a.current_profile = b.current_profile
        /\ b.prefs.want_running \/ b.override_always_on => a.override_always_on
    BY <1>5, LogoutType, LogoutEffect
  <2>3. /\ w \in Disk /\ w.prefs = d.prefs /\ w.current = d.current
        /\ w.key[b.current_profile] = 0
        /\ \A p \in Profiles : w.key[p] \in {d.key[p], 0}
    BY KeyFileType DEF remove_key_file, BackendState, Disk
  <2> HIDE DEF a, w
  <2>4. Keeps(b, d, a, w)
    BY <2>1, <2>2, <2>3 DEF Keeps, Agree, Gone, Exact
  <2>5. Keeps(a, w, a, persist_prefs(a, w, stop))
    BY <2>2, <2>3, PersistKeeps
  <2>6. logout_disk(b, d, stop) = persist_prefs(a, w, stop)
    BY <1>5 DEF logout_disk, a, w
  <2>7. QED
    BY <2>4, <2>5, <2>6, KeepsTrans DEF a
<1>6. QED
  BY <1>4, <1>5

(* A switch moves the backend and the pointer together, or neither.        *)
LEMMA ActivateKeeps ==
  ASSUME NEW b \in BackendState, NEW d \in Disk, NEW target \in Profiles,
         NEW register \in BOOLEAN, NEW stop
  PROVE  Keeps(b, d, activate_profile(b, d, target, stop),
                     activate_profile_disk(d, target, register, stop))
<1> DEFINE off == bump_generation(stop_device(b))
           new == adopt_profile(off, d, target)
           reset == reset_always_on_override(new)
           a == activate_profile(b, d, target, stop)
           e == activate_profile_disk(d, target, register, stop)
<1>1. /\ off \in BackendState /\ off.prefs = b.prefs /\ off.has_node_key = b.has_node_key
      /\ off.current_profile = b.current_profile
      /\ off.override_always_on = b.override_always_on
  BY StopType, BumpType, StopEffect, BumpEffect, CacheEffect
<1>2. a = IF stop # "saved" THEN off ELSE reconcile_sys_policy(reset)
  BY DEF activate_profile
<1>3. load_prefs(d, target) \in Prefs
  BY LoadPrefsType
<1> HIDE DEF off
<1>4. /\ new \in BackendState /\ new.current_profile = target
      /\ new.prefs = load_prefs(d, target)
      /\ new.has_node_key = (d.key[target] # 0)
  BY <1>1, <1>3 DEF adopt_profile, BackendState
<1> HIDE DEF new
<1>5. /\ reset \in BackendState /\ reset.current_profile = target
      /\ reset.prefs = load_prefs(d, target)
      /\ reset.has_node_key = (d.key[target] # 0)
  BY <1>4, ResetType, ResetEffect, CacheEffect
<1> HIDE DEF reset
<1>6. /\ e.current = (IF stop = "saved" THEN target ELSE d.current)
      /\ e.prefs = d.prefs /\ e.key = d.key
  BY DEF activate_profile_disk, Disk
<1> HIDE DEF e
<1>7. CASE stop # "saved"
  <2>1. a = off
    BY <1>2, <1>7
  <2>2. QED
    BY <1>1, <1>6, <1>7, <2>1 DEF Keeps, Agree, Gone, Exact, e, a
<1>8. CASE stop = "saved"
  <2>1. a = reconcile_sys_policy(reset)
    BY <1>2, <1>8
  <2>2. /\ a.current_profile = target
        /\ a.has_node_key = (d.key[target] # 0)
        /\ a.prefs.logged_out = load_prefs(d, target).logged_out
        /\ AlwaysOn => a.prefs.want_running \/ a.override_always_on
    BY <1>5, <2>1, ReconcileEffect, ReconcileHolds, CacheEffect
  <2>3. load_prefs(d, target).logged_out
          => d.prefs[target] # None /\ d.prefs[target].logged_out
    BY DEF load_prefs, DefaultPrefs
  <2> HIDE DEF a
  <2>4. Agree(a, e) /\ Exact(a, e)
    BY <1>6, <1>8, <2>2 DEF Agree, Exact
  <2>5. Gone(b, d) => Gone(a, e)
    BY <1>6, <2>2, <2>3 DEF Gone
  <2>6. QED
    BY <2>4, <2>5 DEF Keeps, a, e
<1>9. QED
  BY <1>7, <1>8

(* Clearing the files of a profile that is not the current one.            *)
LEMMA RemoveFilesKeeps ==
  ASSUME NEW b \in BackendState, NEW d \in Disk, NEW target \in Profiles,
         target # b.current_profile
  PROVE  Keeps(b, d, b, remove_profile_files(d, target))
<1> DEFINE e == remove_profile_files(d, target)
<1>1. /\ e.current = d.current
      /\ e.key[b.current_profile] = d.key[b.current_profile]
      /\ \A p \in Profiles : /\ e.prefs[p] \in {d.prefs[p], None}
                             /\ e.key[p] \in {d.key[p], 0}
  BY DEF remove_profile_files, BackendState, Disk
<1> HIDE DEF e
<1>2. QED
  BY <1>1 DEF Keeps, Agree, Gone, Exact, e

LEMMA ResetToEmptyKeeps ==
  ASSUME NEW b \in BackendState, NEW d \in Disk, NEW stop
  PROVE  Keeps(b, d, reset_to_empty_profile(b, stop), reset_to_empty_profile_disk(b, d, stop))
<1> DEFINE off == bump_generation(stop_device(b))
           empty == [off EXCEPT !.prefs = DefaultPrefs, !.ever_configured = FALSE,
                                !.boot_attempted_up = FALSE]
           reset == reset_always_on_override(empty)
           a == reset_to_empty_profile(b, stop)
           e == reset_to_empty_profile_disk(b, d, stop)
<1>1. /\ off \in BackendState /\ off.prefs = b.prefs /\ off.has_node_key = b.has_node_key
      /\ off.current_profile = b.current_profile
      /\ off.override_always_on = b.override_always_on
  BY StopType, BumpType, StopEffect, BumpEffect, CacheEffect
<1>2. a = IF stop = "unsaved" THEN off ELSE reconcile_sys_policy(reset)
  BY DEF reset_to_empty_profile
<1>3. CASE stop = "unsaved"
  <2>1. a = off /\ e = d
    BY <1>2, <1>3 DEF reset_to_empty_profile_disk
  <2>2. QED
    BY <1>1, <2>1, QuietKeeps
<1>4. CASE stop # "unsaved"
  <2> HIDE DEF off
  <2>1. /\ empty \in BackendState /\ ~empty.prefs.logged_out
        /\ empty.has_node_key = b.has_node_key /\ empty.current_profile = b.current_profile
    BY <1>1, DefaultPrefsType DEF BackendState, DefaultPrefs
  <2> HIDE DEF empty
  <2>2. /\ reset \in BackendState /\ ~reset.prefs.logged_out
        /\ reset.has_node_key = b.has_node_key /\ reset.current_profile = b.current_profile
    BY <2>1, ResetType, ResetEffect, CacheEffect
  <2> HIDE DEF reset
  <2>3. /\ ~a.prefs.logged_out /\ a.has_node_key = b.has_node_key
        /\ a.current_profile = b.current_profile
        /\ AlwaysOn => a.prefs.want_running \/ a.override_always_on
    BY <1>2, <1>4, <2>2, ReconcileEffect, ReconcileHolds, CacheEffect
  <2>4. /\ e.current = d.current /\ e.key = d.key
        /\ \A p \in Profiles : e.prefs[p] \in {d.prefs[p], None}
    BY <1>4 DEF reset_to_empty_profile_disk, BackendState, Disk
  <2> HIDE DEF a, e
  <2>5. QED
    BY <2>3, <2>4 DEF Keeps, Agree, Gone, Exact, a, e
<1>5. QED
  BY <1>3, <1>4

-----------------------------------------------------------------------------
(* The tasks that drive the Backend.                                       *)

LEMMA GotoType ==
  ASSUME TypeOK, NEW t \in Tasks, NEW label \in PCs, NEW held \in PendingUp \cup {None},
         Goto(t, label, held)
  PROVE  pc' \in [Tasks -> PCs] /\ pending' \in [Tasks -> PendingUp \cup {None}]
BY DEF Goto, TypeOK

LEMMA BeginUpStep ==
  ASSUME TypeOK, NEW t \in Tasks, NEW opts \in Opts, BeginUp(t, opts)
  PROVE  /\ be' \in BackendState /\ disk' \in Disk /\ minted' \in Nat
         /\ pc' \in [Tasks -> PCs] /\ pending' \in [Tasks -> PendingUp \cup {None}]
         /\ UNCHANGED <<serving, restarts>>
<1>1. PICK stop \in BeginUpStops(opts) :
        LET ok    == stop = "saved" /\ opts.config.fixed \notin BadFixed
            fresh == minted + 1
            b     == begin_up(be, opts, stop, ok)
            d     == begin_up_disk(be, disk, opts, stop, fresh)
        IN  /\ be' = b
            /\ disk' = d
            /\ minted' = IF d.key[b.current_profile] = fresh THEN fresh ELSE minted
            /\ IF ok THEN Goto(t, "handshake", pending_up(b, d)) ELSE Goto(t, "idle", None)
            /\ UNCHANGED <<serving, restarts>>
  BY DEF BeginUp
<1> DEFINE ok == stop = "saved" /\ opts.config.fixed \notin BadFixed
           b  == begin_up(be, opts, stop, ok)
           d  == begin_up_disk(be, disk, opts, stop, minted + 1)
<1>2. be \in BackendState /\ disk \in Disk /\ minted \in Nat /\ ok \in BOOLEAN
  BY DEF TypeOK
<1>3. b \in BackendState
  BY <1>2, BeginUpType
<1>4. d \in Disk
  BY <1>2, BeginUpDiskType
<1>5. pending_up(b, d) \in PendingUp
  BY <1>3, <1>4, PendingType
<1> HIDE DEF b, d, ok
<1>6. IF ok THEN Goto(t, "handshake", pending_up(b, d)) ELSE Goto(t, "idle", None)
  BY <1>1 DEF b, d, ok
<1>7. pc' \in [Tasks -> PCs] /\ pending' \in [Tasks -> PendingUp \cup {None}]
  BY <1>5, <1>6, GotoType DEF PCs
<1>8. be' = b /\ disk' = d /\ minted' \in {minted, minted + 1} /\ UNCHANGED <<serving, restarts>>
  BY <1>1 DEF b, d, ok
<1>9. QED
  BY <1>2, <1>3, <1>4, <1>7, <1>8

LEMMA DefaultOptsType ==
  ASSUME NEW b \in BackendState
  PROVE  DefaultOpts(b) \in Opts
BY DEF DefaultOpts, Opts, BackendState, Prefs
LEMMA InitType == Init => TypeOK
<1> SUFFICES ASSUME Init PROVE TypeOK
  OBVIOUS
<1>1. FreshDisk \in Disk
  BY BackendAssumption DEF FreshDisk, Disk
<1>2. load(disk) \in BackendState
  BY <1>1, LoadType DEF Init
<1>3. QED
  BY <1>1, <1>2 DEF Init, TypeOK, PCs

(* A connection's command keeps every variable in its type.                *)
LEMMA CommandType ==
  ASSUME TypeOK, NEW c \in Clients, Command(c)
  PROVE  TypeOK'
<1>0. be \in BackendState /\ disk \in Disk /\ c \in Tasks
  BY DEF TypeOK, Tasks
<1>1. CASE Up(c)
  <2>1. PICK config \in Settings, force \in BOOLEAN :
          BeginUp(c, [config |-> config, force_reauth |-> force]) /\ UNCHANGED armed
    BY <1>1 DEF Up
  <2>2. [config |-> config, force_reauth |-> force] \in Opts
    BY DEF Opts
  <2>3. QED
    BY <1>0, <2>1, <2>2, BeginUpStep DEF TypeOK
<1>2. CASE Set(c)
  <2>1. PICK config \in Settings, rebuild \in BOOLEAN, applied \in BOOLEAN :
          /\ \E stop \in PersistStops(begin_set_prefs(be, config), disk) :
               LET live == stop = "saved" /\ ~rebuild /\ applied
                   b    == begin_set(be, config, live)
               IN  /\ be' = b
                   /\ disk' = persist_prefs(b, disk, stop)
                   /\ IF stop = "saved" /\ rebuild /\ be.device # None
                        THEN Goto(c, "preflight", None) ELSE Stay
          /\ UNCHANGED <<armed, serving, minted, restarts>>
    BY <1>2 DEF Set
  <2>2. PICK stop \in PersistStops(begin_set_prefs(be, config), disk) :
          LET live == stop = "saved" /\ ~rebuild /\ applied
              b    == begin_set(be, config, live)
          IN  /\ be' = b
              /\ disk' = persist_prefs(b, disk, stop)
              /\ IF stop = "saved" /\ rebuild /\ be.device # None
                   THEN Goto(c, "preflight", None) ELSE Stay
    BY <2>1
  <2> DEFINE live == stop = "saved" /\ ~rebuild /\ applied
  <2>3. begin_set(be, config, live) \in BackendState
    BY <1>0, BeginSetType
  <2>4. be' \in BackendState /\ disk' \in Disk
    BY <1>0, <2>2, <2>3, PersistType
  <2>5. Goto(c, "preflight", None) \/ Stay
    BY <2>2
  <2>6. pc' \in [Tasks -> PCs] /\ pending' \in [Tasks -> PendingUp \cup {None}]
    BY <1>0, <2>5, GotoType DEF Stay, PCs, TypeOK
  <2>7. QED
    BY <2>1, <2>4, <2>6 DEF TypeOK
<1>3. CASE ReloadConfig(c)
  <2>1. PICK config \in Settings, enabled \in BOOLEAN :
          LET b == apply_config(be, enabled, config)
          IN  /\ be' = b
              /\ \E stop \in PersistStops(b, disk) :
                   /\ disk' = persist_prefs(b, disk, stop)
                   /\ IF stop # "saved" \/ be.device = None THEN Stay
                      ELSE Goto(c, reload_action(b), None)
              /\ UNCHANGED <<armed, serving, minted, restarts>>
    BY <1>3 DEF ReloadConfig
  <2> DEFINE b == apply_config(be, enabled, config)
  <2>2. b \in BackendState
    BY <1>0, ApplyConfigType
  <2> HIDE DEF b
  <2>3. /\ be' = b
        /\ \E stop \in PersistStops(b, disk) :
             /\ disk' = persist_prefs(b, disk, stop)
             /\ Stay \/ Goto(c, reload_action(b), None)
        /\ UNCHANGED <<armed, serving, minted, restarts>>
    BY <2>1 DEF b
  <2>4. disk' \in Disk /\ (Stay \/ Goto(c, reload_action(b), None))
    BY <1>0, <2>2, <2>3, PersistType
  <2>5. reload_action(b) \in PCs
    BY DEF reload_action, PCs
  <2>6. pc' \in [Tasks -> PCs] /\ pending' \in [Tasks -> PendingUp \cup {None}]
    BY <1>0, <2>4, <2>5, GotoType DEF Stay, TypeOK
  <2>7. QED
    BY <2>2, <2>3, <2>4, <2>6 DEF TypeOK
<1>4. CASE Down(c)
  <2>1. down(be) \in BackendState
    BY <1>0, DownType
  <2>2. /\ be' = down(be)
        /\ \E stop \in PersistStops(be', disk) : disk' = persist_prefs(be', disk, stop)
        /\ Stay /\ UNCHANGED <<armed, serving, minted, restarts>>
    BY <1>4 DEF Down
  <2>3. disk' \in Disk
    BY <1>0, <2>1, <2>2, PersistType
  <2>4. QED
    BY <2>1, <2>2, <2>3 DEF TypeOK, Stay
<1>5. CASE Logout(c)
  <2>1. PICK stop : /\ be' = logout(be, stop)
                    /\ disk' = logout_disk(be, disk, stop)
                    /\ Stay /\ UNCHANGED <<armed, serving, minted, restarts>>
    BY <1>5 DEF Logout
  <2>2. be' \in BackendState /\ disk' \in Disk
    BY <1>0, <2>1, LogoutType, LogoutDiskType
  <2>3. QED
    BY <2>1, <2>2 DEF TypeOK, Stay
<1>6. ASSUME NEW d \in Disk, NEW target \in Profiles, NEW register \in BOOLEAN,
             Activate(d, target, register)
      PROVE  TypeOK'
  <2>1. PICK stop : /\ be' = activate_profile(be, d, target, stop)
                    /\ disk' = activate_profile_disk(d, target, register, stop)
                    /\ Stay /\ UNCHANGED <<armed, serving, minted, restarts>>
    BY <1>6 DEF Activate
  <2>2. be' \in BackendState /\ disk' \in Disk
    BY <1>0, <2>1, ActivateType, ActivateDiskType
  <2>3. QED
    BY <2>1, <2>2 DEF TypeOK, Stay
<1>7. CASE SwitchProfile(c)
  <2>1. PICK target \in disk.listed \cup {default} : Activate(disk, target, TRUE)
    BY <1>7 DEF SwitchProfile
  <2>2. target \in Profiles
    BY <1>0, BackendAssumption DEF Disk
  <2>3. QED
    BY <1>0, <1>6, <2>1, <2>2
<1>8. CASE CreateProfile(c)
  <2>1. PICK target \in Profiles : Activate(disk, target, TRUE)
    BY <1>8 DEF CreateProfile
  <2>2. QED
    BY <1>0, <1>6, <2>1
<1>9. CASE SwitchToEmptyProfile(c)
  <2>1. PICK target \in Profiles : Activate(remove_profile_files(disk, target), target, FALSE)
    BY <1>9 DEF SwitchToEmptyProfile
  <2>2. remove_profile_files(disk, target) \in Disk
    BY <1>0, RemoveFilesType
  <2>3. QED
    BY <1>6, <2>1, <2>2
<1>10. CASE ResetToEmptyProfile(c)
  <2>1. PICK stop : /\ be' = reset_to_empty_profile(be, stop)
                    /\ disk' = reset_to_empty_profile_disk(be, disk, stop)
                    /\ Stay /\ UNCHANGED <<armed, serving, minted, restarts>>
    BY <1>10 DEF ResetToEmptyProfile
  <2>2. be' \in BackendState /\ disk' \in Disk
    BY <1>0, <2>1, ResetToEmptyType, ResetToEmptyDiskType
  <2>3. QED
    BY <2>1, <2>2 DEF TypeOK, Stay
<1>11. CASE DeleteProfile(c)
  <2>1. PICK target \in Profiles, listed \in BOOLEAN :
          /\ disk' = [remove_profile_files(disk, target) EXCEPT
                        !.listed = IF listed THEN @ ELSE @ \ {target}]
          /\ Stay /\ UNCHANGED <<be, armed, serving, minted, restarts>>
    BY <1>0, <1>11 DEF DeleteProfile, Disk
  <2>2. remove_profile_files(disk, target) \in Disk
    BY <1>0, RemoveFilesType
  <2>3. disk' \in Disk
    BY <2>1, <2>2 DEF Disk
  <2>4. QED
    BY <2>1, <2>3 DEF TypeOK, Stay
<1>12. QED
  BY <1>1, <1>2, <1>3, <1>4, <1>5, <1>7, <1>8, <1>9, <1>10, <1>11 DEF Command

LEMMA ProceedType ==
  ASSUME TypeOK, NEW t \in Tasks, Proceed(t)
  PROVE  TypeOK'
<1>0. be \in BackendState /\ disk \in Disk
  BY DEF TypeOK
<1>1. CASE BuildDevice(t)
  BY <1>1 DEF BuildDevice, TypeOK, PCs
<1>2. CASE FinishUp(t)
  <2> DEFINE built == pc[t] = "built"
             b     == finish_up(be, pending[t], built)
  <2>1. pending[t] \in PendingUp \cup {None} /\ built \in BOOLEAN
    BY DEF TypeOK
  <2>2. b \in BackendState
    BY <1>0, <2>1, FinishUpType
  <2>3. /\ be' = b
        /\ Goto(t, "settle", pending[t]) \/ Goto(t, "idle", None)
        /\ disk' = disk \/ \E stop \in PersistStops(b, disk) : disk' = persist_prefs(b, disk, stop)
        /\ UNCHANGED <<armed, serving, minted, restarts>>
    BY <1>2 DEF FinishUp
  <2> HIDE DEF b
  <2>4. disk' \in Disk
    BY <1>0, <2>2, <2>3, PersistType
  <2>5. pc' \in [Tasks -> PCs] /\ pending' \in [Tasks -> PendingUp \cup {None}]
    BY <2>1, <2>3, GotoType DEF PCs
  <2>6. QED
    BY <2>2, <2>3, <2>4, <2>5 DEF TypeOK
<1>3. CASE ShutdownOrphan(t)
  <2>1. pc' \in [Tasks -> PCs] /\ pending' \in [Tasks -> PendingUp \cup {None}]
    BY <1>3, GotoType DEF ShutdownOrphan, PCs
  <2>2. QED
    BY <1>3, <2>1 DEF ShutdownOrphan, TypeOK
<1>4. CASE Preflight(t)
  <2>1. minted + 1 \in Nat /\ minted' \in Nat
    BY <1>4 DEF Preflight, TypeOK
  <2>2. disk' \in Disk
    BY <1>0, <1>4, <2>1, KeyFileType DEF Preflight
  <2>3. Goto(t, "rebegin", None) \/ Goto(t, "idle", None)
    BY <1>4 DEF Preflight
  <2>4. pc' \in [Tasks -> PCs] /\ pending' \in [Tasks -> PendingUp \cup {None}]
    BY <2>3, GotoType DEF PCs
  <2>5. QED
    BY <1>4, <2>1, <2>2, <2>4 DEF Preflight, TypeOK
<1>5. CASE Rebegin(t)
  BY <1>0, <1>5, BeginUpStep, DefaultOptsType DEF Rebegin, TypeOK
<1>6. CASE BringDown(t)
  <2>1. down(be) \in BackendState
    BY <1>0, DownType
  <2>2. disk' \in Disk
    BY <1>0, <1>6, <2>1, PersistType DEF BringDown
  <2>3. pc' \in [Tasks -> PCs] /\ pending' \in [Tasks -> PendingUp \cup {None}]
    BY <1>6, GotoType DEF BringDown, PCs
  <2>4. QED
    BY <1>6, <2>1, <2>2, <2>3 DEF BringDown, TypeOK
<1>7. CASE DriveUp(t)
  <2>1. BeginUp(t, DefaultOpts(be)) /\ armed' \in {None, armed}
    BY <1>7 DEF DriveUp
  <2>2. QED
    BY <1>0, <2>1, BeginUpStep, DefaultOptsType DEF TypeOK
<1>8. QED
  BY <1>1, <1>2, <1>3, <1>4, <1>5, <1>6, <1>7 DEF Proceed

(* The bring-up auto_start runs before the socket is served.               *)
LEMMA AutoStartType ==
  ASSUME TypeOK, AutoStart
  PROVE  TypeOK'
<1> DEFINE boot == [be EXCEPT !.boot_attempted_up = TRUE]
           opts == DefaultOpts(be)
<1>0. /\ be \in BackendState /\ disk \in Disk /\ minted \in Nat /\ minted + 1 \in Nat
      /\ serving' = TRUE /\ UNCHANGED <<pc, pending, armed, restarts>>
  BY DEF TypeOK, AutoStart
<1>1. boot \in BackendState /\ opts \in Opts
  BY <1>0, DefaultOptsType DEF BackendState
<1>2. CASE ~wants_running(be)
  BY <1>0, <1>2 DEF AutoStart, TypeOK
<1>3. CASE wants_running(be)
  <2>1. PICK stop \in BeginUpStops(opts), built \in BOOLEAN :
          LET ok    == stop = "saved" /\ opts.config.fixed \notin BadFixed
              fresh == minted + 1
              begun == begin_up(boot, opts, stop, ok)
              d     == begin_up_disk(boot, disk, opts, stop, fresh)
              b     == IF ok THEN finish_up(begun, pending_up(begun, d), built) ELSE begun
          IN  /\ be' = b
              /\ minted' = IF d.key[b.current_profile] = fresh THEN fresh ELSE minted
              /\ IF ok /\ built
                   THEN \E last \in PersistStops(b, d) : disk' = persist_prefs(b, d, last)
                   ELSE disk' = d
    BY <1>3 DEF AutoStart
  <2> DEFINE ok    == stop = "saved" /\ opts.config.fixed \notin BadFixed
             begun == begin_up(boot, opts, stop, ok)
             d     == begin_up_disk(boot, disk, opts, stop, minted + 1)
             b     == IF ok THEN finish_up(begun, pending_up(begun, d), built) ELSE begun
  <2> HIDE DEF boot, opts
  <2>2. begun \in BackendState /\ d \in Disk
    BY <1>0, <1>1, BeginUpType, BeginUpDiskType
  <2>3. pending_up(begun, d) \in PendingUp
    BY <2>2, PendingType
  <2>4. b \in BackendState
    BY <2>2, <2>3, FinishUpType
  <2>5. /\ be' = b /\ minted' \in {minted, minted + 1}
        /\ disk' = d \/ \E last : disk' = persist_prefs(b, d, last)
    BY <2>1
  <2> HIDE DEF begun, d, b, ok
  <2>6. disk' \in Disk
    BY <2>2, <2>4, <2>5, PersistType
  <2>7. QED
    BY <1>0, <2>4, <2>5, <2>6 DEF TypeOK
<1>4. QED
  BY <1>2, <1>3

(* Every step keeps every variable in its type.                            *)
LEMMA NextType ==
  ASSUME TypeOK, [Next]_vars
  PROVE  TypeOK'
<1>0. be \in BackendState /\ disk \in Disk /\ minted \in Nat
  BY DEF TypeOK
<1>1. CASE \E c \in Clients : Command(c)
  BY <1>1, CommandType
<1>2. CASE \E t \in Tasks : Proceed(t)
  BY <1>2, ProceedType
<1>3. CASE ReadArming
  BY <1>3 DEF ReadArming, TypeOK, BackendState
<1>4. CASE ReconnectNow
  <2>1. be' \in BackendState
    BY <1>0, <1>4, AfterClaimType DEF ReconnectNow
  <2>2. Goto(Reconnector, "begin", None) \/ Stay
    BY <1>4 DEF ReconnectNow
  <2>3. pc' \in [Tasks -> PCs] /\ pending' \in [Tasks -> PendingUp \cup {None}]
    BY <2>2, GotoType DEF Stay, Tasks, PCs, TypeOK
  <2>4. armed' \in ReconnectTimer \cup {None} /\ UNCHANGED <<disk, serving, minted, restarts>>
    BY <1>4 DEF ReconnectNow, TypeOK
  <2>5. QED
    BY <2>1, <2>3, <2>4 DEF TypeOK
<1>5. CASE ReconcileOnReload
  <2>1. /\ Goto(Sighup, "begin", None)
        /\ UNCHANGED <<be, disk, armed, serving, minted, restarts>>
    BY <1>5 DEF ReconcileOnReload
  <2>2. pc' \in [Tasks -> PCs] /\ pending' \in [Tasks -> PendingUp \cup {None}]
    BY <2>1, GotoType DEF Tasks, PCs
  <2>3. QED
    BY <2>1, <2>2 DEF TypeOK
<1>6. CASE AutoStart
  BY <1>6, AutoStartType
<1>7. CASE Crash
  <2>1. be' \in BackendState /\ disk' \in Disk /\ minted' \in Nat
    BY <1>0, <1>7, LoadType DEF Crash
  <2>2. pc' \in [Tasks -> PCs] /\ pending' \in [Tasks -> PendingUp \cup {None}]
    BY <1>7 DEF Crash, PCs
  <2>3. armed' = None /\ serving' = FALSE /\ restarts' \in Nat
    BY <1>7 DEF Crash, TypeOK
  <2>4. QED
    BY <2>1, <2>2, <2>3 DEF TypeOK
<1>8. CASE UNCHANGED vars
  BY <1>8 DEF vars, TypeOK
<1>9. QED
  BY <1>1, <1>2, <1>3, <1>4, <1>5, <1>6, <1>7, <1>8 DEF Next

(* Type correctness: no sequence of commands, failed writes, crashes and   *)
(* handshakes takes the backend, the state directory or a task's PendingUp *)
(* out of its type.                                                        *)
THEOREM TypeCorrect == Spec => []TypeOK
BY InitType, NextType, PTL DEF Spec
----------------------------------------------------------------------------
(* The generation guard.  Whatever a step does, it does one of five things *)
(* to the attempts in flight and to the engine; each keeps the invariant.  *)

(* A running engine belongs, and boot has no task and no engine yet.       *)
DeviceGuard == Live => Belongs(be.device)

BootGuard == ~serving => ~Live /\ \A t \in Tasks : pc[t] = "idle"

IInv == TypeOK /\ AttemptGuard /\ DeviceGuard /\ BootGuard

(* No attempt enters its handshake, none changes what it holds.            *)
KeepsAttempts(T) == \A t \in T : InFlight(t)' => InFlight(t) /\ pending'[t] = pending[t]

(* The engine is left alone or stopped, and what belonged still does.      *)
Undisturbed ==
  /\ KeepsAttempts(Tasks)
  /\ be'.generation = be.generation
  /\ be'.current_profile = be.current_profile
  /\ Live' => /\ Live
              /\ be'.device.profile = be.device.profile
              /\ be'.device.key = be.device.key
              /\ be'.device.generation = be.device.generation
  /\ \A p \in PendingUp : Belongs(p) => Belongs(p)'

(* The engine is stopped and every attempt in flight superseded.           *)
Supersedes ==
  /\ KeepsAttempts(Tasks)
  /\ be'.generation > be.generation
  /\ ~Live'

(* ... and a new attempt begins, which belongs.                            *)
Begins(t) ==
  /\ KeepsAttempts(Tasks \ {t})
  /\ be'.generation > be.generation
  /\ ~Live'
  /\ pending'[t] \in PendingUp
  /\ pending'[t].generation = be'.generation
  /\ Belongs(pending[t])'

(* An engine that belongs is installed where there was none.               *)
Installs ==
  /\ KeepsAttempts(Tasks)
  /\ be'.generation > be.generation
  /\ ~Live
  /\ Belongs(be.device)'
  /\ be'.current_profile = be.current_profile
  /\ LET k == disk.key[be.current_profile]
     IN  "force-reauth" \notin Commands /\ k # 0 => disk'.key[be.current_profile] = k

(* The daemon restarts.                                                    *)
Restarts == ~Live' /\ \A t \in Tasks : pc'[t] = "idle"

Class == Undisturbed \/ Supersedes \/ (\E t \in Tasks : Begins(t)) \/ Installs \/ Restarts

(* Each class of step keeps the guards.                                    *)
LEMMA ClassKeepsGuards ==
  ASSUME IInv, TypeOK', Class
  PROVE  AttemptGuard' /\ DeviceGuard'
<1>0. /\ be.generation \in Nat /\ be'.generation \in Nat
      /\ be.device \in PendingUp \cup {None} /\ be'.device \in PendingUp \cup {None}
      /\ pending \in [Tasks -> PendingUp \cup {None}]
      /\ pending' \in [Tasks -> PendingUp \cup {None}]
  BY DEF IInv, TypeOK, BackendState
<1>1. ASSUME NEW t \in Tasks, InFlight(t)', InFlight(t), pending'[t] = pending[t],
             be'.generation > be.generation
      PROVE  /\ pending'[t] \in PendingUp
             /\ pending'[t].generation <= be'.generation
             /\ superseded(be', pending'[t])
  <2>1. pending[t] \in PendingUp /\ pending[t].generation <= be.generation
    BY <1>1 DEF IInv, AttemptGuard
  <2>2. pending[t].generation \in Nat
    BY <2>1 DEF PendingUp
  <2>3. QED
    BY <1>0, <1>1, <2>1, <2>2 DEF superseded
<1>2. CASE Undisturbed
  <2>1. ASSUME NEW t \in Tasks, InFlight(t)'
        PROVE  /\ pending'[t] \in PendingUp
               /\ pending'[t].generation <= be'.generation
               /\ ~superseded(be', pending'[t]) => ~Live' /\ Belongs(pending[t])'
    <3>1. InFlight(t) /\ pending'[t] = pending[t]
      BY <1>2, <2>1 DEF Undisturbed, KeepsAttempts
    <3>2. /\ pending[t] \in PendingUp
          /\ pending[t].generation <= be.generation
          /\ ~superseded(be, pending[t]) => ~Live /\ Belongs(pending[t])
      BY <3>1 DEF IInv, AttemptGuard
    <3>3. Belongs(pending[t]) => Belongs(pending[t])'
      BY <1>2, <3>1, <3>2 DEF Undisturbed, Belongs
    <3>4. QED
      BY <1>2, <3>1, <3>2, <3>3 DEF Undisturbed, superseded
  <2>2. DeviceGuard'
    <3>1. SUFFICES ASSUME Live' PROVE Belongs(be.device)'
      BY DEF DeviceGuard
    <3>2. Live /\ be.device \in PendingUp /\ Belongs(be.device)
      BY <1>0, <1>2, <3>1 DEF Undisturbed, IInv, DeviceGuard, Live
    <3>3. QED
      BY <1>2, <3>1, <3>2 DEF Undisturbed, Belongs
  <2>3. QED
    BY <2>1, <2>2 DEF AttemptGuard
<1>3. CASE Supersedes
  <2>1. DeviceGuard'
    BY <1>3 DEF Supersedes, DeviceGuard
  <2>2. QED
    BY <1>1, <1>3, <2>1 DEF Supersedes, KeepsAttempts, AttemptGuard
<1>4. ASSUME NEW t \in Tasks, Begins(t)
      PROVE  AttemptGuard' /\ DeviceGuard'
  <2>1. DeviceGuard'
    BY <1>4 DEF Begins, DeviceGuard
  <2>2. ASSUME NEW u \in Tasks, InFlight(u)'
        PROVE  /\ pending'[u] \in PendingUp
               /\ pending'[u].generation <= be'.generation
               /\ ~superseded(be', pending'[u]) => ~Live' /\ Belongs(pending[u])'
    <3>1. CASE u = t
      <4>1. /\ pending'[u] \in PendingUp /\ pending'[u].generation = be'.generation
            /\ ~Live' /\ Belongs(pending[u])'
        BY <1>4, <3>1 DEF Begins
      <4>2. QED
        BY <1>0, <4>1
    <3>2. CASE u # t
      <4>1. InFlight(u) /\ pending'[u] = pending[u] /\ be'.generation > be.generation
        BY <1>4, <2>2, <3>2 DEF Begins, KeepsAttempts
      <4>2. QED
        BY <1>1, <2>2, <4>1
    <3>3. QED
      BY <3>1, <3>2
  <2>3. QED
    BY <2>1, <2>2 DEF AttemptGuard
<1>5. CASE Installs
  <2>1. DeviceGuard'
    BY <1>5 DEF Installs, DeviceGuard
  <2>2. QED
    BY <1>1, <1>5, <2>1 DEF Installs, KeepsAttempts, AttemptGuard
<1>6. CASE Restarts
  BY <1>6 DEF Restarts, AttemptGuard, DeviceGuard, InFlight
<1>7. QED
  BY <1>2, <1>3, <1>4, <1>5, <1>6 DEF Class

----------------------------------------------------------------------------
(* Which class each action is in.                                          *)

LEMMA GotoKeeps ==
  ASSUME TypeOK, NEW t \in Tasks, NEW label, NEW held, Goto(t, label, held)
  PROVE  /\ KeepsAttempts(Tasks \ {t})
         /\ label \notin {"handshake", "built", "failed"} => KeepsAttempts(Tasks)
BY DEF Goto, KeepsAttempts, InFlight, TypeOK

LEMMA StayKeeps == Stay => KeepsAttempts(Tasks)
BY DEF Stay, KeepsAttempts, InFlight

(* A step that leaves the backend's generation, profile and intent, and    *)
(* the key it finds, is quiet.                                             *)
LEMMA QuietStep ==
  ASSUME KeepsAttempts(Tasks),
         be'.generation = be.generation,
         be'.current_profile = be.current_profile,
         "reload-config" \notin Commands /\ wants_running(be) => wants_running(be'),
         LET k == disk.key[be.current_profile]
         IN  "force-reauth" \notin Commands /\ k # 0 => disk'.key[be.current_profile] = k,
         be'.device # None => /\ be.device # None
                              /\ be'.device.profile = be.device.profile
                              /\ be'.device.key = be.device.key
                              /\ be'.device.generation = be.device.generation
  PROVE  Undisturbed
<1>1. \A p \in PendingUp : Belongs(p) => Belongs(p)'
  BY DEF Belongs, wants_running
<1>2. QED
  BY <1>1 DEF Undisturbed, Live

(* begin_up either hands out an attempt that belongs, having superseded    *)
(* every other, or leaves the attempts in flight as they were.             *)
LEMMA BeginUpClass ==
  ASSUME TypeOK, NEW t \in Tasks, NEW opts \in Opts, BeginUp(t, opts),
         opts.force_reauth => "force-reauth" \in Commands
  PROVE  Class
<1>1. PICK stop \in BeginUpStops(opts) :
        LET ok    == stop = "saved" /\ opts.config.fixed \notin BadFixed
            fresh == minted + 1
            b     == begin_up(be, opts, stop, ok)
            d     == begin_up_disk(be, disk, opts, stop, fresh)
        IN  /\ be' = b
            /\ disk' = d
            /\ IF ok THEN Goto(t, "handshake", pending_up(b, d)) ELSE Goto(t, "idle", None)
  BY DEF BeginUp
<1> DEFINE ok == stop = "saved" /\ opts.config.fixed \notin BadFixed
           b  == begin_up(be, opts, stop, ok)
           d  == begin_up_disk(be, disk, opts, stop, minted + 1)
           p  == be.current_profile
<1>2. /\ be \in BackendState /\ disk \in Disk /\ ok \in BOOLEAN
      /\ minted + 1 \in Nat \ {0} /\ be.generation \in Nat
      /\ ok => stop = "saved"
  BY DEF TypeOK, BackendState
<1> HIDE DEF ok
<1>3. /\ b \in BackendState
      /\ b.current_profile = p
      /\ stop = "refused" => b = be
      /\ stop # "refused" => b.device = None
      /\ b.generation = IF ok THEN be.generation + 1 ELSE be.generation
      /\ wants_running(be) => wants_running(b)
      /\ ok => wants_running(b)
  BY <1>2, BeginUpType, BeginUpEffect
<1>4. /\ d \in Disk
      /\ ~opts.force_reauth /\ disk.key[p] # 0 => d.key[p] = disk.key[p]
      /\ stop = "saved" => d.key[p] # 0
  BY <1>2, BeginUpDiskType, BeginUpDiskEffect
<1>5. pending_up(b, d) \in PendingUp
  BY <1>3, <1>4, PendingType
<1>6. be' = b /\ disk' = d
  BY <1>1 DEF ok
<1>7. IF ok THEN Goto(t, "handshake", pending_up(b, d)) ELSE Goto(t, "idle", None)
  BY <1>1 DEF ok
<1>8. CASE ok
  <2>1. stop = "saved"
    BY <1>2, <1>8
  <2> HIDE DEF b, d
  <2>2. KeepsAttempts(Tasks \ {t}) /\ pending'[t] = pending_up(b, d)
    BY <1>7, <1>8, GotoKeeps DEF Goto, TypeOK
  <2>3. Belongs(pending[t])'
    BY <1>3, <1>4, <1>6, <1>8, <2>1, <2>2 DEF Belongs, pending_up
  <2>4. be'.generation > be.generation /\ ~Live'
    BY <1>2, <1>3, <1>6, <1>8, <2>1 DEF Live
  <2>5. pending'[t].generation = be'.generation
    BY <1>6, <2>2 DEF pending_up
  <2>6. QED
    BY <1>5, <2>2, <2>3, <2>4, <2>5 DEF Begins, Class
<1>9. CASE ~ok
  <2> HIDE DEF b, d
  <2>1. KeepsAttempts(Tasks)
    BY <1>7, <1>9, GotoKeeps, "idle" \notin {"handshake", "built", "failed"}
  <2>2. be'.generation = be.generation /\ be'.current_profile = be.current_profile
    BY <1>3, <1>6, <1>9
  <2>3. wants_running(be) => wants_running(be')
    BY <1>3, <1>6
  <2>4. "force-reauth" \notin Commands /\ disk.key[p] # 0 => disk'.key[p] = disk.key[p]
    BY <1>4, <1>6
  <2>5. be'.device # None => be' = be
    BY <1>3, <1>6
  <2>6. Undisturbed
    BY <2>1, <2>2, <2>3, <2>4, <2>5, QuietStep
  <2>7. QED
    BY <2>6 DEF Class
<1>10. QED
  BY <1>8, <1>9

LEMMA CommandClass ==
  ASSUME TypeOK, NEW c \in Clients, Command(c)
  PROVE  Class
<1> DEFINE p == be.current_profile
<1>0. be \in BackendState /\ disk \in Disk /\ c \in Tasks /\ be.generation \in Nat
  BY DEF TypeOK, Tasks, BackendState
<1>1. CASE Up(c)
  <2>1. PICK config \in Settings, force \in BOOLEAN :
          /\ force => "force-reauth" \in Commands
          /\ BeginUp(c, [config |-> config, force_reauth |-> force])
    BY <1>1 DEF Up
  <2>2. [config |-> config, force_reauth |-> force] \in Opts
    BY DEF Opts
  <2>3. QED
    BY <1>0, <2>1, <2>2, BeginUpClass
<1>2. CASE Set(c)
  <2>1. PICK config \in Settings, live \in BOOLEAN :
          /\ be' = begin_set(be, config, live)
          /\ \E stop : disk' = persist_prefs(begin_set(be, config, live), disk, stop)
          /\ Goto(c, "preflight", None) \/ Stay
    BY <1>2 DEF Set
  <2>2. /\ be' \in BackendState
        /\ be'.generation = be.generation /\ be'.current_profile = p
        /\ wants_running(be) => wants_running(be')
        /\ be.device = None => be'.device = None
        /\ be.device # None => /\ be'.device.profile = be.device.profile
                               /\ be'.device.key = be.device.key
                               /\ be'.device.generation = be.device.generation
    BY <1>0, <2>1, BeginSetType, BeginSetEffect
  <2>3. disk'.key = disk.key
    BY <1>0, <2>1, <2>2, PersistEffect
  <2>4. KeepsAttempts(Tasks)
    BY <1>0, <2>1, GotoKeeps, StayKeeps, "preflight" \notin {"handshake", "built", "failed"}
  <2>5. Undisturbed
    BY <2>2, <2>3, <2>4, QuietStep
  <2>6. QED
    BY <2>5 DEF Class
<1>3. CASE ReloadConfig(c)
  <2>1. PICK config \in Settings, enabled \in BOOLEAN :
          /\ "reload-config" \in Commands
          /\ be' = apply_config(be, enabled, config)
          /\ \E stop : disk' = persist_prefs(apply_config(be, enabled, config), disk, stop)
          /\ Goto(c, reload_action(apply_config(be, enabled, config)), None) \/ Stay
    BY <1>3 DEF ReloadConfig, Issue
  <2>2. /\ be' \in BackendState
        /\ be'.device = be.device /\ be'.generation = be.generation /\ be'.current_profile = p
    BY <1>0, <2>1, ApplyConfigType, ApplyConfigEffect
  <2>3. disk'.key = disk.key
    BY <1>0, <2>1, <2>2, PersistEffect
  <2>4. reload_action(be') \notin {"handshake", "built", "failed"}
    BY DEF reload_action
  <2>5. KeepsAttempts(Tasks)
    BY <1>0, <2>1, <2>4, GotoKeeps, StayKeeps
  <2>6. Undisturbed
    BY <2>1, <2>2, <2>3, <2>5, QuietStep
  <2>7. QED
    BY <2>6 DEF Class
<1>4. ASSUME Stay, be'.device = None, be'.generation = be.generation + 1
      PROVE  Class
  <2>1. KeepsAttempts(Tasks)
    BY <1>4, StayKeeps
  <2>2. Supersedes
    BY <1>0, <1>4, <2>1 DEF Supersedes, Live
  <2>3. QED
    BY <2>2 DEF Class
<1>5. CASE Down(c)
  BY <1>0, <1>4, <1>5, DownEffect DEF Down
<1>6. CASE Logout(c)
  BY <1>0, <1>4, <1>6, LogoutEffect DEF Logout
<1>7. ASSUME NEW d \in Disk, NEW target \in Profiles, NEW register, Activate(d, target, register)
      PROVE  Class
  BY <1>0, <1>4, <1>7, ActivateEffect DEF Activate
<1>8. CASE SwitchProfile(c) \/ CreateProfile(c)
  <2>1. PICK target \in Profiles : Activate(disk, target, TRUE)
    BY <1>0, <1>8, BackendAssumption DEF SwitchProfile, CreateProfile, Disk
  <2>2. QED
    BY <1>0, <1>7, <2>1
<1>9. CASE SwitchToEmptyProfile(c)
  <2>1. PICK target \in Profiles : Activate(remove_profile_files(disk, target), target, FALSE)
    BY <1>9 DEF SwitchToEmptyProfile
  <2>2. remove_profile_files(disk, target) \in Disk
    BY <1>0, RemoveFilesType
  <2>3. QED
    BY <1>7, <2>1, <2>2
<1>10. CASE ResetToEmptyProfile(c)
  BY <1>0, <1>4, <1>10, ResetToEmptyEffect DEF ResetToEmptyProfile
<1>11. CASE DeleteProfile(c)
  <2>1. PICK target \in Profiles \ {p}, listed \in BOOLEAN :
          /\ disk' = [remove_profile_files(disk, target) EXCEPT
                        !.listed = IF listed THEN @ ELSE @ \ {target}]
          /\ Stay /\ UNCHANGED be
    BY <1>0, <1>11 DEF DeleteProfile, Disk
  <2>2. disk'.key[p] = disk.key[p]
    BY <1>0, <2>1 DEF remove_profile_files, Disk, BackendState
  <2>3. Undisturbed
    BY <2>1, <2>2, StayKeeps, QuietStep
  <2>4. QED
    BY <2>3 DEF Class
<1>12. QED
  BY <1>1, <1>2, <1>3, <1>5, <1>6, <1>8, <1>9, <1>10, <1>11 DEF Command

LEMMA ProceedClass ==
  ASSUME IInv, NEW t \in Tasks, Proceed(t)
  PROVE  Class
<1> DEFINE p == be.current_profile
           away == {"handshake", "built", "failed"}
<1>0. TypeOK /\ be \in BackendState /\ disk \in Disk /\ be.generation \in Nat
  BY DEF IInv, TypeOK, BackendState
<1>1. ASSUME KeepsAttempts(Tasks), be' = be,
             disk.key[p] # 0 => disk'.key[p] = disk.key[p]
      PROVE  Class
  <2>1. Undisturbed
    BY <1>1, QuietStep
  <2>2. QED
    BY <2>1 DEF Class
<1>2. CASE BuildDevice(t)
  <2>1. KeepsAttempts(Tasks)
    BY <1>0, <1>2 DEF BuildDevice, KeepsAttempts, InFlight, TypeOK
  <2>2. QED
    BY <1>1, <1>2, <2>1 DEF BuildDevice
<1>3. CASE FinishUp(t)
  <2> DEFINE built == pc[t] = "built"
             b     == finish_up(be, pending[t], built)
  <2>1. /\ InFlight(t)
        /\ be' = b
        /\ Goto(t, "settle", pending[t]) \/ Goto(t, "idle", None)
        /\ disk' = disk \/ \E stop : disk' = persist_prefs(b, disk, stop)
    BY <1>3 DEF FinishUp, InFlight
  <2>2. /\ pending[t] \in PendingUp /\ built \in BOOLEAN
        /\ ~superseded(be, pending[t]) => ~Live /\ Belongs(pending[t])
    BY <2>1 DEF IInv, AttemptGuard
  <2>3. KeepsAttempts(Tasks)
    BY <1>0, <2>1, GotoKeeps, "settle" \notin away, "idle" \notin away
  <2>4. b \in BackendState
    BY <1>0, <2>2, FinishUpType
  <2>5. /\ superseded(be, pending[t]) \/ ~built => b = be
        /\ ~superseded(be, pending[t]) /\ built =>
             b.device = pending[t] /\ b.generation = be.generation + 1
        /\ b.current_profile = p
        /\ wants_running(be) => wants_running(b)
    BY <1>0, <2>2, FinishUpEffect
  <2> HIDE DEF b
  <2>6. disk'.key = disk.key
    BY <1>0, <2>1, <2>4, PersistEffect
  <2>7. CASE superseded(be, pending[t]) \/ ~built
    BY <1>1, <2>1, <2>3, <2>5, <2>6, <2>7
  <2>8. CASE ~superseded(be, pending[t]) /\ built
    <3>1. be'.device = pending[t] /\ be'.generation = be.generation + 1 /\ be'.current_profile = p
      BY <2>1, <2>5, <2>8
    <3>2. Belongs(be.device)'
      BY <2>1, <2>2, <2>5, <2>6, <2>8, <3>1 DEF Belongs, wants_running
    <3>3. Installs
      BY <1>0, <2>2, <2>3, <2>6, <2>8, <3>1, <3>2 DEF Installs
    <3>4. QED
      BY <3>3 DEF Class
  <2>9. QED
    BY <2>7, <2>8
<1>4. CASE ShutdownOrphan(t)
  <2>1. KeepsAttempts(Tasks)
    BY <1>0, <1>4, GotoKeeps, "idle" \notin away DEF ShutdownOrphan
  <2>2. QED
    BY <1>1, <1>4, <2>1 DEF ShutdownOrphan
<1>5. CASE Preflight(t)
  <2>1. Goto(t, "rebegin", None) \/ Goto(t, "idle", None)
    BY <1>5 DEF Preflight
  <2>2. KeepsAttempts(Tasks)
    BY <1>0, <2>1, GotoKeeps, "rebegin" \notin away, "idle" \notin away
  <2>3. minted + 1 \in Nat \ {0}
    BY <1>0 DEF TypeOK
  <2>4. disk.key[p] # 0 => disk'.key[p] = disk.key[p]
    BY <1>0, <1>5, <2>3, LoadKeyEffect DEF Preflight
  <2>5. QED
    BY <1>1, <1>5, <2>2, <2>4 DEF Preflight
<1>6. CASE Rebegin(t) \/ DriveUp(t)
  <2>1. BeginUp(t, DefaultOpts(be))
    BY <1>6 DEF Rebegin, DriveUp
  <2>2. DefaultOpts(be) \in Opts /\ ~DefaultOpts(be).force_reauth
    BY <1>0, DefaultOptsType DEF DefaultOpts
  <2>3. QED
    BY <1>0, <2>1, <2>2, BeginUpClass
<1>7. CASE BringDown(t)
  <2>1. KeepsAttempts(Tasks)
    BY <1>0, <1>7, GotoKeeps, "idle" \notin away DEF BringDown
  <2>2. be'.device = None /\ be'.generation = be.generation + 1
    BY <1>0, <1>7, DownEffect DEF BringDown
  <2>3. Supersedes
    BY <1>0, <2>1, <2>2 DEF Supersedes, Live
  <2>4. QED
    BY <2>3 DEF Class
<1>8. QED
  BY <1>2, <1>3, <1>4, <1>5, <1>6, <1>7 DEF Proceed

LEMMA AutoStartClass ==
  ASSUME IInv, AutoStart
  PROVE  Class
<1> DEFINE boot == [be EXCEPT !.boot_attempted_up = TRUE]
           opts == DefaultOpts(be)
           p    == be.current_profile
<1>0. /\ TypeOK /\ be \in BackendState /\ disk \in Disk /\ be.generation \in Nat
      /\ minted + 1 \in Nat \ {0} /\ ~Live /\ be.device = None /\ Stay
  BY DEF IInv, TypeOK, BackendState, BootGuard, Live, AutoStart, Stay
<1>1. /\ boot \in BackendState /\ opts \in Opts /\ ~opts.force_reauth
      /\ boot.device = None /\ boot.generation = be.generation
      /\ boot.current_profile = p /\ boot.prefs = be.prefs
  BY <1>0, DefaultOptsType DEF BackendState, DefaultOpts
<1>2. KeepsAttempts(Tasks)
  BY <1>0, StayKeeps
<1>3. CASE ~wants_running(be)
  <2>1. be' = be /\ disk' = disk
    BY <1>3 DEF AutoStart
  <2>2. Undisturbed
    BY <1>2, <2>1, QuietStep
  <2>3. QED
    BY <2>2 DEF Class
<1>4. CASE wants_running(be)
  <2>1. PICK stop \in BeginUpStops(opts), built \in BOOLEAN :
          LET ok    == stop = "saved" /\ opts.config.fixed \notin BadFixed
              fresh == minted + 1
              begun == begin_up(boot, opts, stop, ok)
              d     == begin_up_disk(boot, disk, opts, stop, fresh)
              b     == IF ok THEN finish_up(begun, pending_up(begun, d), built) ELSE begun
          IN  /\ be' = b
              /\ IF ok /\ built
                   THEN \E last \in PersistStops(b, d) : disk' = persist_prefs(b, d, last)
                   ELSE disk' = d
    BY <1>4 DEF AutoStart
  <2> DEFINE ok    == stop = "saved" /\ opts.config.fixed \notin BadFixed
             begun == begin_up(boot, opts, stop, ok)
             d     == begin_up_disk(boot, disk, opts, stop, minted + 1)
             held  == pending_up(begun, d)
             b     == IF ok THEN finish_up(begun, held, built) ELSE begun
  <2> HIDE DEF boot, opts
  <2>2. ok \in BOOLEAN /\ (ok => stop = "saved")
    OBVIOUS
  <2>3. be' = b /\ (disk' = d \/ \E last : disk' = persist_prefs(b, d, last))
    BY <2>1
  <2> HIDE DEF ok
  <2>4. /\ begun \in BackendState
        /\ begun.current_profile = p
        /\ begun.device = None
        /\ begun.generation = IF ok THEN be.generation + 1 ELSE be.generation
        /\ wants_running(begun)
    <3>1. wants_running(boot)
      BY <1>1, <1>4 DEF wants_running
    <3>2. QED
      BY <1>1, <2>2, <3>1, BeginUpType, BeginUpEffect
  <2>5. /\ d \in Disk
        /\ disk.key[p] # 0 => d.key[p] = disk.key[p]
        /\ ok => d.key[p] # 0
    BY <1>0, <1>1, <2>2, BeginUpDiskType, BeginUpDiskEffect
  <2> HIDE DEF begun, d
  <2>6. held \in PendingUp /\ held.generation = begun.generation
        /\ held.profile = p /\ held.key = d.key[p]
    BY <2>4, <2>5, PendingType DEF pending_up
  <2> HIDE DEF held
  <2>7. /\ b \in BackendState
        /\ b.current_profile = p
        /\ wants_running(b)
        /\ ~ok \/ ~built => b = begun
        /\ ok /\ built => b.device = held /\ b.generation = begun.generation + 1
    BY <2>4, <2>6, FinishUpType, FinishUpEffect DEF superseded
  <2> HIDE DEF b
  <2>8. disk'.key = d.key
    BY <2>3, <2>5, <2>7, PersistEffect
  <2>9. CASE ok /\ built
    <3>1. Belongs(be.device)'
      BY <2>3, <2>5, <2>6, <2>7, <2>8, <2>9 DEF Belongs
    <3>2. Installs
      BY <1>0, <1>2, <2>3, <2>4, <2>5, <2>7, <2>8, <2>9, <3>1 DEF Installs
    <3>3. QED
      BY <3>2 DEF Class
  <2>10. CASE ok /\ ~built
    <3>1. Supersedes
      BY <1>0, <1>2, <2>3, <2>4, <2>7, <2>10 DEF Supersedes, Live
    <3>2. QED
      BY <3>1 DEF Class
  <2>11. CASE ~ok
    <3>1. Undisturbed
      BY <1>2, <2>3, <2>4, <2>5, <2>7, <2>8, <2>11, QuietStep
    <3>2. QED
      BY <3>1 DEF Class
  <2>12. QED
    BY <2>9, <2>10, <2>11
<1>5. QED
  BY <1>3, <1>4

(* Every step is in one of the classes.                                    *)
LEMMA NextClass ==
  ASSUME IInv, [Next]_vars
  PROVE  Class
<1>0. TypeOK /\ be \in BackendState
  BY DEF IInv, TypeOK
<1>1. ASSUME KeepsAttempts(Tasks), be' = be, disk' = disk
      PROVE  Class
  <2>1. Undisturbed
    BY <1>1, QuietStep
  <2>2. QED
    BY <2>1 DEF Class
<1>2. CASE \E c \in Clients : Command(c)
  BY <1>0, <1>2, CommandClass
<1>3. CASE \E t \in Tasks : Proceed(t)
  BY <1>3, ProceedClass
<1>4. CASE ReadArming
  BY <1>1, <1>4, StayKeeps DEF ReadArming, Stay
<1>5. CASE ReconnectNow
  <2>1. Goto(Reconnector, "begin", None) \/ Stay
    BY <1>5 DEF ReconnectNow
  <2>2. KeepsAttempts(Tasks)
    BY <1>0, <2>1, GotoKeeps, StayKeeps, "begin" \notin {"handshake", "built", "failed"} DEF Tasks
  <2>3. /\ be'.device = be.device /\ be'.generation = be.generation /\ be'.prefs = be.prefs
        /\ be'.current_profile = be.current_profile /\ disk' = disk
    BY <1>0, <1>5, AfterClaimEffect DEF ReconnectNow
  <2>4. Undisturbed
    BY <2>2, <2>3, QuietStep DEF wants_running
  <2>5. QED
    BY <2>4 DEF Class
<1>6. CASE ReconcileOnReload
  <2>1. Goto(Sighup, "begin", None) /\ be' = be /\ disk' = disk
    BY <1>6 DEF ReconcileOnReload
  <2>2. KeepsAttempts(Tasks)
    BY <1>0, <2>1, GotoKeeps, "begin" \notin {"handshake", "built", "failed"} DEF Tasks
  <2>3. QED
    BY <1>1, <2>1, <2>2
<1>7. CASE AutoStart
  BY <1>7, AutoStartClass
<1>8. CASE Crash
  <2>1. be'.device = None
    BY <1>0, <1>8, LoadEffect DEF Crash, TypeOK
  <2>2. \A t \in Tasks : pc'[t] = "idle"
    BY <1>8 DEF Crash
  <2>3. QED
    BY <2>1, <2>2 DEF Restarts, Class, Live
<1>9. CASE UNCHANGED vars
  BY <1>1, <1>9, StayKeeps DEF vars, Stay
<1>10. QED
  BY <1>2, <1>3, <1>4, <1>5, <1>6, <1>7, <1>8, <1>9 DEF Next

(* Nothing but auto_start and a crash happens outside serving.             *)
LEMMA NextBoot ==
  ASSUME IInv, [Next]_vars
  PROVE  BootGuard'
<1>1. CASE \E c \in Clients : Command(c)
  <2>1. PICK c \in Clients : Command(c)
    BY <1>1
  <2>2. CASE Up(c)
    BY <2>2 DEF Up, Issue, BeginUp, BootGuard
  <2>3. CASE Set(c) \/ ReloadConfig(c) \/ Down(c) \/ Logout(c)
    BY <2>3 DEF Set, ReloadConfig, Down, Logout, Issue, BootGuard
  <2>4. CASE SwitchProfile(c) \/ CreateProfile(c) \/ SwitchToEmptyProfile(c)
    BY <2>4 DEF SwitchProfile, CreateProfile, SwitchToEmptyProfile, Activate, Issue, BootGuard
  <2>5. CASE ResetToEmptyProfile(c) \/ DeleteProfile(c)
    BY <2>5 DEF ResetToEmptyProfile, DeleteProfile, Issue, BootGuard
  <2>6. QED
    BY <2>1, <2>2, <2>3, <2>4, <2>5 DEF Command
<1>2. CASE \E t \in Tasks : Proceed(t)
  <2>1. PICK t \in Tasks : Proceed(t)
    BY <1>2
  <2>2. pc[t] # "idle" /\ serving' = serving
    BY <2>1 DEF Proceed, BuildDevice, FinishUp, ShutdownOrphan, Preflight, Rebegin, BringDown,
                DriveUp, BeginUp
  <2>3. QED
    BY <2>2 DEF BootGuard, IInv
<1>3. CASE ReadArming \/ ReconnectNow \/ ReconcileOnReload
  <2>1. serving /\ serving' = serving
    BY <1>3 DEF ReadArming, ReconnectNow, ReconcileOnReload, Issue
  <2>2. QED
    BY <2>1 DEF BootGuard
<1>4. CASE AutoStart
  BY <1>4 DEF AutoStart, BootGuard
<1>5. CASE Crash
  <2>1. be'.device = None /\ \A t \in Tasks : pc'[t] = "idle"
    BY <1>5, LoadEffect DEF Crash, IInv, TypeOK
  <2>2. QED
    BY <2>1 DEF BootGuard, Live
<1>6. CASE UNCHANGED vars
  BY <1>6 DEF vars, IInv, BootGuard, Live
<1>7. QED
  BY <1>1, <1>2, <1>3, <1>4, <1>5, <1>6 DEF Next

LEMMA InitIInv == Init => IInv
<1> SUFFICES ASSUME Init PROVE IInv
  OBVIOUS
<1>1. TypeOK
  BY InitType
<1>2. be.device = None
  BY <1>1, LoadEffect DEF Init, TypeOK
<1>3. \A t \in Tasks : pc[t] = "idle"
  BY DEF Init
<1>4. QED
  BY <1>1, <1>2, <1>3 DEF IInv, AttemptGuard, DeviceGuard, BootGuard, Live, InFlight

LEMMA NextIInv == IInv /\ [Next]_vars => IInv'
<1> SUFFICES ASSUME IInv, [Next]_vars PROVE IInv'
  OBVIOUS
<1>1. TypeOK'
  BY NextType DEF IInv
<1>2. Class
  BY NextClass
<1>3. QED
  BY <1>1, <1>2, ClassKeepsGuards, NextBoot DEF IInv

(* The inductive invariant holds throughout.                               *)
LEMMA Guarded == Spec => []IInv
BY InitIInv, NextIInv, PTL DEF Spec

(* An attempt that nothing superseded is safe to install, whatever happens *)
(* between begin_up and finish_up: it overwrites no engine and it is for   *)
(* the current profile.                                                    *)
THEOREM AttemptsAreGuarded == Spec => []AttemptGuard
<1>1. IInv => AttemptGuard
  BY DEF IInv
<1>2. QED
  BY <1>1, Guarded, PTL

(* No engine ever runs for a profile that is not the current one, even     *)
(* when a switch, a create, a new or a restart lands during the handshake. *)
THEOREM EngineOnCurrentProfile == Spec => []DeviceOnCurrentProfile
<1>1. IInv => DeviceOnCurrentProfile
  BY DEF IInv, DeviceGuard, Belongs, DeviceOnCurrentProfile
<1>2. QED
  BY <1>1, Guarded, PTL

(* As long as nobody asks for a force-reauth, a running engine's node key  *)
(* is the one on disk: no logout or profile command leaves it behind.      *)
THEOREM EngineKeyOnDisk ==
  ASSUME "force-reauth" \notin Commands
  PROVE  Spec => []DeviceKeyOnDisk
<1>1. IInv => DeviceKeyOnDisk
  BY DEF IInv, DeviceGuard, Belongs, DeviceKeyOnDisk
<1>2. QED
  BY <1>1, Guarded, PTL

(* As long as no config is reloaded, an engine runs only on a node that is *)
(* meant to be up: a down or a logout during its handshake keeps it out.   *)
THEOREM EngineIsWanted ==
  ASSUME "reload-config" \notin Commands
  PROVE  Spec => []DeviceIsWanted
<1>1. IInv => DeviceIsWanted
  BY DEF IInv, DeviceGuard, Belongs, DeviceIsWanted
<1>2. QED
  BY <1>1, Guarded, PTL

(* A step of any class is a step of the promised node.                     *)
LEMMA ClassKeepsPromise ==
  ASSUME "force-reauth" \notin Commands, IInv, TypeOK', Class
  PROVE  [Promise!Next]_(Promise!vars)
<1>0. /\ be \in BackendState /\ be' \in BackendState /\ disk' \in Disk
      /\ be'.current_profile \in Profiles
      /\ disk'.key[be'.current_profile] \in Nat
  BY DEF IInv, TypeOK, BackendState, Disk
<1>1. CASE ~Live'
  BY <1>0, <1>1 DEF Promise!Next, Promise!Stop
<1>2. CASE Live' /\ Undisturbed
  <2>1. /\ Live /\ be'.current_profile = be.current_profile
        /\ be'.device.profile = be.device.profile
        /\ be'.device.key = be.device.key
        /\ be'.device.generation = be.device.generation
    BY <1>2 DEF Undisturbed
  <2>2. be.device \in PendingUp /\ Belongs(be.device)
    BY <1>0, <2>1 DEF IInv, DeviceGuard, Live, BackendState
  <2>3. disk'.key[be'.current_profile] = disk.key[be.current_profile]
    <3>1. DeviceGuard'
      BY ClassKeepsGuards
    <3>2. QED
      BY <1>2, <2>1, <2>2, <3>1 DEF DeviceGuard, Belongs
  <2>4. QED
    BY <1>2, <2>1, <2>3 DEF Promise!vars
<1>3. CASE Live' /\ Installs
  <2>1. /\ ~Live /\ be'.current_profile = be.current_profile
        /\ be'.device.profile = be.current_profile
        /\ be'.device.key # 0 /\ be'.device.key = disk'.key[be.current_profile]
        /\ disk.key[be.current_profile] # 0
             => disk'.key[be.current_profile] = disk.key[be.current_profile]
    BY <1>3 DEF Installs, Belongs
  <2>2. be'.device \in PendingUp
    BY <1>0, <1>3 DEF Live, BackendState
  <2>3. be'.device.generation \in Nat
    BY <2>2 DEF PendingUp
  <2>4. Promise!Start
    BY <1>0, <1>3, <2>1, <2>3 DEF Promise!Start
  <2>5. QED
    BY <2>4 DEF Promise!Next
<1>4. QED
  BY <1>1, <1>2, <1>3 DEF Class, Supersedes, Begins, Restarts

(* As long as nobody asks for a force-reauth, the daemon implements Node:  *)
(* one engine at a time, started on the current profile and its key on     *)
(* disk, and neither changes until it has stopped.                         *)
THEOREM DaemonKeepsPromise ==
  ASSUME "force-reauth" \notin Commands
  PROVE  Spec => KeepsPromise
<1>1. Init => Promise!Init
  <2> SUFFICES ASSUME Init PROVE Promise!Init
    OBVIOUS
  <2>1. disk \in Disk /\ be.device = None /\ be.current_profile = default
    BY InitType, LoadEffect DEF Init, TypeOK, FreshDisk
  <2>2. disk.key[default] = 0
    BY BackendAssumption DEF Init, FreshDisk
  <2>3. QED
    BY <2>1, <2>2, BackendAssumption DEF Promise!Init, Live
<1>2. IInv /\ IInv' /\ [Next]_vars => [Promise!Next]_(Promise!vars)
  <2> SUFFICES ASSUME IInv, IInv', [Next]_vars PROVE [Promise!Next]_(Promise!vars)
    OBVIOUS
  <2>1. TypeOK' /\ Class
    BY NextClass DEF IInv
  <2>2. QED
    BY <2>1, ClassKeepsPromise
<1>3. QED
  BY <1>1, <1>2, Guarded, PTL DEF Spec, KeepsPromise, Promise!Spec

----------------------------------------------------------------------------
(* The steps of the tasks keep the backend and the state directory in      *)
(* agreement.                                                              *)

LEMMA BeginUpStopsType ==
  ASSUME NEW opts, NEW stop \in BeginUpStops(opts)
  PROVE  stop \in Stops
BY DEF BeginUpStops, PersistStops, WipeStops, Stops

LEMMA BeginUpStepKeeps ==
  ASSUME TypeOK, NEW t \in Tasks, NEW opts \in Opts, BeginUp(t, opts)
  PROVE  Keeps(be, disk, be', disk')
<1>1. PICK stop \in BeginUpStops(opts) :
        LET ok == stop = "saved" /\ opts.config.fixed \notin BadFixed
        IN  /\ be' = begin_up(be, opts, stop, ok)
            /\ disk' = begin_up_disk(be, disk, opts, stop, minted + 1)
  BY DEF BeginUp
<1> DEFINE ok == stop = "saved" /\ opts.config.fixed \notin BadFixed
<1>2. /\ be \in BackendState /\ disk \in Disk /\ minted + 1 \in Nat \ {0} /\ ok \in BOOLEAN
      /\ stop \in Stops
  BY BeginUpStopsType DEF TypeOK
<1>3. (ok => stop = "saved") /\ (BadFixed = {} /\ stop = "saved" => ok)
  OBVIOUS
<1>4. be' = begin_up(be, opts, stop, ok)
      /\ disk' = begin_up_disk(be, disk, opts, stop, minted + 1)
  BY <1>1
<1> HIDE DEF ok
<1>5. QED
  BY <1>2, <1>3, <1>4, BeginUpKeeps

(* A connection's command keeps the agreements.                            *)
LEMMA CommandKeeps ==
  ASSUME TypeOK, NEW c \in Clients, Command(c)
  PROVE  Keeps(be, disk, be', disk')
<1>0. be \in BackendState /\ disk \in Disk /\ c \in Tasks
  BY DEF TypeOK, Tasks
<1>1. CASE Up(c)
  <2>1. PICK config \in Settings, force \in BOOLEAN :
          BeginUp(c, [config |-> config, force_reauth |-> force])
    BY <1>1 DEF Up
  <2>2. [config |-> config, force_reauth |-> force] \in Opts
    BY DEF Opts
  <2>3. QED
    BY <1>0, <2>1, <2>2, BeginUpStepKeeps
<1>2. CASE Set(c)
  <2>1. PICK config \in Settings, live \in BOOLEAN :
          /\ be' = begin_set(be, config, live)
          /\ \E stop : disk' = persist_prefs(be', disk, stop)
    BY <1>2 DEF Set
  <2>2. be' \in BackendState /\ Keeps(be, disk, be', disk)
    BY <1>0, <2>1, BeginSetType, BeginSetKeeps
  <2>3. QED
    BY <1>0, <2>1, <2>2, PersistKeeps, KeepsTrans
<1>3. CASE ReloadConfig(c)
  <2>1. PICK config \in Settings, enabled \in BOOLEAN :
          /\ be' = apply_config(be, enabled, config)
          /\ \E stop : disk' = persist_prefs(be', disk, stop)
    BY <1>3 DEF ReloadConfig
  <2>2. be' \in BackendState /\ Keeps(be, disk, be', disk)
    BY <1>0, <2>1, ApplyConfigType, ApplyConfigKeeps
  <2>3. QED
    BY <1>0, <2>1, <2>2, PersistKeeps, KeepsTrans
<1>4. CASE Down(c)
  <2>1. PICK stop : be' = down(be) /\ disk' = persist_prefs(be', disk, stop)
    BY <1>4 DEF Down
  <2>2. be' \in BackendState /\ Keeps(be, disk, be', disk)
    BY <1>0, <2>1, DownType, DownKeeps
  <2>3. QED
    BY <1>0, <2>1, <2>2, PersistKeeps, KeepsTrans
<1>5. CASE Logout(c)
  <2>1. PICK stop : be' = logout(be, stop) /\ disk' = logout_disk(be, disk, stop)
    BY <1>5 DEF Logout
  <2>2. QED
    BY <1>0, <2>1, LogoutKeeps
<1>6. ASSUME NEW d \in Disk, NEW target \in Profiles, NEW register \in BOOLEAN,
             Activate(d, target, register), Keeps(be, disk, be, d)
      PROVE  Keeps(be, disk, be', disk')
  <2>1. PICK stop : /\ be' = activate_profile(be, d, target, stop)
                    /\ disk' = activate_profile_disk(d, target, register, stop)
    BY <1>6 DEF Activate
  <2>2. Keeps(be, d, be', disk')
    BY <1>0, <2>1, ActivateKeeps
  <2>3. QED
    BY <1>6, <2>2, KeepsTrans
<1>7. CASE SwitchProfile(c)
  <2>1. PICK target \in disk.listed \cup {default} : Activate(disk, target, TRUE)
    BY <1>7 DEF SwitchProfile
  <2>2. target \in Profiles
    BY <1>0, BackendAssumption DEF Disk
  <2>3. QED
    BY <1>0, <1>6, <2>1, <2>2, KeepsSelf
<1>8. CASE CreateProfile(c)
  <2>1. PICK target \in Profiles : Activate(disk, target, TRUE)
    BY <1>8 DEF CreateProfile
  <2>2. QED
    BY <1>0, <1>6, <2>1, KeepsSelf
<1>9. CASE SwitchToEmptyProfile(c)
  <2>1. PICK target \in Profiles : /\ target # be.current_profile
                                   /\ Activate(remove_profile_files(disk, target), target, FALSE)
    BY <1>9 DEF SwitchToEmptyProfile
  <2>2. /\ remove_profile_files(disk, target) \in Disk
        /\ Keeps(be, disk, be, remove_profile_files(disk, target))
    BY <1>0, <2>1, RemoveFilesType, RemoveFilesKeeps
  <2>3. QED
    BY <1>6, <2>1, <2>2
<1>10. CASE ResetToEmptyProfile(c)
  <2>1. PICK stop : /\ be' = reset_to_empty_profile(be, stop)
                    /\ disk' = reset_to_empty_profile_disk(be, disk, stop)
    BY <1>10 DEF ResetToEmptyProfile
  <2>2. QED
    BY <1>0, <2>1, ResetToEmptyKeeps
<1>11. CASE DeleteProfile(c)
  <2>1. PICK target \in Profiles, listed \in BOOLEAN :
          /\ target # be.current_profile
          /\ disk' = [remove_profile_files(disk, target) EXCEPT
                        !.listed = IF listed THEN @ ELSE @ \ {target}]
          /\ be' = be
    BY <1>0, <1>11 DEF DeleteProfile, Disk
  <2> DEFINE d == remove_profile_files(disk, target)
  <2>2. d \in Disk /\ Keeps(be, disk, be, d)
    BY <1>0, <2>1, RemoveFilesType, RemoveFilesKeeps
  <2> HIDE DEF d
  <2>3. disk'.prefs = d.prefs /\ disk'.key = d.key /\ disk'.current = d.current
    BY <2>1, <2>2 DEF Disk, d
  <2>4. Keeps(be, d, be', disk')
    BY <2>1, <2>3 DEF Keeps, Agree, Gone, Exact
  <2>5. QED
    BY <2>2, <2>4, KeepsTrans
<1>12. QED
  BY <1>1, <1>2, <1>3, <1>4, <1>5, <1>7, <1>8, <1>9, <1>10, <1>11 DEF Command

(* So does a task that goes on, unless it is the preflight of a rebuild,   *)
(* which may mint a key the backend does not hear of.                      *)
LEMMA ProceedKeeps ==
  ASSUME TypeOK, NEW t \in Tasks, Proceed(t), ~Preflight(t)
  PROVE  Keeps(be, disk, be', disk')
<1>0. be \in BackendState /\ disk \in Disk
  BY DEF TypeOK
<1>1. CASE BuildDevice(t) \/ ShutdownOrphan(t)
  BY <1>1, KeepsSelf DEF BuildDevice, ShutdownOrphan
<1>2. CASE FinishUp(t)
  <2> DEFINE built == pc[t] = "built"
  <2>1. /\ be' = finish_up(be, pending[t], built)
        /\ disk' = disk \/ \E stop : disk' = persist_prefs(be', disk, stop)
    BY <1>2 DEF FinishUp
  <2>2. pending[t] \in PendingUp \cup {None} /\ built \in BOOLEAN
    BY DEF TypeOK
  <2> HIDE DEF built
  <2>3. be' \in BackendState /\ Keeps(be, disk, be', disk)
    BY <1>0, <2>1, <2>2, FinishUpType, FinishUpKeeps
  <2>4. QED
    BY <1>0, <2>1, <2>3, PersistKeeps, KeepsTrans
<1>3. CASE Rebegin(t)
  BY <1>0, <1>3, BeginUpStepKeeps, DefaultOptsType DEF Rebegin
<1>4. CASE BringDown(t)
  <2>1. PICK stop : be' = down(be) /\ disk' = persist_prefs(be', disk, stop)
    BY <1>4 DEF BringDown
  <2>2. be' \in BackendState /\ Keeps(be, disk, be', disk)
    BY <1>0, <2>1, DownType, DownKeeps
  <2>3. QED
    BY <1>0, <2>1, <2>2, PersistKeeps, KeepsTrans
<1>5. CASE DriveUp(t)
  BY <1>0, <1>5, BeginUpStepKeeps, DefaultOptsType DEF DriveUp
<1>6. QED
  BY <1>1, <1>2, <1>3, <1>4, <1>5 DEF Proceed

LEMMA PreflightAgrees ==
  ASSUME TypeOK, NEW t \in Tasks, Preflight(t), Agree(be, disk)
  PROVE  Agree(be', disk')
<1>1. be \in BackendState /\ disk \in Disk /\ minted + 1 \in Nat \ {0}
  BY DEF TypeOK
<1>2. be' = be /\ disk' = load_key_file(be, disk, minted + 1)
  BY DEF Preflight
<1>3. QED
  BY <1>1, <1>2, LoadKeyEffect DEF Agree

LEMMA AutoStartKeeps ==
  ASSUME TypeOK, AutoStart
  PROVE  Keeps(be, disk, be', disk')
<1> DEFINE boot == [be EXCEPT !.boot_attempted_up = TRUE]
           opts == DefaultOpts(be)
<1>0. be \in BackendState /\ disk \in Disk /\ minted + 1 \in Nat \ {0}
  BY DEF TypeOK
<1>1. /\ boot \in BackendState /\ opts \in Opts
      /\ boot.current_profile = be.current_profile /\ boot.has_node_key = be.has_node_key
      /\ boot.prefs = be.prefs /\ boot.override_always_on = be.override_always_on
  BY <1>0, DefaultOptsType DEF BackendState
<1>2. CASE ~wants_running(be)
  BY <1>2, KeepsSelf DEF AutoStart
<1>3. CASE wants_running(be)
  <2>1. PICK stop \in BeginUpStops(opts), built \in BOOLEAN :
          LET ok    == stop = "saved" /\ opts.config.fixed \notin BadFixed
              begun == begin_up(boot, opts, stop, ok)
              d     == begin_up_disk(boot, disk, opts, stop, minted + 1)
              b     == IF ok THEN finish_up(begun, pending_up(begun, d), built) ELSE begun
          IN  /\ be' = b
              /\ disk' = d \/ \E last : disk' = persist_prefs(b, d, last)
    BY <1>3 DEF AutoStart
  <2> DEFINE ok    == stop = "saved" /\ opts.config.fixed \notin BadFixed
             begun == begin_up(boot, opts, stop, ok)
             d     == begin_up_disk(boot, disk, opts, stop, minted + 1)
             p     == pending_up(begun, d)
             b     == IF ok THEN finish_up(begun, p, built) ELSE begun
  <2>2. be' = b /\ (disk' = d \/ \E last : disk' = persist_prefs(b, d, last))
    BY <2>1
  <2>3. /\ (ok => stop = "saved") /\ (BadFixed = {} /\ stop = "saved" => ok)
        /\ stop \in Stops /\ ok \in BOOLEAN
    BY BeginUpStopsType
  <2> HIDE DEF boot, opts, ok
  <2>4. Keeps(be, disk, boot, disk)
    BY <1>1, QuietKeeps
  <2>5. begun \in BackendState /\ d \in Disk /\ Keeps(boot, disk, begun, d)
    BY <1>0, <1>1, <2>3, BeginUpType, BeginUpDiskType, BeginUpKeeps
  <2> HIDE DEF begun, d
  <2>6. p \in PendingUp
    BY <2>5, PendingType
  <2> HIDE DEF p
  <2>7. b \in BackendState /\ Keeps(begun, d, b, d)
    BY <2>5, <2>6, FinishUpType, FinishUpKeeps, KeepsSelf
  <2> HIDE DEF b
  <2>8. Keeps(b, d, be', disk')
    BY <2>2, <2>5, <2>7, PersistKeeps, KeepsSelf
  <2>9. Keeps(be, disk, begun, d)
    BY <2>4, <2>5, KeepsTrans
  <2>10. Keeps(be, disk, b, d)
    BY <2>7, <2>9, KeepsTrans
  <2>11. QED
    BY <2>8, <2>10, KeepsTrans
<1>4. QED
  BY <1>2, <1>3

LEMMA NextKeeps ==
  ASSUME TypeOK, [Next]_vars, \A t \in Tasks : ~Preflight(t)
  PROVE  Keeps(be, disk, be', disk')
<1>0. be \in BackendState /\ disk \in Disk
  BY DEF TypeOK
<1>1. CASE \E c \in Clients : Command(c)
  BY <1>1, CommandKeeps
<1>2. CASE \E t \in Tasks : Proceed(t)
  BY <1>2, ProceedKeeps
<1>3. CASE ReadArming \/ ReconcileOnReload \/ UNCHANGED vars
  BY <1>3, KeepsSelf DEF ReadArming, ReconcileOnReload, vars
<1>4. CASE ReconnectNow
  <2>1. be' = after_claim(be, armed) /\ disk' = disk
    BY <1>4 DEF ReconnectNow
  <2>2. after_claim(be, armed).has_node_key = be.has_node_key
    BY <1>0 DEF after_claim, BackendState
  <2>3. QED
    BY <1>0, <2>1, <2>2, AfterClaimEffect, QuietKeeps
<1>5. CASE AutoStart
  BY <1>5, AutoStartKeeps
<1>6. CASE Crash
  BY <1>0, <1>6, LoadKeeps DEF Crash, Keeps
<1>7. QED
  BY <1>1, <1>2, <1>3, <1>4, <1>5, <1>6 DEF Next

LEMMA InitKeeps == Init => Agree(be, disk) /\ Exact(be, disk) /\ Gone(be, disk)
<1> SUFFICES ASSUME Init PROVE Agree(be, disk) /\ Exact(be, disk) /\ Gone(be, disk)
  OBVIOUS
<1>1. disk \in Disk /\ be = load(disk)
  BY InitType DEF Init, TypeOK
<1>2. be \in BackendState
  BY <1>1, LoadType
<1>3. \A b \in BackendState : Gone(b, disk)
  BY DEF Init, FreshDisk, Gone, BackendState
<1>4. QED
  BY <1>1, <1>2, <1>3, LoadKeeps

(* The backend and the state directory agree throughout.                   *)
LEMMA Agreed == Spec => [](TypeOK /\ Agree(be, disk))
<1>1. TypeOK /\ Agree(be, disk) /\ [Next]_vars => (TypeOK /\ Agree(be, disk))'
  <2> SUFFICES ASSUME TypeOK, Agree(be, disk), [Next]_vars
               PROVE  TypeOK' /\ Agree(be', disk')
    OBVIOUS
  <2>1. TypeOK'
    BY NextType
  <2>2. Agree(be', disk')
    BY NextKeeps, PreflightAgrees DEF Keeps
  <2>3. QED
    BY <2>1, <2>2
<1>2. QED
  BY <1>1, InitType, InitKeeps, PTL DEF Spec

(* The current-profile pointer and the backend never part, whichever write *)
(* of a switch fails (activate_profile) and wherever a crash comes.        *)
THEOREM PointerNeverParts == Spec => []PointerAgrees
<1>1. Agree(be, disk) => PointerAgrees
  BY DEF Agree, PointerAgrees
<1>2. QED
  BY <1>1, Agreed, PTL

(* Under AlwaysOn the node is wanted up or an operator's disconnect stands *)
(* (reconcile_sys_policy, on_permitted_disconnect), through every command, *)
(* failed write, profile switch and restart.                               *)
THEOREM AlwaysOnIsKept == Spec => []AlwaysOnHolds
<1>1. Agree(be, disk) => AlwaysOnHolds
  BY DEF Agree, AlwaysOnHolds
<1>2. QED
  BY <1>1, Agreed, PTL

(* The cache never claims a key that is gone: whatever commands run, a     *)
(* status that reports a node key has one on disk (has_node_key).          *)
THEOREM CacheNeverInvents ==
  Spec => [](be.has_node_key => disk.key[be.current_profile] # 0)
<1>1. Agree(be, disk) => (be.has_node_key => disk.key[be.current_profile] # 0)
  BY DEF Agree
<1>2. QED
  BY <1>1, Agreed, PTL

----------------------------------------------------------------------------
(* What holds as long as no running engine is rebuilt.                     *)

Unrebuilt == \A t \in Tasks : pc[t] # "preflight"

(* Only set and reload-config start a rebuild.                             *)
LEMMA NextUnrebuilt ==
  ASSUME "set" \notin Commands, "reload-config" \notin Commands,
         TypeOK, Unrebuilt, [Next]_vars
  PROVE  Unrebuilt'
<1>0. pc \in [Tasks -> PCs]
  BY DEF TypeOK
<1>1. ASSUME NEW t \in Tasks, NEW label, NEW held, Goto(t, label, held), label # "preflight"
      PROVE  Unrebuilt'
  BY <1>0, <1>1 DEF Goto, Unrebuilt
<1>2. ASSUME NEW t \in Tasks, NEW opts, BeginUp(t, opts)
      PROVE  Unrebuilt'
  <2>1. \E held : Goto(t, "handshake", held) \/ Goto(t, "idle", held)
    BY <1>2 DEF BeginUp
  <2>2. QED
    BY <1>1, <2>1
<1>3. CASE \E c \in Clients : Command(c)
  <2>1. PICK c \in Clients : Command(c)
    BY <1>3
  <2>2. ~Set(c) /\ ~ReloadConfig(c) /\ c \in Tasks
    BY DEF Set, ReloadConfig, Issue, Tasks
  <2>3. Up(c) \/ Stay
    BY <2>1, <2>2 DEF Command, Down, Logout, SwitchProfile, CreateProfile,
       SwitchToEmptyProfile, Activate, ResetToEmptyProfile, DeleteProfile
  <2>4. QED
    BY <1>2, <2>2, <2>3 DEF Up, Stay, Unrebuilt
<1>4. CASE \E t \in Tasks : Proceed(t)
  <2>1. PICK t \in Tasks : Proceed(t)
    BY <1>4
  <2>2. CASE BuildDevice(t)
    BY <1>0, <2>2 DEF BuildDevice, Unrebuilt
  <2>3. CASE FinishUp(t) \/ ShutdownOrphan(t) \/ BringDown(t)
    <3>1. \E label \in {"settle", "idle"} : \E held : Goto(t, label, held)
      BY <2>3 DEF FinishUp, ShutdownOrphan, BringDown
    <3>2. QED
      BY <1>1, <3>1
  <2>4. CASE Rebegin(t) \/ DriveUp(t)
    BY <1>2, <2>4 DEF Rebegin, DriveUp
  <2>5. ~Preflight(t)
    BY DEF Preflight, Unrebuilt
  <2>6. QED
    BY <2>1, <2>2, <2>3, <2>4, <2>5 DEF Proceed
<1>5. CASE ReadArming \/ AutoStart \/ UNCHANGED vars
  BY <1>5 DEF ReadArming, AutoStart, vars, Unrebuilt
<1>6. CASE ReconnectNow \/ ReconcileOnReload
  <2>1. Stay \/ \E t \in Tasks : \E held : Goto(t, "begin", held)
    BY <1>6 DEF ReconnectNow, ReconcileOnReload, Tasks
  <2>2. QED
    BY <1>1, <2>1 DEF Stay, Unrebuilt
<1>7. CASE Crash
  BY <1>7 DEF Crash, Unrebuilt
<1>8. QED
  BY <1>3, <1>4, <1>5, <1>6, <1>7 DEF Next

LEMMA Unrebuilding ==
  ASSUME "set" \notin Commands, "reload-config" \notin Commands
  PROVE  Spec => [](TypeOK /\ Unrebuilt)
<1>1. Init => Unrebuilt
  BY DEF Init, Unrebuilt
<1>2. TypeOK /\ Unrebuilt /\ [Next]_vars => (TypeOK /\ Unrebuilt)'
  BY NextType, NextUnrebuilt
<1>3. QED
  BY <1>1, <1>2, InitType, PTL DEF Spec

LEMMA UnrebuiltKeeps ==
  ASSUME TypeOK, Unrebuilt, [Next]_vars
  PROVE  Keeps(be, disk, be', disk')
BY NextKeeps DEF Preflight, Unrebuilt

(* As long as nothing rebuilds a running engine (a rebuild's preflight     *)
(* mints a key for whatever profile it then finds), a logged-out profile   *)
(* has no node key on disk: logout wipes before it records, and a bring-up *)
(* records before it mints, so no failed write or crash parts the two.     *)
THEOREM LogoutLeavesNoKey ==
  ASSUME "set" \notin Commands, "reload-config" \notin Commands
  PROVE  Spec => []LoggedOutKeyGone
<1>1. TypeOK /\ Unrebuilt /\ Gone(be, disk) /\ [Next]_vars => Gone(be, disk)'
  BY UnrebuiltKeeps DEF Keeps
<1>2. Gone(be, disk) => LoggedOutKeyGone
  BY DEF Gone, LoggedOutKeyGone
<1>3. QED
  BY <1>1, <1>2, InitKeeps, Unrebuilding, PTL DEF Spec

(* If in addition build_config accepts every setting, the has_node_key     *)
(* cache is exact: no early return leaves it behind the key file.          *)
THEOREM CacheIsExact ==
  ASSUME "set" \notin Commands, "reload-config" \notin Commands, BadFixed = {}
  PROVE  Spec => []KeyCacheAgrees
<1>1. TypeOK /\ Unrebuilt /\ Exact(be, disk) /\ [Next]_vars => Exact(be, disk)'
  BY UnrebuiltKeeps DEF Keeps
<1>2. Exact(be, disk) => KeyCacheAgrees
  BY DEF Exact, KeyCacheAgrees
<1>3. QED
  BY <1>1, <1>2, InitKeeps, Unrebuilding, PTL DEF Spec
============================================================================
