------------------------------ MODULE Backend ------------------------------
(***************************************************************************)
(* The daemon's one shared `Backend` (src/src/ipn/mod.rs) and the state    *)
(* directory it persists to.  Every method of `Backend` runs under the     *)
(* tokio mutex around it, so a method is one atomic step; this module      *)
(* writes each of them as a function from the backend record (and the      *)
(* disk record) to what the method leaves behind.  Drivers.tla calls them  *)
(* from the tasks that take the lock.                                      *)
(*                                                                         *)
(* A method that can fail half way takes the point at which it stops as a  *)
(* parameter, so a failed write or wipe leaves exactly the fields assigned *)
(* before the early return.                                                *)
(***************************************************************************)
EXTENDS Naturals

CONSTANTS
  Profiles,         \* the login-profile ids in play
  default,          \* DEFAULT_PROFILE_ID
  LiveValues,       \* values of the prefs an engine setter can change in place
  FixedValues,      \* values of the prefs baked into the engine Config
  BadFixed,         \* fixed values that pass pre-validation and fail in build_config
  DefaultLive,      \* Prefs::default()'s values
  DefaultFixed,
  AlwaysOn,         \* policy AlwaysOn.Enabled
  OverrideWithReason, \* policy AlwaysOn.OverrideWithReason
  ReconnectAfter,   \* whether the policy sets a positive ReconnectAfter
  None              \* Rust's None

ASSUME BackendAssumption ==
  /\ default \in Profiles
  /\ DefaultLive \in LiveValues
  /\ DefaultFixed \in FixedValues \ BadFixed
  /\ BadFixed \subseteq FixedValues
  /\ {AlwaysOn, OverrideWithReason, ReconnectAfter} \subseteq BOOLEAN

----------------------------------------------------------------------------
(* Types. A node key is a number, 0 standing for an absent key file.       *)

(* The prefs build_config turns into the engine's Config.                  *)
Settings == [live : LiveValues, fixed : FixedValues]

Prefs == [want_running : BOOLEAN, logged_out : BOOLEAN,
          has_logged_in : BOOLEAN, config : Settings]

DefaultPrefs == [want_running |-> FALSE, logged_out |-> FALSE,
                 has_logged_in |-> FALSE, config |-> [live |-> DefaultLive, fixed |-> DefaultFixed]]

(* PendingUp, and the engine built from it: the attempt's generation, and  *)
(* the profile, node key and settings its Config captured.                 *)
PendingUp == [generation : Nat, profile : Profiles, key : Nat, config : Settings]

ReconnectTimer == [seq : Nat, profile : Profiles]

BackendState ==
  [prefs : Prefs,
   current_profile : Profiles,
   device : PendingUp \cup {None},
   generation : Nat,
   has_node_key : BOOLEAN,
   ever_configured : BOOLEAN,
   boot_attempted_up : BOOLEAN,
   override_always_on : BOOLEAN,
   reconnect : ReconnectTimer \cup {None},
   reconnect_seq : Nat]

(* The state directory: prefs.json and node.key.json of every profile, the *)
(* current-profile pointer and the ids listed in profiles.json.            *)
Disk ==
  [prefs : [Profiles -> Prefs \cup {None}],
   key : [Profiles -> Nat],
   current : Profiles,
   listed : SUBSET Profiles]

FreshDisk == [prefs |-> [p \in Profiles |-> None], key |-> [p \in Profiles |-> 0],
              current |-> default, listed |-> {}]

----------------------------------------------------------------------------
(* Small methods every operation is made of.                               *)

load_prefs(d, p) == IF d.prefs[p] = None THEN DefaultPrefs ELSE d.prefs[p]

wants_running(b) == b.prefs.want_running /\ ~b.prefs.logged_out

bump_generation(b) == [b EXCEPT !.generation = @ + 1]

stop_device(b) == [b EXCEPT !.device = None]

reset_always_on_override(b) == [b EXCEPT !.override_always_on = FALSE, !.reconnect = None]

(* The always-on arm of apply_to_prefs; it never turns want_running off.   *)
reconcile_sys_policy(b) ==
  [b EXCEPT !.prefs.want_running = @ \/ (AlwaysOn /\ ~b.override_always_on)]

(* Faulty variants, each named for what it forgets, precede the definition *)
(* they vary; the mutation checks swap them in.                            *)
start_timer_without_profile(b) ==
  [b EXCEPT !.reconnect_seq = @ + 1,
            !.reconnect = [seq |-> b.reconnect_seq + 1, profile |-> None]]

start_reconnect_timer(b) ==
  [b EXCEPT !.reconnect_seq = @ + 1,
            !.reconnect = [seq |-> b.reconnect_seq + 1, profile |-> b.current_profile]]

on_permitted_disconnect(b) ==
  LET exempt == [b EXCEPT !.override_always_on = TRUE]
  IN  IF ReconnectAfter THEN start_reconnect_timer(exempt) ELSE exempt

(* An operator may disconnect; a node that is not wanted up has nothing to *)
(* ask the policy about.                                                   *)
check_disconnect_policy(b, reason) ==
  b.prefs.want_running /\ AlwaysOn => OverrideWithReason /\ reason

(* persist_prefs: save prefs.json, then list a logged-in profile.  It      *)
(* stops "unsaved" (nothing written) or "unlisted" (prefs.json only).      *)
persist_prefs(b, d, stop) ==
  [d EXCEPT
     !.prefs[b.current_profile] = IF stop = "unsaved" THEN @ ELSE b.prefs,
     !.listed = IF stop = "saved" /\ b.prefs.has_logged_in /\ b.current_profile # default
                  THEN @ \cup {b.current_profile} ELSE @]

(* build_config's key load: a missing key file is created with the fresh   *)
(* key before anything else in build_config can fail.                      *)
load_key_file(b, d, fresh) ==
  [d EXCEPT !.key[b.current_profile] = IF @ = 0 THEN fresh ELSE @]

build_config_ok(b) == b.prefs.config.fixed \notin BadFixed

remove_key_file(b, d) == [d EXCEPT !.key[b.current_profile] = 0]

----------------------------------------------------------------------------
(* Backend::load over the state directory: a daemon start.                 *)

load(d) ==
  reconcile_sys_policy(
    [prefs |-> load_prefs(d, d.current),
     current_profile |-> d.current,
     device |-> None,
     generation |-> 0,
     has_node_key |-> d.key[d.current] # 0,
     ever_configured |-> d.prefs[d.current] # None,
     boot_attempted_up |-> FALSE,
     override_always_on |-> FALSE,
     reconnect |-> None,
     reconnect_seq |-> 0])

----------------------------------------------------------------------------
(* begin_up.  `stop` names where it returns: "refused" by pre-validation,  *)
(* "unwiped" when the force-reauth wipe fails, "unsaved" or "unlisted"     *)
(* when persist_prefs fails, "saved" when build_config is reached.         *)

begin_up_prefs(b, opts) ==
  [b EXCEPT !.prefs.config = opts.config,
            !.prefs.want_running = TRUE,
            !.prefs.logged_out = FALSE,
            !.ever_configured = TRUE]

begin_up_keeps_device(b, opts, stop, ok) ==
  LET rekeyed == [b EXCEPT !.has_node_key = @ /\ ~opts.force_reauth]
      applied == reconcile_sys_policy(reset_always_on_override(begin_up_prefs(rekeyed, opts)))
  IN  CASE stop \in {"refused", "unwiped"} -> b
        [] ok    -> bump_generation([applied EXCEPT !.has_node_key = TRUE])
        [] OTHER -> applied

begin_up(b, opts, stop, ok) ==
  LET down    == stop_device(b)
      rekeyed == [down EXCEPT !.has_node_key = @ /\ ~opts.force_reauth]
      applied == reconcile_sys_policy(reset_always_on_override(begin_up_prefs(rekeyed, opts)))
  IN  CASE stop = "refused" -> b
        [] stop = "unwiped" -> down
        [] ok               -> bump_generation([applied EXCEPT !.has_node_key = TRUE])
        [] OTHER            -> applied

begin_up_disk(b, d, opts, stop, fresh) ==
  LET after == begin_up(b, opts, stop, FALSE)
      wiped == IF opts.force_reauth THEN remove_key_file(b, d) ELSE d
      saved == persist_prefs(after, wiped, stop)
  IN  CASE stop \in {"refused", "unwiped"} -> d
        [] stop \in {"unsaved", "unlisted"} -> saved
        [] OTHER -> load_key_file(after, saved, fresh)

(* The PendingUp begin_up returns: b and d are what it left behind.        *)
pending_up(b, d) ==
  [generation |-> b.generation, profile |-> b.current_profile,
   key |-> d.key[b.current_profile], config |-> b.prefs.config]

(* finish_up: a superseded attempt leaves the backend alone; a current one *)
(* installs its engine and bumps the generation a second time.             *)
superseded(b, pending) == pending.generation # b.generation

finish_up_single_bump(b, pending, built) ==
  IF superseded(b, pending) \/ ~built THEN b
  ELSE [b EXCEPT !.device = pending, !.prefs.has_logged_in = TRUE]

finish_up(b, pending, built) ==
  IF superseded(b, pending) \/ ~built THEN b
  ELSE bump_generation([b EXCEPT !.device = pending, !.prefs.has_logged_in = TRUE])

----------------------------------------------------------------------------
(* begin_set: the new settings, persisted; the live setters reach the      *)
(* engine only when the request is live-applicable (`live`).               *)

begin_set_prefs(b, config) ==
  reconcile_sys_policy([b EXCEPT !.prefs.config = config, !.ever_configured = TRUE])

begin_set(b, config, live) ==
  LET set == begin_set_prefs(b, config)
  IN  IF live /\ b.device # None THEN [set EXCEPT !.device.config.live = config.live] ELSE set

(* apply_config, the merge step of reload_config: `Enabled` always decides *)
(* want_running.                                                           *)
apply_config(b, enabled, config) ==
  reconcile_sys_policy([b EXCEPT !.prefs.want_running = enabled,
                                 !.prefs.config = config,
                                 !.ever_configured = TRUE])

----------------------------------------------------------------------------
(* down, and logout, which stops "unwiped" with the node down and its      *)
(* intent untouched when the key file cannot be removed.                   *)

down_without_bump(b) ==
  LET off == [stop_device(b) EXCEPT !.prefs.want_running = FALSE, !.ever_configured = TRUE]
  IN  IF b.prefs.want_running THEN on_permitted_disconnect(off) ELSE off

down(b) ==
  LET off == [bump_generation(stop_device(b)) EXCEPT !.prefs.want_running = FALSE,
                                                     !.ever_configured = TRUE]
  IN  IF b.prefs.want_running THEN on_permitted_disconnect(off) ELSE off

logout_without_bump(b, stop) ==
  LET off == stop_device(b)
      out == [off EXCEPT !.has_node_key = FALSE,
                         !.prefs.want_running = FALSE,
                         !.prefs.logged_out = TRUE,
                         !.prefs.has_logged_in = FALSE,
                         !.ever_configured = TRUE]
  IN  IF stop = "unwiped" THEN off
      ELSE IF b.prefs.want_running THEN on_permitted_disconnect(out) ELSE out

logout(b, stop) ==
  LET off == bump_generation(stop_device(b))
      out == [off EXCEPT !.has_node_key = FALSE,
                         !.prefs.want_running = FALSE,
                         !.prefs.logged_out = TRUE,
                         !.prefs.has_logged_in = FALSE,
                         !.ever_configured = TRUE]
  IN  IF stop = "unwiped" THEN off
      ELSE IF b.prefs.want_running THEN on_permitted_disconnect(out) ELSE out

logout_disk_records_first(b, d, stop) ==
  LET recorded == persist_prefs(logout(b, "saved"), d, stop)
  IN  IF stop = "unwiped" THEN recorded ELSE remove_key_file(b, recorded)

logout_disk(b, d, stop) ==
  IF stop = "unwiped" THEN d
  ELSE persist_prefs(logout(b, stop), remove_key_file(b, d), stop)

----------------------------------------------------------------------------
(* Profiles.  activate_profile always takes the node down; it adopts the   *)
(* target only when every write succeeded ("saved").  It stops "unloaded"  *)
(* (target prefs unreadable, or profiles.json unwritable) or "unpointed"   *)
(* (listed, the pointer not written).                                      *)

adopt_profile(b, d, target) ==
  [b EXCEPT !.prefs = load_prefs(d, target),
            !.current_profile = target,
            !.ever_configured = (d.prefs[target] # None),
            !.boot_attempted_up = FALSE,
            !.has_node_key = (d.key[target] # 0)]

activate_without_bump(b, d, target, stop) ==
  LET off == stop_device(b)
  IN  IF stop # "saved" THEN off
      ELSE reconcile_sys_policy(reset_always_on_override(adopt_profile(off, d, target)))

activate_with_stale_cache(b, d, target, stop) ==
  LET off == bump_generation(stop_device(b))
      new == [adopt_profile(off, d, target) EXCEPT !.has_node_key = b.has_node_key]
  IN  IF stop # "saved" THEN off ELSE reconcile_sys_policy(reset_always_on_override(new))

activate_before_writes(b, d, target, stop) ==
  reconcile_sys_policy(reset_always_on_override(
    adopt_profile(bump_generation(stop_device(b)), d, target)))

activate_unreconciled(b, d, target, stop) ==
  LET off == bump_generation(stop_device(b))
  IN  IF stop # "saved" THEN off ELSE reset_always_on_override(adopt_profile(off, d, target))

activate_profile(b, d, target, stop) ==
  LET off == bump_generation(stop_device(b))
  IN  IF stop # "saved" THEN off
      ELSE reconcile_sys_policy(reset_always_on_override(adopt_profile(off, d, target)))

activate_profile_disk(d, target, register, stop) ==
  [d EXCEPT
     !.listed = IF stop # "unloaded" /\ register /\ target # default THEN @ \cup {target} ELSE @,
     !.current = IF stop = "saved" THEN target ELSE @]

remove_profile_files(d, p) == [d EXCEPT !.prefs[p] = None, !.key[p] = 0]

(* reset_to_empty_profile: the key file stays.  It stops "unsaved" when    *)
(* prefs.json cannot be removed, with the node down and nothing else done. *)
reset_to_empty_profile(b, stop) ==
  LET off == bump_generation(stop_device(b))
  IN  IF stop = "unsaved" THEN off
      ELSE reconcile_sys_policy(reset_always_on_override(
             [off EXCEPT !.prefs = DefaultPrefs,
                         !.ever_configured = FALSE,
                         !.boot_attempted_up = FALSE]))

reset_to_empty_profile_disk(b, d, stop) ==
  IF stop = "unsaved" THEN d ELSE [d EXCEPT !.prefs[b.current_profile] = None]

----------------------------------------------------------------------------
(* The reconnect timer's fire-time guards: is `armed` still the live       *)
(* arming, and its profile still the current one?                          *)

claim_off_by_one(b, armed) == b.reconnect = armed /\ armed.seq = b.reconnect_seq + 1

claim_due_reconnect(b, armed) == b.reconnect = armed /\ armed.profile = b.current_profile

after_claim(b, armed) == IF b.reconnect = armed THEN [b EXCEPT !.reconnect = None] ELSE b
============================================================================
