------------------------------ MODULE Drivers ------------------------------
(***************************************************************************)
(* The tasks that drive the shared Backend: one per LocalAPI connection    *)
(* (server.rs dispatch), the always-on reconnect loop, and the SIGHUP      *)
(* reload loop and boot auto-start of tailnetd.  A task takes the backend  *)
(* lock, runs one or two Backend methods, and releases it across the slow  *)
(* engine handshake: drive_up, drive_set, drive_reload_config and          *)
(* rebuild_running_device are sequences of locked sections between which   *)
(* every other task may run.  pc[t] is where task t is between two locked  *)
(* sections.                                                               *)
(***************************************************************************)
EXTENDS Backend

CONSTANTS
  Clients,        \* LocalAPI connections
  Sighup,         \* sighup_reload_loop
  Reconnector,    \* reconnect_loop
  Commands,       \* the commands the clients (and the host) issue
  Faults,         \* what may fail: prefs writes ("persist"), key removal ("wipe"),
                  \* profile files ("profile"), begin_up's host checks ("gate"),
                  \* a live engine setter ("engine")
  MaxGeneration,  \* no command starts once the generation has reached this
  MaxKeys,        \* no command that mints starts once this many keys were minted
  MaxRestarts     \* daemon crashes

Tasks == Clients \cup {Sighup, Reconnector}

AllCommands == {"up", "force-reauth", "set", "reload-config", "down", "logout", "switch",
                "create", "new", "delete", "sighup"}

ASSUME DriversAssumption ==
  /\ Sighup \notin Clients /\ Reconnector \notin Clients /\ Sighup # Reconnector
  /\ Commands \subseteq AllCommands
  /\ Faults \subseteq {"persist", "wipe", "profile", "gate", "engine"}
  /\ {MaxGeneration, MaxKeys, MaxRestarts} \subseteq Nat

VARIABLES
  be,        \* the Backend behind the mutex
  disk,      \* the state directory
  pc,        \* where each task is
  pending,   \* the PendingUp (or the engine built from it) each task holds
  armed,     \* reconnect_loop's copy of the arming it sleeps on
  serving,   \* boot is over: the LocalAPI socket and the loops run
  minted,    \* node keys generated so far
  restarts   \* crashes so far

vars == <<be, disk, pc, pending, armed, serving, minted, restarts>>

PCs == {"idle", "begin", "handshake", "built", "failed", "settle",
        "preflight", "rebegin", "bringdown"}

TypeOK ==
  /\ be \in BackendState
  /\ disk \in Disk
  /\ pc \in [Tasks -> PCs]
  /\ pending \in [Tasks -> PendingUp \cup {None}]
  /\ armed \in ReconnectTimer \cup {None}
  /\ serving \in BOOLEAN
  /\ minted \in Nat
  /\ restarts \in Nat

Init ==
  /\ disk = FreshDisk
  /\ be = load(disk)
  /\ pc = [t \in Tasks |-> "idle"]
  /\ pending = [t \in Tasks |-> None]
  /\ armed = None
  /\ serving = FALSE
  /\ minted = 0
  /\ restarts = 0

----------------------------------------------------------------------------
(* Which ways a disk operation may end, given the faults in play.          *)

registers(b, d) == b.prefs.has_logged_in /\ b.current_profile \notin d.listed \cup {default}

PersistStops(b, d) ==
  {"saved"} \cup (IF "persist" \in Faults
                    THEN {"unsaved"} \cup (IF registers(b, d) THEN {"unlisted"} ELSE {})
                    ELSE {})

WipeStops == IF "wipe" \in Faults THEN {"unwiped"} ELSE {}

(* A command may start: it is enabled, its client is idle, bounds allow.   *)
Issue(c, command) ==
  /\ serving
  /\ command \in Commands
  /\ pc[c] = "idle"
  /\ be.generation < MaxGeneration
  /\ minted < MaxKeys

Goto(t, label, held) ==
  /\ pc' = [pc EXCEPT ![t] = label]
  /\ pending' = [pending EXCEPT ![t] = held]

Stay == UNCHANGED <<pc, pending>>

(* UpOptions::default(): every pref as it stands, no force-reauth.         *)
DefaultOpts(b) == [config |-> b.prefs.config, force_reauth |-> FALSE]

BeginUpStops(opts) ==
  PersistStops(begin_up(be, opts, "saved", FALSE), disk)
    \cup (IF opts.force_reauth THEN WipeStops ELSE {})
    \cup (IF "gate" \in Faults THEN {"refused"} ELSE {})

(* The locked section that starts every bring-up.                          *)
BeginUp(t, opts) ==
  \E stop \in BeginUpStops(opts) :
    LET ok    == stop = "saved" /\ opts.config.fixed \notin BadFixed
        fresh == minted + 1
        b     == begin_up(be, opts, stop, ok)
        d     == begin_up_disk(be, disk, opts, stop, fresh)
    IN  /\ be' = b
        /\ disk' = d
        /\ minted' = IF d.key[b.current_profile] = fresh THEN fresh ELSE minted
        /\ IF ok THEN Goto(t, "handshake", pending_up(b, d)) ELSE Goto(t, "idle", None)
        /\ UNCHANGED <<serving, restarts>>

----------------------------------------------------------------------------
(* LocalAPI commands.                                                      *)

Up(c) ==
  \E config \in Settings, force \in BOOLEAN :
    /\ Issue(c, "up")
    /\ force => "force-reauth" \in Commands
    /\ BeginUp(c, [config |-> config, force_reauth |-> force])
    /\ UNCHANGED armed

(* Device::new off-lock: the engine comes up, or it does not.              *)
BuildDevice(t) ==
  \E outcome \in {"built", "failed"} :
    /\ pc[t] = "handshake"
    /\ pc' = [pc EXCEPT ![t] = outcome]
    /\ UNCHANGED <<be, disk, pending, armed, serving, minted, restarts>>

(* finish_up, and the persist that follows it whenever it hands back no    *)
(* orphan; a failure of that persist is only logged.                       *)
FinishUp(t) ==
  LET built == pc[t] = "built"
      stale == superseded(be, pending[t])
      b     == finish_up(be, pending[t], built)
  IN  /\ pc[t] \in {"built", "failed"}
      /\ be' = b
      /\ IF stale /\ built THEN Goto(t, "settle", pending[t]) ELSE Goto(t, "idle", None)
      /\ IF stale = built THEN disk' = disk
         ELSE \E stop \in PersistStops(b, disk) : disk' = persist_prefs(b, disk, stop)
      /\ UNCHANGED <<armed, serving, minted, restarts>>

OrphanLeaks(t) == pc[t] = "settle" /\ UNCHANGED vars

ShutdownOrphan(t) ==
  /\ pc[t] = "settle"
  /\ Goto(t, "idle", None)
  /\ UNCHANGED <<be, disk, armed, serving, minted, restarts>>

(* begin_set, up to the reconcile decision; `rebuild` is needs_rebuild(),  *)
(* `applied` whether every live engine setter succeeded.                   *)
Set(c) ==
  \E config \in Settings, rebuild \in BOOLEAN, applied \in BOOLEAN :
    /\ Issue(c, "set")
    /\ ~applied => "engine" \in Faults
    /\ ~rebuild => config.fixed = be.prefs.config.fixed
    /\ \E stop \in PersistStops(begin_set_prefs(be, config), disk) :
         LET live == stop = "saved" /\ ~rebuild /\ applied
             b    == begin_set(be, config, live)
         IN  /\ be' = b
             /\ disk' = persist_prefs(b, disk, stop)
             /\ IF stop = "saved" /\ rebuild /\ be.device # None
                  THEN Goto(c, "preflight", None) ELSE Stay
    /\ UNCHANGED <<armed, serving, minted, restarts>>

(* What a reload on a running node must do about the engine.               *)
reload_action(b) == IF b.prefs.want_running THEN "preflight" ELSE "bringdown"

(* reload_config and its ReloadAction.                                     *)
ReloadConfig(c) ==
  \E config \in Settings, enabled \in BOOLEAN :
    LET b == apply_config(be, enabled, config)
    IN  /\ Issue(c, "reload-config")
        /\ be' = b
        /\ \E stop \in PersistStops(b, disk) :
             /\ disk' = persist_prefs(b, disk, stop)
             /\ IF stop # "saved" \/ be.device = None THEN Stay
                ELSE Goto(c, reload_action(b), None)
        /\ UNCHANGED <<armed, serving, minted, restarts>>

(* rebuild_running_device, phase 1: build_config with nothing torn down.   *)
Preflight(t) ==
  LET d == load_key_file(be, disk, minted + 1)
  IN  /\ pc[t] = "preflight"
      /\ disk' = d
      /\ minted' = IF d # disk THEN minted + 1 ELSE minted
      /\ Goto(t, IF build_config_ok(be) THEN "rebegin" ELSE "idle", None)
      /\ UNCHANGED <<be, armed, serving, restarts>>

Rebegin(t) ==
  /\ pc[t] = "rebegin"
  /\ BeginUp(t, DefaultOpts(be))
  /\ UNCHANGED armed

(* down, by an operator with or without a reason.                          *)
Down(c) ==
  \E reason \in BOOLEAN :
    /\ Issue(c, "down")
    /\ check_disconnect_policy(be, reason)
    /\ be' = down(be)
    /\ \E stop \in PersistStops(be', disk) : disk' = persist_prefs(be', disk, stop)
    /\ Stay
    /\ UNCHANGED <<armed, serving, minted, restarts>>

(* ReloadAction::BringDown: down as Actor::Daemon, no policy consulted.    *)
BringDown(t) ==
  /\ pc[t] = "bringdown"
  /\ be' = down(be)
  /\ \E stop \in PersistStops(be', disk) : disk' = persist_prefs(be', disk, stop)
  /\ Goto(t, "idle", None)
  /\ UNCHANGED <<armed, serving, minted, restarts>>

Logout(c) ==
  \E reason \in BOOLEAN, stop \in PersistStops(logout(be, "saved"), disk) \cup WipeStops :
    /\ Issue(c, "logout")
    /\ check_disconnect_policy(be, reason)
    /\ be' = logout(be, stop)
    /\ disk' = logout_disk(be, disk, stop)
    /\ Stay
    /\ UNCHANGED <<armed, serving, minted, restarts>>

----------------------------------------------------------------------------
(* Profile commands.                                                       *)

ActivateStops == {"saved"} \cup (IF "profile" \in Faults THEN {"unloaded", "unpointed"} ELSE {})

Activate(d, target, register) ==
  \E stop \in ActivateStops :
    /\ be' = activate_profile(be, d, target, stop)
    /\ disk' = activate_profile_disk(d, target, register, stop)
    /\ Stay
    /\ UNCHANGED <<armed, serving, minted, restarts>>

SwitchProfile(c) ==
  \E target \in disk.listed \cup {default} :
    /\ Issue(c, "switch")
    /\ target # be.current_profile
    /\ Activate(disk, target, TRUE)

CreateProfile(c) ==
  \E target \in Profiles \ (disk.listed \cup {default}) :
    /\ Issue(c, "create")
    /\ target # be.current_profile
    /\ Activate(disk, target, TRUE)

(* switch_to_empty_profile from a logged-in profile: an unused id, its     *)
(* leftover files cleared, not listed yet.                                 *)
SwitchToEmptyProfile(c) ==
  \E target \in Profiles \ (disk.listed \cup {default, be.current_profile}) :
    /\ Issue(c, "new")
    /\ be.prefs.has_logged_in
    /\ Activate(remove_profile_files(disk, target), target, FALSE)

(* ... and from one that never logged in: it is reset in place.            *)
ResetToEmptyProfile(c) ==
  \E stop \in {"saved"} \cup (IF "profile" \in Faults THEN {"unsaved"} ELSE {}) :
    /\ Issue(c, "new")
    /\ ~be.prefs.has_logged_in
    /\ be.ever_configured \/ be.device # None
    /\ be' = reset_to_empty_profile(be, stop)
    /\ disk' = reset_to_empty_profile_disk(be, disk, stop)
    /\ Stay
    /\ UNCHANGED <<armed, serving, minted, restarts>>

(* delete_profile: the files, then the profiles.json entry.                *)
DeleteProfile(c) ==
  \E target \in disk.listed \ {default, be.current_profile},
     listed \in BOOLEAN :
    /\ Issue(c, "delete")
    /\ listed => "profile" \in Faults
    /\ disk' = [remove_profile_files(disk, target) EXCEPT
                  !.listed = IF listed THEN @ ELSE @ \ {target}]
    /\ Stay
    /\ UNCHANGED <<be, armed, serving, minted, restarts>>

----------------------------------------------------------------------------
(* The reconnect loop: copy the cell, sleep, claim the arming under the    *)
(* lock, and only then start a bring-up in a second locked section.        *)

ReadArming ==
  /\ serving
  /\ pc[Reconnector] = "idle"
  /\ armed # be.reconnect
  /\ armed' = be.reconnect
  /\ UNCHANGED <<be, disk, pc, pending, serving, minted, restarts>>

ReconnectNow ==
  /\ serving
  /\ pc[Reconnector] = "idle"
  /\ armed # None
  /\ IF claim_due_reconnect(be, armed)
       THEN Goto(Reconnector, "begin", None) /\ UNCHANGED armed
       ELSE Stay /\ armed' = None
  /\ be' = after_claim(be, armed)
  /\ UNCHANGED <<disk, serving, minted, restarts>>

(* reconcile_on_reload's snapshot; `up` is whether the engine, if there is *)
(* one, reports Running or Starting.                                       *)
ReconcileOnReload ==
  \E up \in BOOLEAN :
    /\ Issue(Sighup, "sighup")
    /\ wants_running(be)
    /\ ~(be.device # None /\ up)
    /\ be.boot_attempted_up
    /\ Goto(Sighup, "begin", None)
    /\ UNCHANGED <<be, disk, armed, serving, minted, restarts>>

DriveUp(t) ==
  /\ pc[t] = "begin"
  /\ BeginUp(t, DefaultOpts(be))
  /\ armed' = IF t = Reconnector THEN None ELSE armed

----------------------------------------------------------------------------
(* Boot: auto_start runs the whole bring-up inline, before the socket is   *)
(* served.  A crash loses everything but the state directory.              *)

AutoStart ==
  /\ ~serving
  /\ serving' = TRUE
  /\ IF ~wants_running(be) THEN UNCHANGED <<be, disk, minted>>
     ELSE LET boot == [be EXCEPT !.boot_attempted_up = TRUE]
              opts == DefaultOpts(be)
          IN  \E stop \in BeginUpStops(opts), built \in BOOLEAN :
                LET ok    == stop = "saved" /\ opts.config.fixed \notin BadFixed
                    fresh == minted + 1
                    begun == begin_up(boot, opts, stop, ok)
                    d     == begin_up_disk(boot, disk, opts, stop, fresh)
                    b     == IF ok THEN finish_up(begun, pending_up(begun, d), built) ELSE begun
                IN  /\ be' = b
                    /\ minted' = IF d.key[b.current_profile] = fresh THEN fresh ELSE minted
                    /\ IF ok /\ built
                         THEN \E last \in PersistStops(b, d) : disk' = persist_prefs(b, d, last)
                         ELSE disk' = d
  /\ UNCHANGED <<pc, pending, armed, restarts>>

Crash ==
  /\ restarts < MaxRestarts
  /\ restarts' = restarts + 1
  /\ be' = load(disk)
  /\ pc' = [t \in Tasks |-> "idle"]
  /\ pending' = [t \in Tasks |-> None]
  /\ armed' = None
  /\ serving' = FALSE
  /\ UNCHANGED <<disk, minted>>

----------------------------------------------------------------------------
Command(c) ==
  \/ Up(c) \/ Set(c) \/ ReloadConfig(c) \/ Down(c) \/ Logout(c)
  \/ SwitchProfile(c) \/ CreateProfile(c) \/ SwitchToEmptyProfile(c)
  \/ ResetToEmptyProfile(c) \/ DeleteProfile(c)

(* What a task that has started something does next.                       *)
Proceed(t) ==
  \/ BuildDevice(t) \/ FinishUp(t) \/ ShutdownOrphan(t)
  \/ Preflight(t) \/ Rebegin(t) \/ BringDown(t) \/ DriveUp(t)

Next ==
  \/ \E c \in Clients : Command(c)
  \/ \E t \in Tasks : Proceed(t)
  \/ ReadArming \/ ReconnectNow \/ ReconcileOnReload
  \/ AutoStart \/ Crash

Spec == Init /\ [][Next]_vars

(* The scheduler runs a ready task; Device::new returns, by its own        *)
(* timeouts, with an engine or an error; the reconnect timer expires.      *)
FairSpec ==
  /\ Spec
  /\ \A t \in Tasks : WF_vars(Proceed(t))
  /\ WF_vars(ReadArming) /\ WF_vars(ReconnectNow) /\ WF_vars(AutoStart)

----------------------------------------------------------------------------
InFlight(t) == pc[t] \in {"handshake", "built", "failed"}

Live == be.device # None

(* The running engine is the current profile's node: it was built for the  *)
(* profile the backend is on.  A switch that lands during a handshake must *)
(* not let the old profile's engine in (activate_profile, finish_up).      *)
DeviceOnCurrentProfile == Live => be.device.profile = be.current_profile

(* The running engine holds the node key that is on disk, so a restart     *)
(* resumes the same node, and no engine runs on a key that logout or       *)
(* force-reauth discarded (discard_node_key).                              *)
DeviceKeyOnDisk == Live => be.device.key = disk.key[be.current_profile]

(* An attempt, or an engine, belongs: it is for the current profile, with  *)
(* its key on disk, and the node is wanted up.  (A force-reauth that fails *)
(* after its wipe breaks the key part, a reload-config the intent.)        *)
Belongs(p) ==
  /\ p.profile = be.current_profile
  /\ "force-reauth" \notin Commands => p.key # 0 /\ p.key = disk.key[be.current_profile]
  /\ "reload-config" \notin Commands => wants_running(be)

(* The generation guard: of the attempts whose handshake is in flight,     *)
(* only one that nothing superseded can still be installed (finish_up),    *)
(* and it finds no engine to overwrite, the profile and the key it was     *)
(* begun with, and a node that is still wanted.                            *)
AttemptGuard ==
  \A t \in Tasks : InFlight(t) =>
    /\ pending[t] \in PendingUp
    /\ pending[t].generation <= be.generation
    /\ ~superseded(be, pending[t]) => ~Live /\ Belongs(pending[t])

(* The daemon keeps the promise of Node.tla.                               *)
Promise == INSTANCE Node WITH
  profile <- be.current_profile,
  key     <- disk.key[be.current_profile],
  engine  <- IF Live THEN [id |-> be.device.generation, profile |-> be.device.profile,
                           key |-> be.device.key]
             ELSE None

(* Every step of the tasks is a step of the promised node: the engine      *)
(* starts only on the current profile and its key on disk, neither changes *)
(* while it runs, and finish_up never overwrites a live engine, whichever  *)
(* command lands during a handshake (begin_up, activate_profile, logout).  *)
KeepsPromise == Promise!Spec

(* An engine runs only while the node is meant to be up and logged in, or  *)
(* while the task that is about to stop it waits for the lock.             *)
DeviceIsWanted == Live => wants_running(be) \/ \E t \in Tasks : pc[t] = "bringdown"

(* A profile that is logged out on disk has no node key on disk, whatever  *)
(* write failed or crash came: logout wipes before it records.             *)
LoggedOutKeyGone ==
  \A p \in Profiles : disk.prefs[p] # None /\ disk.prefs[p].logged_out => disk.key[p] = 0

(* The has_node_key cache agrees with the key file of the current profile. *)
KeyCacheAgrees == be.has_node_key <=> disk.key[be.current_profile] # 0

(* Under AlwaysOn the node is wanted up unless a disconnect the policy     *)
(* permitted stands, whatever switch, reload or restart came since.        *)
AlwaysOnHolds == AlwaysOn => be.prefs.want_running \/ be.override_always_on

(* A rebuild (set or reload-config on a running node) acts on the node it  *)
(* was decided for: it neither starts a node that was taken down in the    *)
(* meantime nor changes want_running.                                      *)
RebuildNeverStartsNode ==
  [][\A t \in Tasks : pc[t] = "rebegin" /\ pc'[t] # "rebegin" /\ serving'
       => be'.prefs.want_running = be.prefs.want_running]_vars

(* The backend and the current-profile pointer name the same profile: a    *)
(* failed switch leaves both on the old one.                               *)
PointerAgrees == be.current_profile = disk.current

(* A started command finishes and a superseded engine is shut down: no     *)
(* task keeps its PendingUp or its orphan for ever.                        *)
TasksFinish == \A t \in Tasks : pc[t] # "idle" ~> pc[t] = "idle"

(* A permitted disconnect under ReconnectAfter ends: the node is wanted up *)
(* again, or the daemon restarted or moved to another profile.             *)
ReconnectHappens ==
  \A p \in Profiles :
    be.reconnect # None /\ be.current_profile = p
      ~> be.prefs.want_running \/ be.current_profile # p \/ ~serving
============================================================================
