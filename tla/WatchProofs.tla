---------------------------- MODULE WatchProofs ----------------------------
(***************************************************************************)
(* Proofs that a watcher is never left behind, for any number of tasks,    *)
(* engines and engine states: whatever the tasks of Drivers.tla do between *)
(* two steps of the stream, a watcher that nothing will wake again has     *)
(* been told what stands.                                                  *)
(***************************************************************************)
EXTENDS Watch, DriversProofs

Places == {"front-load", "derive", "parked", "deaf", "refresh", "attach", "baseline",
           "status", "status-prefs", "prefs"}

Report ==
  [state : {"Running", "NeedsLogin", "NeedsMachineAuth", "Starting", "Stopped", "NoState"},
   auth_url : BOOLEAN, error : BOOLEAN]

Connection ==
  [mask : Mask, at : Places, then : {"derive", "parked", "deaf"}, life : Nat,
   rx : Nat \cup {None}, bus : {"off", "spawned", "on"}, queue : Seq(EngineStates),
   prefs_due : BOOLEAN, owed : BOOLEAN, first : {None, "id", "status", "prefs", "engine"},
   state : Report \cup {None},
   prefs : Settings \cup {None}]

(* c listens to the engine installed in b.                                 *)
Tuned(c, b) == c.rx # None /\ c.rx = device_id(b)

(* c is about to derive its next epoch.                                    *)
Between(c) ==
  \/ c.at \in {"front-load", "derive"}
  \/ c.at \in {"status", "status-prefs", "prefs"} /\ c.then = "derive"

(* c hears of the lifecycle only, or will once it has sent what it owes.   *)
Deaf(c) ==
  \/ c.at = "deaf"
  \/ c.at \in {"status", "status-prefs", "prefs"} /\ c.then = "deaf"

(* A connection has seen no generation that is still to come, and holds a  *)
(* bus or a queue only with an engine.                                     *)
Past(c, b) ==
  /\ c.life <= b.generation
  /\ c.rx # None => c.rx < b.generation
  /\ c.rx = None => c.bus = "off" /\ c.queue = <<>>
  /\ Between(c) \/ Deaf(c) => c.rx = None

(* While its lifecycle mark is current, an epoch that was derived listens  *)
(* to the engine that is installed.                                        *)
Listens(c, b) ==
  ~Between(c) /\ c.life = b.generation /\ b.device # None => Tuned(c, b)

(* stream_watch: no bus; a refresh is owed to a receiver; parked with      *)
(* nothing unseen it has told the engine's state.                          *)
StatusTold(c, b, e) ==
  bare(c) =>
    /\ c.at \in {"derive", "parked", "refresh"} /\ c.bus = "off"
    /\ c.at = "refresh" => c.rx # None
    /\ c.at = "parked" /\ Tuned(c, b) /\ c.queue = <<>> => c.state = state_from_device(e)

(* stream_notify: an engine it listens to has a bus once attached; the     *)
(* newest queued frame is the engine's state, and with none queued that    *)
(* state was sent, unless the owed snapshot is about to send it.           *)
FramesTold(c, b, e) ==
  ~bare(c) =>
    /\ c.at # "refresh"
    /\ c.at = "attach" => c.rx # None /\ c.bus = "off" /\ c.queue = <<>>
    /\ c.rx # None /\ c.at # "attach" => c.bus # "off"
    /\ Tuned(c, b) /\ c.bus = "on" /\ c.queue # <<>> => c.queue[Len(c.queue)] = e
    /\ /\ c.mask.initial_state /\ Tuned(c, b) /\ c.bus = "on"
       /\ c.queue = <<>> /\ c.at \notin {"baseline", "status"}
       => c.state = state_from_device(e)

(* The snapshot is owed until the first epoch has sent it.                 *)
Owing(c) ==
  /\ c.owed => c.mask.initial_status /\ c.at \in {"derive", "attach", "baseline", "status"}
  /\ c.at = "baseline" => c.owed

(* Parked without an engine, the status told is the one that stands, as    *)
(* long as no reload-config and no failing build_config changes the intent *)
(* without a bump of the generation.                                       *)
DownTold(c, b) ==
  /\ "reload-config" \notin Commands /\ BadFixed = {}
  /\ bare(c) /\ c.at = "parked" /\ c.rx = None /\ c.life = b.generation
  => c.state = report(derive_state(b), FALSE, FALSE)

(* The prefs told are the ones that stand, or a tick or a front-load is on *)
(* its way, as long as no switch of profile replaces them without a tick.  *)
PrefsTold(c, b) ==
  /\ Commands \cap {"switch", "create", "new"} = {}
  /\ c.mask.prefs /\ ~c.prefs_due /\ ~c.owed
  /\ c.at \notin {"front-load", "status-prefs", "prefs"}
  => c.prefs = prefs_view(b)

Followed(c, b, e) ==
  /\ c \in Connection
  /\ Past(c, b) /\ Listens(c, b) /\ Owing(c)
  /\ StatusTold(c, b, e) /\ FramesTold(c, b, e) /\ DownTold(c, b)

(* An installed engine is older than the generation its finish_up left.    *)
Older(b) == b.device # None => b.device.generation < b.generation

WatchInv ==
  /\ Older(be)
  /\ Live => engine \in EngineStates
  /\ conn # None => serving /\ Followed(conn, be, engine) /\ PrefsTold(conn, be)
----------------------------------------------------------------------------

(* What a step of the tasks does to the engine: the generation moves, and  *)
(* an engine found after it carries the old one; or it stays, and so does  *)
(* any engine left, and the status of a node without one.                  *)
Moves(b, a) ==
  \/ /\ a.generation > b.generation
     /\ a.device # None => a.device.generation = b.generation
  \/ /\ a.generation = b.generation
     /\ a.device # None => b.device # None /\ a.device.generation = b.device.generation
     /\ "reload-config" \notin Commands /\ BadFixed = {} /\ b.device = None
          => derive_state(a) = derive_state(b)

SameProfile(b, a) ==
  Commands \cap {"switch", "create", "new"} = {} => a.current_profile = b.current_profile

LEMMA NoFaults ==
  ASSUME NEW opts, NEW stop \in BeginUpStops(opts)
  PROVE  stop = "saved"
BY WatchAssumption DEF BeginUpStops, PersistStops, WipeStops

LEMMA BeginUpMoves ==
  ASSUME TypeOK, NEW t \in Tasks, NEW opts \in Opts, BeginUp(t, opts)
  PROVE  Moves(be, be') /\ SameProfile(be, be')
<1>1. PICK stop \in BeginUpStops(opts) :
        be' = begin_up(be, opts, stop, stop = "saved" /\ opts.config.fixed \notin BadFixed)
  BY DEF BeginUp
<1> DEFINE ok == stop = "saved" /\ opts.config.fixed \notin BadFixed
           a  == begin_up(be, opts, stop, ok)
<1>2. be \in BackendState /\ be.generation \in Nat /\ ok \in BOOLEAN /\ stop = "saved"
  BY NoFaults DEF TypeOK, BackendState
<1>3. ok \/ BadFixed # {}
  BY <1>2
<1>4. be' = a
  BY <1>1
<1> HIDE DEF ok
<1>5. /\ a.device = None /\ a.current_profile = be.current_profile
      /\ a.generation = IF ok THEN be.generation + 1 ELSE be.generation
  BY <1>2, BeginUpEffect
<1> HIDE DEF a
<1> QED
  BY <1>2, <1>3, <1>4, <1>5 DEF Moves, SameProfile

(* A set keeps the status of a node without an engine: under AlwaysOn the  *)
(* node was wanted up, or its exemption stands.                            *)
LEMMA SetMoves ==
  ASSUME NEW b \in BackendState, NEW config \in Settings, NEW live \in BOOLEAN,
         AlwaysOn => b.prefs.want_running \/ b.override_always_on
  PROVE  Moves(b, begin_set(b, config, live)) /\ SameProfile(b, begin_set(b, config, live))
<1> DEFINE new == [b EXCEPT !.prefs.config = config, !.ever_configured = TRUE]
           set == begin_set_prefs(b, config)
           a   == begin_set(b, config, live)
<1>1. /\ new \in BackendState /\ new.prefs.logged_out = b.prefs.logged_out
      /\ new.has_node_key = b.has_node_key
  BY DEF BackendState, Prefs
<1>2. set = reconcile_sys_policy(new)
  BY DEF begin_set_prefs
<1> HIDE DEF new
<1>3. set.prefs.logged_out = b.prefs.logged_out /\ set.has_node_key = b.has_node_key
  BY <1>1, <1>2, ReconcileEffect, CacheEffect
<1>4. set.prefs.want_running <=> b.prefs.want_running
  BY BeginSetPrefsEffect
<1>5. b.device = None => a = set
  BY DEF begin_set
<1>6. /\ a.generation = b.generation /\ a.current_profile = b.current_profile
      /\ b.device = None => a.device = None
      /\ b.device # None => a.device.generation = b.device.generation
  BY BeginSetEffect
<1> HIDE DEF set, a
<1>7. b.device = None => derive_state(a) = derive_state(b)
  BY <1>3, <1>4, <1>5 DEF derive_state
<1> QED
  BY <1>6, <1>7 DEF Moves, SameProfile, a

LEMMA CommandMoves ==
  ASSUME TypeOK, Agree(be, disk), NEW c \in Clients, Command(c)
  PROVE  Moves(be, be') /\ SameProfile(be, be')
<1>0. be \in BackendState /\ disk \in Disk /\ c \in Tasks /\ be.generation \in Nat
  BY DEF TypeOK, Tasks, BackendState
<1>1. CASE Up(c)
  <2>1. PICK config \in Settings, force \in BOOLEAN :
          BeginUp(c, [config |-> config, force_reauth |-> force])
    BY <1>1 DEF Up
  <2>2. [config |-> config, force_reauth |-> force] \in Opts
    BY DEF Opts
  <2> QED
    BY <1>0, <2>1, <2>2, BeginUpMoves
<1>2. CASE Set(c)
  <2>1. PICK config \in Settings, live \in BOOLEAN : be' = begin_set(be, config, live)
    BY <1>2 DEF Set
  <2> QED
    BY <1>0, <2>1, SetMoves DEF Agree
<1>3. CASE ReloadConfig(c)
  <2>1. PICK config \in Settings, enabled \in BOOLEAN :
          "reload-config" \in Commands /\ be' = apply_config(be, enabled, config)
    BY <1>3 DEF ReloadConfig, Issue
  <2>2. /\ be'.device = be.device /\ be'.generation = be.generation
        /\ be'.current_profile = be.current_profile
    BY <1>0, <2>1, ApplyConfigEffect
  <2> QED
    BY <2>1, <2>2 DEF Moves, SameProfile
<1>4. ASSUME be'.device = None, be'.generation = be.generation + 1,
             be'.current_profile = be.current_profile \/ Commands \cap {"switch", "create", "new"} # {}
      PROVE  Moves(be, be') /\ SameProfile(be, be')
  BY <1>0, <1>4 DEF Moves, SameProfile
<1>5. CASE Down(c)
  BY <1>0, <1>4, <1>5, DownEffect DEF Down
<1>6. CASE Logout(c)
  BY <1>0, <1>4, <1>6, LogoutEffect DEF Logout
<1>7. ASSUME NEW d \in Disk, NEW target \in Profiles, NEW register, Activate(d, target, register),
             Commands \cap {"switch", "create", "new"} # {}
      PROVE  Moves(be, be') /\ SameProfile(be, be')
  BY <1>0, <1>4, <1>7, ActivateEffect DEF Activate
<1>8. CASE SwitchProfile(c) \/ CreateProfile(c)
  <2>1. PICK target \in Profiles : Activate(disk, target, TRUE)
    BY <1>0, <1>8, BackendAssumption DEF SwitchProfile, CreateProfile, Disk
  <2>2. Commands \cap {"switch", "create", "new"} # {}
    BY <1>8 DEF SwitchProfile, CreateProfile, Issue
  <2> QED
    BY <1>0, <1>7, <2>1, <2>2
<1>9. CASE SwitchToEmptyProfile(c)
  <2>1. PICK target \in Profiles : Activate(remove_profile_files(disk, target), target, FALSE)
    BY <1>9 DEF SwitchToEmptyProfile
  <2>2. remove_profile_files(disk, target) \in Disk
    BY <1>0, RemoveFilesType
  <2>3. Commands \cap {"switch", "create", "new"} # {}
    BY <1>9 DEF SwitchToEmptyProfile, Issue
  <2> QED
    BY <1>7, <2>1, <2>2, <2>3
<1>10. CASE ResetToEmptyProfile(c)
  BY <1>0, <1>4, <1>10, ResetToEmptyEffect DEF ResetToEmptyProfile
<1>11. CASE DeleteProfile(c)
  BY <1>11 DEF DeleteProfile, Moves, SameProfile
<1> QED
  BY <1>1, <1>2, <1>3, <1>5, <1>6, <1>8, <1>9, <1>10, <1>11 DEF Command

LEMMA TaskMoves ==
  ASSUME IInv, Agree(be, disk), Next, serving, serving'
  PROVE  Moves(be, be') /\ SameProfile(be, be')
<1>0. TypeOK /\ be \in BackendState /\ disk \in Disk /\ be.generation \in Nat
  BY DEF IInv, TypeOK, BackendState
<1>1. ASSUME be' = be PROVE Moves(be, be') /\ SameProfile(be, be')
  BY <1>1 DEF Moves, SameProfile
<1>2. CASE \E c \in Clients : Command(c)
  BY <1>0, <1>2, CommandMoves
<1>3. CASE \E t \in Tasks : Proceed(t)
  <2>1. PICK t \in Tasks : Proceed(t)
    BY <1>3
  <2>2. CASE BuildDevice(t) \/ ShutdownOrphan(t) \/ Preflight(t)
    BY <1>1, <2>2 DEF BuildDevice, ShutdownOrphan, Preflight
  <2>3. CASE FinishUp(t)
    <3> DEFINE built == pc[t] = "built"
    <3>1. be' = finish_up(be, pending[t], built) /\ InFlight(t)
      BY <2>3 DEF FinishUp, InFlight
    <3>2. pending[t] \in PendingUp /\ built \in BOOLEAN
      BY <3>1 DEF IInv, AttemptGuard
    <3>3. /\ superseded(be, pending[t]) \/ ~built => be' = be
          /\ ~superseded(be, pending[t]) /\ built =>
               be'.device = pending[t] /\ be'.generation = be.generation + 1
          /\ be'.current_profile = be.current_profile
      BY <1>0, <3>1, <3>2, FinishUpEffect
    <3> QED
      BY <1>0, <1>1, <3>3 DEF superseded, Moves, SameProfile
  <2>4. CASE Rebegin(t) \/ DriveUp(t)
    BY <1>0, <2>4, DefaultOptsType, BeginUpMoves DEF Rebegin, DriveUp
  <2>5. CASE BringDown(t)
    <3>1. /\ be'.device = None /\ be'.generation = be.generation + 1
          /\ be'.current_profile = be.current_profile
      BY <1>0, <2>5, DownEffect DEF BringDown
    <3> QED
      BY <1>0, <3>1 DEF Moves, SameProfile
  <2> QED
    BY <2>1, <2>2, <2>3, <2>4, <2>5 DEF Proceed
<1>4. CASE ReadArming \/ ReconcileOnReload
  BY <1>1, <1>4 DEF ReadArming, ReconcileOnReload
<1>5. CASE ReconnectNow
  <2>1. /\ be'.device = be.device /\ be'.generation = be.generation /\ be'.prefs = be.prefs
        /\ be'.current_profile = be.current_profile
    BY <1>0, <1>5, AfterClaimEffect DEF ReconnectNow
  <2>2. be'.has_node_key = be.has_node_key
    BY <1>0, <1>5 DEF ReconnectNow, after_claim, BackendState
  <2> QED
    BY <2>1, <2>2 DEF Moves, SameProfile, derive_state
<1>6. ~AutoStart /\ ~Crash
  BY DEF AutoStart, Crash
<1> QED
  BY <1>2, <1>3, <1>4, <1>5, <1>6 DEF Next

(* Only auto_start and a crash cross the border of serving.                *)
LEMMA Borders ==
  ASSUME IInv, Next
  PROVE  (serving /\ serving') \/ AutoStart \/ Crash
<1>0. serving \in BOOLEAN
  BY DEF IInv, TypeOK
<1>1. CASE \E c \in Clients : Command(c)
  <2>1. PICK c \in Clients : Command(c)
    BY <1>1
  <2>2. CASE Up(c)
    BY <1>0, <2>2 DEF Up, Issue, BeginUp
  <2>3. CASE Set(c) \/ ReloadConfig(c) \/ Down(c) \/ Logout(c)
    BY <1>0, <2>3 DEF Set, ReloadConfig, Down, Logout, Issue
  <2>4. CASE SwitchProfile(c) \/ CreateProfile(c) \/ SwitchToEmptyProfile(c)
    BY <1>0, <2>4 DEF SwitchProfile, CreateProfile, SwitchToEmptyProfile, Activate, Issue
  <2>5. CASE ResetToEmptyProfile(c) \/ DeleteProfile(c)
    BY <1>0, <2>5 DEF ResetToEmptyProfile, DeleteProfile, Issue
  <2> QED
    BY <2>1, <2>2, <2>3, <2>4, <2>5 DEF Command
<1>2. CASE \E t \in Tasks : Proceed(t)
  <2>1. PICK t \in Tasks : Proceed(t)
    BY <1>2
  <2>2. pc[t] # "idle" /\ serving' = serving
    BY <2>1 DEF Proceed, BuildDevice, FinishUp, ShutdownOrphan, Preflight, Rebegin, BringDown,
                DriveUp, BeginUp
  <2> QED
    BY <1>0, <2>2 DEF BootGuard, IInv
<1>3. CASE ReadArming \/ ReconnectNow \/ ReconcileOnReload
  BY <1>0, <1>3 DEF ReadArming, ReconnectNow, ReconcileOnReload, Issue
<1> QED
  BY <1>1, <1>2, <1>3 DEF Next

(* auto_start's engine is older than its generation too.                   *)
LEMMA AutoStartOlder ==
  ASSUME IInv, AutoStart
  PROVE  Older(be')
<1> DEFINE boot == [be EXCEPT !.boot_attempted_up = TRUE]
           opts == DefaultOpts(be)
<1>0. be \in BackendState /\ disk \in Disk /\ be.device = None /\ minted + 1 \in Nat \ {0}
  BY DEF IInv, TypeOK, BootGuard, Live, AutoStart
<1>1. boot \in BackendState /\ opts \in Opts /\ boot.device = None
  BY <1>0, DefaultOptsType DEF BackendState
<1>2. CASE ~wants_running(be)
  BY <1>0, <1>2 DEF AutoStart, Older
<1>3. CASE wants_running(be)
  <2>1. PICK stop \in BeginUpStops(opts), built \in BOOLEAN :
          LET ok    == stop = "saved" /\ opts.config.fixed \notin BadFixed
              begun == begin_up(boot, opts, stop, ok)
              d     == begin_up_disk(boot, disk, opts, stop, minted + 1)
          IN  be' = IF ok THEN finish_up(begun, pending_up(begun, d), built) ELSE begun
    BY <1>3 DEF AutoStart
  <2> DEFINE ok    == stop = "saved" /\ opts.config.fixed \notin BadFixed
             begun == begin_up(boot, opts, stop, ok)
             d     == begin_up_disk(boot, disk, opts, stop, minted + 1)
             held  == pending_up(begun, d)
  <2> HIDE DEF boot, opts
  <2>2. ok \in BOOLEAN /\ (ok => stop = "saved")
    OBVIOUS
  <2>3. be' = IF ok THEN finish_up(begun, held, built) ELSE begun
    BY <2>1
  <2> HIDE DEF ok
  <2>4. begun \in BackendState /\ begun.generation \in Nat /\ begun.device = None
    <3>1. begun \in BackendState
      BY <1>1, <2>2, BeginUpType
    <3>2. stop = "refused" => begun = boot
      BY <1>1, <2>2, BeginUpEffect
    <3>3. stop # "refused" => begun.device = None
      BY <1>1, <2>2, BeginUpEffect
    <3> QED
      BY <1>1, <3>1, <3>2, <3>3 DEF BackendState
  <2>5. d \in Disk
    BY <1>0, <1>1, BeginUpDiskType
  <2> HIDE DEF begun, d
  <2>6. held \in PendingUp /\ held.generation = begun.generation
    BY <2>4, <2>5, PendingType DEF pending_up
  <2> HIDE DEF held
  <2>7. LET a == finish_up(begun, held, built)
        IN  a = begun \/ (a.device = held /\ a.generation = begun.generation + 1)
    BY <2>4, <2>6, FinishUpEffect
  <2> QED
    BY <2>3, <2>4, <2>6, <2>7 DEF Older
<1> QED
  BY <1>2, <1>3

LEMMA TaskOlder ==
  ASSUME IInv, Agree(be, disk), Older(be), Next
  PROVE  Older(be')
<1>0. be \in BackendState /\ be' \in BackendState /\ disk \in Disk
  BY NextType DEF IInv, TypeOK
<1>1. CASE serving /\ serving'
  BY <1>0, <1>1, TaskMoves DEF Moves, Older, BackendState, PendingUp
<1>2. CASE Crash
  BY <1>0, <1>2, LoadEffect DEF Crash, Older
<1> QED
  BY <1>1, <1>2, AutoStartOlder, Borders

(* A step of the tasks leaves a connection followed.                       *)
LEMMA TickedFields ==
  ASSUME NEW c \in Connection
  PROVE  LET d == Ticked(c)
         IN  /\ d \in Connection
             /\ d.mask = c.mask /\ d.at = c.at /\ d.then = c.then /\ d.life = c.life
             /\ d.rx = c.rx /\ d.bus = c.bus /\ d.queue = c.queue /\ d.owed = c.owed
             /\ d.state = c.state /\ d.prefs = c.prefs /\ d.prefs_due = c.mask.prefs
BY DEF Ticked, Connection, Mask

LEMMA TickedFollowed ==
  ASSUME NEW c, NEW b, NEW e, Followed(c, b, e)
  PROVE  Followed(Ticked(c), b, e)
<1> DEFINE d == Ticked(c)
<1>1. c \in Connection
  BY DEF Followed
<1>2. /\ d \in Connection
      /\ d.mask = c.mask /\ d.at = c.at /\ d.then = c.then /\ d.life = c.life
      /\ d.rx = c.rx /\ d.bus = c.bus /\ d.queue = c.queue /\ d.owed = c.owed
      /\ d.state = c.state
  BY <1>1, TickedFields
<1> HIDE DEF d
<1> QED
  BY <1>2 DEF Followed, Past, Listens, StatusTold, FramesTold, DownTold, Owing, Between, Deaf, Tuned,
       bare, d

(* An engine the connection listens to after the step is the one it        *)
(* listened to before.                                                     *)
LEMMA StillTuned ==
  ASSUME NEW c, NEW b \in BackendState, NEW a \in BackendState,
         c.rx # None => c.rx \in Nat /\ c.rx < b.generation,
         Moves(b, a), Tuned(c, a)
  PROVE  Tuned(c, b)
<1>1. a.device # None /\ c.rx = a.device.generation /\ c.rx < b.generation
  BY DEF Tuned, device_id
<1>2. a.device.generation # b.generation
  BY <1>1 DEF BackendState
<1>3. b.device # None /\ a.device.generation = b.device.generation
  BY <1>1, <1>2 DEF Moves
<1> QED
  BY <1>1, <1>3 DEF Tuned, device_id

LEMMA TaskFollowed ==
  ASSUME NEW c, NEW b \in BackendState, NEW a \in BackendState, NEW e, NEW f,
         Followed(c, b, e), Moves(b, a),
         Tuned(c, b) /\ Tuned(c, a) => f = e
  PROVE  Followed(c, a, f)
<1>1. /\ c \in Connection /\ c.rx \in Nat \cup {None} /\ c.life \in Nat
      /\ a.generation \in Nat /\ b.generation \in Nat
      /\ Past(c, b) /\ Listens(c, b) /\ StatusTold(c, b, e) /\ FramesTold(c, b, e) /\ Owing(c)
      /\ DownTold(c, b)
  BY DEF Followed, Connection, BackendState
<1>2. Tuned(c, a) => Tuned(c, b) /\ f = e
  <2>1. c.rx # None => c.rx \in Nat /\ c.rx < b.generation
    BY <1>1 DEF Past
  <2> QED
    BY <2>1, StillTuned
<1>3. a.generation >= b.generation
  BY <1>1 DEF Moves
<1>4. Past(c, a)
  BY <1>1, <1>3 DEF Past
<1>5. Listens(c, a)
  <2> SUFFICES ASSUME ~Between(c), c.life = a.generation, a.device # None
               PROVE  Tuned(c, a)
    BY DEF Listens
  <2>1. a.generation = b.generation
    BY <1>1, <1>3 DEF Past
  <2>2. b.device # None /\ a.device.generation = b.device.generation
    BY <1>1, <2>1 DEF Moves
  <2>3. Tuned(c, b)
    BY <1>1, <2>1, <2>2 DEF Listens
  <2> QED
    BY <2>2, <2>3 DEF Tuned, device_id
<1>6. StatusTold(c, a, f)
  BY <1>1, <1>2 DEF StatusTold
<1>7. FramesTold(c, a, f)
  BY <1>1, <1>2 DEF FramesTold
<1>8. DownTold(c, a)
  <2> SUFFICES ASSUME "reload-config" \notin Commands, BadFixed = {}, bare(c), c.at = "parked",
                      c.rx = None, c.life = a.generation
               PROVE  c.state = report(derive_state(a), FALSE, FALSE)
    BY DEF DownTold
  <2>1. a.generation = b.generation
    BY <1>1, <1>3 DEF Past
  <2>2. b.device = None
    BY <1>1, <2>1 DEF Listens, Between, Tuned
  <2>3. derive_state(a) = derive_state(b)
    BY <1>1, <2>1, <2>2 DEF Moves
  <2> QED
    BY <1>1, <2>1, <2>3 DEF DownTold
<1> QED
  BY <1>1, <1>4, <1>5, <1>6, <1>7, <1>8 DEF Followed

LEMMA TaskStepInv ==
  ASSUME IInv, Agree(be, disk), WatchInv, TaskStep
  PROVE  WatchInv'
<1>0. /\ be \in BackendState /\ be' \in BackendState /\ Next /\ serving' \in BOOLEAN
  BY NextType DEF IInv, TypeOK, TaskStep
<1>1. Older(be')
  BY <1>0, TaskOlder DEF WatchInv
<1>2. /\ be.device # None => device_id(be) \in Nat /\ device_id(be) # None
      /\ be'.device # None => device_id(be') \in Nat /\ device_id(be') # None
  BY <1>0, WatchAssumption DEF device_id, BackendState, PendingUp
<1>3. Live' => engine' \in EngineStates
  BY <1>2 DEF TaskStep, EngineFollows, Live, WatchInv, device_id
<1>4. ASSUME conn' # None
      PROVE  serving' /\ Followed(conn', be', engine') /\ PrefsTold(conn', be')
  <2>1. conn # None /\ serving' /\ conn' \in {conn, Ticked(conn)}
    BY <1>0, <1>4 DEF TaskStep, prefs_ticks
  <2>2. serving /\ Followed(conn, be, engine) /\ PrefsTold(conn, be)
    BY <2>1 DEF WatchInv
  <2>3. Moves(be, be') /\ SameProfile(be, be')
    BY <1>0, <2>1, <2>2, TaskMoves
  <2>4. Tuned(conn, be) /\ Tuned(conn, be') => engine' = engine
    BY <1>2 DEF Tuned, TaskStep, EngineFollows
  <2>5. Followed(conn, be', engine')
    BY <1>0, <2>2, <2>3, <2>4, TaskFollowed
  <2>6. Followed(conn', be', engine')
    BY <2>1, <2>5, TickedFollowed
  <2>7. PrefsTold(conn', be')
    <3>1. CASE conn' = Ticked(conn)
      <4>1. conn'.mask = conn.mask /\ conn'.prefs_due = conn.mask.prefs
        BY <2>2, <3>1, TickedFields DEF Followed
      <4> QED
        BY <4>1 DEF PrefsTold
    <3>2. CASE conn' = conn /\ conn' # Ticked(conn)
      <4>1. SUFFICES ASSUME Commands \cap {"switch", "create", "new"} = {}
                     PROVE  be'.prefs = be.prefs
        BY <2>2, <3>2 DEF PrefsTold, prefs_view
      <4>2. be'.current_profile = be.current_profile
        BY <2>3, <4>1 DEF SameProfile
      <4>3. conn' \in prefs_ticks(conn)
        BY <1>4 DEF TaskStep
      <4> QED
        BY <3>2, <4>2, <4>3 DEF prefs_ticks
    <3> QED
      BY <2>1, <3>1, <3>2
  <2> QED
    BY <2>1, <2>6, <2>7
<1> QED
  BY <1>1, <1>3, <1>4 DEF WatchInv

(* The engine moves, and the streams hear it.                              *)
LEMMA HeardFields ==
  ASSUME NEW c \in Connection, NEW q \in Seq(EngineStates)
  PROVE  LET d == [c EXCEPT !.queue = q]
         IN  /\ d \in Connection
             /\ d.mask = c.mask /\ d.at = c.at /\ d.then = c.then /\ d.life = c.life
             /\ d.rx = c.rx /\ d.bus = c.bus /\ d.queue = q /\ d.owed = c.owed
             /\ d.state = c.state /\ d.prefs = c.prefs /\ d.prefs_due = c.prefs_due
BY DEF Connection

LEMMA MovedFollowed ==
  ASSUME NEW c, NEW b, NEW e, NEW q \in Seq(EngineStates), NEW f,
         Followed(c, b, e), q # <<>>, q[Len(q)] = f, Tuned(c, b), c.at # "attach"
  PROVE  Followed([c EXCEPT !.queue = q], b, f)
<1> DEFINE d == [c EXCEPT !.queue = q]
<1>1. c \in Connection
  BY DEF Followed
<1>2. /\ d \in Connection
      /\ d.mask = c.mask /\ d.at = c.at /\ d.then = c.then /\ d.life = c.life
      /\ d.rx = c.rx /\ d.bus = c.bus /\ d.queue = q /\ d.owed = c.owed
      /\ d.state = c.state
  BY <1>1, HeardFields
<1> HIDE DEF d
<1>3. Past(d, b) /\ Listens(d, b) /\ Owing(d) /\ DownTold(d, b)
  BY <1>2 DEF Followed, Past, Listens, Owing, DownTold, Between, Deaf, Tuned, bare
<1>4. StatusTold(d, b, f) /\ FramesTold(d, b, f)
  BY <1>2 DEF Followed, StatusTold, FramesTold, Tuned, bare
<1> QED
  BY <1>2, <1>3, <1>4 DEF Followed, d

LEMMA EngineMovesInv ==
  ASSUME IInv, WatchInv, EngineMoves
  PROVE  WatchInv'
<1>1. PICK ds \in EngineStates : engine' = ds /\ conn' = Hears(conn, ds) /\ UNCHANGED vars
  BY DEF EngineMoves
<1>2. be' = be /\ serving' = serving
  BY <1>1 DEF vars
<1>3. ASSUME conn' # None
      PROVE  serving /\ Followed(conn', be, ds)
  <2>1. CASE conn = None \/ ~Attached(conn)
    <3>1. conn' = conn /\ conn # None
      BY <1>1, <1>3, <2>1 DEF Hears
    <3>2. ~Tuned(conn, be) /\ serving /\ Followed(conn, be, engine)
      BY <2>1, <3>1 DEF WatchInv, Attached, Tuned
    <3> QED
      BY <3>1, <3>2 DEF Followed, StatusTold, FramesTold
  <2>2. CASE conn # None /\ Attached(conn)
    <3>1. /\ Tuned(conn, be) /\ serving /\ Followed(conn, be, engine)
          /\ conn.queue \in Seq(EngineStates) /\ conn.bus \in {"off", "spawned", "on"}
      BY <2>2 DEF WatchInv, Attached, Tuned, Followed, Connection
    <3>2. CASE bare(conn)
      <4>1. conn' = [conn EXCEPT !.queue = <<ds>>]
        BY <1>1, <2>2, <3>2 DEF Hears
      <4>2. <<ds>> \in Seq(EngineStates) /\ <<ds>> # <<>> /\ <<ds>>[Len(<<ds>>)] = ds
        OBVIOUS
      <4>3. conn.at # "attach"
        BY <3>1, <3>2 DEF Followed, StatusTold
      <4> QED
        BY <3>1, <4>1, <4>2, <4>3, MovedFollowed
    <3>3. CASE ~bare(conn) /\ conn.bus = "on"
      <4> DEFINE q == Append(conn.queue, ds)
      <4>1. conn' = [conn EXCEPT !.queue = q]
        BY <1>1, <2>2, <3>3 DEF Hears
      <4>2. q \in Seq(EngineStates) /\ q # <<>> /\ q[Len(q)] = ds
        BY <3>1
      <4>3. conn.at # "attach"
        BY <3>1, <3>3 DEF Followed, FramesTold
      <4> HIDE DEF q
      <4> QED
        BY <3>1, <4>1, <4>2, <4>3, MovedFollowed
    <3>4. CASE ~bare(conn) /\ conn.bus # "on"
      <4>1. conn' = conn
        BY <1>1, <2>2, <3>4 DEF Hears
      <4> QED
        BY <3>1, <3>4, <4>1 DEF Followed, StatusTold, FramesTold
    <3> QED
      BY <3>2, <3>3, <3>4
  <2> QED
    BY <2>1, <2>2
<1>4. ASSUME conn' # None
      PROVE  PrefsTold(conn', be)
  <2>1. \/ conn' = conn
        \/ conn' = [conn EXCEPT !.queue = <<ds>>]
        \/ conn' = [conn EXCEPT !.queue = Append(conn.queue, ds)]
    BY <1>1 DEF Hears
  <2>2. conn # None
    BY <1>1, <1>4 DEF Hears
  <2>3. conn \in Connection /\ PrefsTold(conn, be)
    BY <2>2 DEF WatchInv, Followed
  <2>4. /\ conn'.mask = conn.mask /\ conn'.at = conn.at /\ conn'.prefs = conn.prefs
        /\ conn'.owed = conn.owed /\ conn'.prefs_due = conn.prefs_due
    BY <2>1, <2>3 DEF Connection
  <2> QED
    BY <2>3, <2>4 DEF PrefsTold
<1> QED
  BY <1>1, <1>2, <1>3, <1>4 DEF WatchInv, Live

----------------------------------------------------------------------------
(* The steps of the streams.                                               *)

Good(c, b, e) == Followed(c, b, e) /\ PrefsTold(c, b)

(* An engine's generation is not None.                                     *)
LEMMA EngineId ==
  ASSUME NEW b \in BackendState
  PROVE  /\ device_id(b) \in Nat \cup {None}
         /\ b.device = None <=> device_id(b) = None
BY WatchAssumption DEF device_id, BackendState, PendingUp

LEMMA ReportType ==
  ASSUME NEW b, NEW e
  PROVE  /\ state_from_device(e) \in Report
         /\ status(b, e) \in Report
         /\ b.device # None => status(b, e) = state_from_device(e)
         /\ b.device = None => status(b, e) = report(derive_state(b), FALSE, FALSE)
<1>0. ASSUME NEW s \in {"Running", "NeedsLogin", "NeedsMachineAuth", "Starting", "Stopped", "NoState"},
             NEW u \in BOOLEAN, NEW v \in BOOLEAN
      PROVE  report(s, u, v) \in Report
  BY DEF report, Report
<1>1. state_from_device(e) \in Report
  BY <1>0 DEF state_from_device
<1>2. report(derive_state(b), FALSE, FALSE) \in Report
  BY <1>0 DEF derive_state
<1> QED
  BY <1>1, <1>2 DEF status

LEMMA SentFields ==
  ASSUME NEW c \in Connection, NEW kind \in {"id", "status", "prefs", "engine"}
  PROVE  LET d == Sent(c, kind)
         IN  /\ d \in Connection
             /\ d.mask = c.mask /\ d.at = c.at /\ d.then = c.then /\ d.life = c.life
             /\ d.rx = c.rx /\ d.bus = c.bus /\ d.queue = c.queue /\ d.owed = c.owed
             /\ d.state = c.state /\ d.prefs = c.prefs /\ d.prefs_due = c.prefs_due
BY DEF Sent, Connection

(* The session id does not matter to what is told.                         *)
LEMMA SentGood ==
  ASSUME NEW c, NEW b, NEW e, NEW kind \in {"id", "status", "prefs", "engine"}, Good(c, b, e)
  PROVE  Good(Sent(c, kind), b, e)
<1> DEFINE d == Sent(c, kind)
<1>1. c \in Connection
  BY DEF Good, Followed
<1>2. /\ d \in Connection
      /\ d.mask = c.mask /\ d.at = c.at /\ d.then = c.then /\ d.life = c.life
      /\ d.rx = c.rx /\ d.bus = c.bus /\ d.queue = c.queue /\ d.owed = c.owed
      /\ d.state = c.state /\ d.prefs = c.prefs /\ d.prefs_due = c.prefs_due
  BY <1>1, SentFields
<1> HIDE DEF d
<1>3. Followed(d, b, e)
  BY <1>2 DEF Good, Followed, Past, Listens, StatusTold, FramesTold, DownTold, Owing, Between,
       Deaf, Tuned, bare
<1>4. PrefsTold(d, b)
  BY <1>2 DEF Good, PrefsTold
<1> QED
  BY <1>3, <1>4 DEF Good, d

(* Quiet ends the epoch: what follows derives the next one, or waits for   *)
(* the lifecycle where the epoch's engine was seen to be gone.             *)
LEMMA QuietFields ==
  ASSUME NEW c \in Connection
  PROVE  LET d == Quiet(c)
         IN  /\ d \in Connection
             /\ d.mask = c.mask /\ d.at = c.at /\ d.then = c.then /\ d.life = c.life
             /\ d.rx = None /\ d.bus = "off" /\ d.queue = <<>> /\ d.owed = c.owed
             /\ d.state = c.state /\ d.prefs = c.prefs /\ d.prefs_due = c.prefs_due
<1>1. <<>> \in Seq(EngineStates)
  OBVIOUS
<1>2. Quiet(c) \in Connection
  BY <1>1 DEF Quiet, Connection
<1> QED
  BY <1>2 DEF Quiet, Connection

LEMMA QuietGood ==
  ASSUME NEW c, NEW b \in BackendState, NEW e, Good(c, b, e), NEW d \in Connection,
         d.mask = c.mask, d.rx = None, d.bus = "off", d.queue = <<>>, d.owed = c.owed,
         d.state = c.state, d.prefs = c.prefs, d.prefs_due = c.prefs_due,
         d.life <= b.generation,
         c.at \notin {"front-load", "status-prefs", "prefs"},
         \/ d.at = "derive"
         \/ d.at = "status" /\ c.owed /\ d.then \in {"derive", "deaf"} /\ ~bare(c)
         \/ d.at = "deaf" /\ ~c.owed /\ ~bare(c),
         Deaf(d) => ~(d.life = b.generation /\ b.device # None)
  PROVE  Good(d, b, e)
<1>1. Past(d, b)
  BY DEF Past
<1>2. Listens(d, b)
  BY DEF Listens, Between, Deaf
<1>3. Owing(d)
  BY DEF Owing, Good, Followed
<1>4. StatusTold(d, b, e) /\ FramesTold(d, b, e) /\ DownTold(d, b)
  BY DEF StatusTold, FramesTold, DownTold, Tuned, bare
<1>5. PrefsTold(d, b)
  BY DEF PrefsTold, Good
<1> QED
  BY <1>1, <1>2, <1>3, <1>4, <1>5 DEF Good, Followed

(* A step that is good for the connection is good for the whole.           *)
LEMMA StreamInv ==
  ASSUME WatchInv, NEW places, Streams(places), conn' # None => Good(conn', be, engine)
  PROVE  WatchInv'
BY DEF WatchInv, Streams, vars, Good, Live

LEMMA LifecycleChangedInv ==
  ASSUME IInv, WatchInv, LifecycleChanged
  PROVE  WatchInv'
<1> DEFINE q == Quiet(conn)
           d == [q EXCEPT !.life = be.generation, !.at = "derive"]
<1>1. /\ Good(conn, be, engine) /\ conn \in Connection /\ Streams({"parked", "deaf"}) /\ conn' = d
      /\ conn.at \in {"parked", "deaf"}
  BY DEF LifecycleChanged, Streams, WatchInv, Good, Followed
<1>2. be \in BackendState /\ be.generation \in Nat
  BY DEF IInv, TypeOK, BackendState
<1>3. /\ q \in Connection
      /\ q.mask = conn.mask /\ q.rx = None /\ q.bus = "off" /\ q.queue = <<>>
      /\ q.owed = conn.owed
      /\ q.state = conn.state /\ q.prefs = conn.prefs /\ q.prefs_due = conn.prefs_due
  BY <1>1, QuietFields
<1> HIDE DEF q
<1>4. /\ d \in Connection
      /\ d.mask = conn.mask /\ d.rx = None /\ d.bus = "off" /\ d.queue = <<>>
      /\ d.owed = conn.owed /\ d.at = "derive" /\ d.life = be.generation
      /\ d.state = conn.state /\ d.prefs = conn.prefs /\ d.prefs_due = conn.prefs_due
  BY <1>2, <1>3 DEF Connection, Places
<1> HIDE DEF d
<1>5. d.life <= be.generation /\ ~Deaf(d)
  BY <1>2, <1>4 DEF Deaf
<1>6. Good(d, be, engine)
  BY <1>1, <1>2, <1>4, <1>5, QuietGood
<1> QED
  BY <1>1, <1>6, StreamInv

(* stream_watch.                                                           *)
LEMMA StatusEpochInv ==
  ASSUME IInv, WatchInv, StatusEpoch
  PROVE  WatchInv'
<1>1. PICK queue \in {<<>>} \cup (IF Live THEN {<<engine>>} ELSE {}) :
        /\ Streams({"derive"}) /\ bare(conn)
        /\ conn' = [conn EXCEPT !.at = "parked", !.rx = device_id(be), !.queue = queue,
                                !.state = status(be, engine)]
  BY DEF StatusEpoch
<1> DEFINE d == [conn EXCEPT !.at = "parked", !.rx = device_id(be), !.queue = queue,
                             !.state = status(be, engine)]
<1>2. /\ Followed(conn, be, engine) /\ PrefsTold(conn, be) /\ conn \in Connection
      /\ conn.at = "derive" /\ Older(be)
  BY <1>1 DEF Streams, WatchInv, Followed
<1>3. /\ be \in BackendState /\ device_id(be) \in Nat \cup {None}
      /\ be.device = None <=> device_id(be) = None
  BY EngineId DEF IInv, TypeOK
<1>4. queue \in Seq(EngineStates) /\ (device_id(be) = None => queue = <<>>)
  <2>1. Live => engine \in EngineStates
    BY DEF WatchInv
  <2>2. <<>> \in Seq(EngineStates) /\ (engine \in EngineStates => <<engine>> \in Seq(EngineStates))
    OBVIOUS
  <2> QED
    BY <1>3, <2>1, <2>2 DEF Live
<1>5. status(be, engine) \in Report
  BY ReportType
<1>6. /\ d \in Connection
      /\ d.mask = conn.mask /\ d.at = "parked" /\ d.life = conn.life
      /\ d.rx = device_id(be) /\ d.bus = conn.bus /\ d.queue = queue /\ d.owed = conn.owed
      /\ d.state = status(be, engine) /\ d.prefs = conn.prefs /\ d.prefs_due = conn.prefs_due
  <2> HIDE DEF Report
  <2> QED
    BY <1>2, <1>3, <1>4, <1>5 DEF Connection, Places
<1> HIDE DEF d
<1>7. bare(d) /\ ~d.mask.initial_status /\ ~d.mask.prefs
  BY <1>1, <1>6 DEF bare
<1>8. Past(d, be)
  <2>1. conn.life <= be.generation /\ conn.bus = "off"
    BY <1>1, <1>2 DEF Followed, Past, StatusTold
  <2>2. d.rx # None => d.rx < be.generation
    BY <1>2, <1>3, <1>6 DEF Older, device_id
  <2> QED
    BY <1>4, <1>6, <2>1, <2>2 DEF Past, Between, Deaf
<1>9. Listens(d, be)
  BY <1>3, <1>6 DEF Listens, Tuned
<1>10. Owing(d)
  BY <1>1, <1>2, <1>6 DEF Followed, Owing, bare
<1>11. StatusTold(d, be, engine) /\ FramesTold(d, be, engine)
  BY <1>1, <1>2, <1>3, <1>6, <1>7, ReportType DEF Followed, StatusTold, FramesTold, Tuned
<1>12. DownTold(d, be)
  BY <1>3, <1>6, ReportType DEF DownTold
<1>13. PrefsTold(d, be)
  BY <1>7 DEF PrefsTold
<1>14. Good(d, be, engine)
  BY <1>6, <1>8, <1>9, <1>10, <1>11, <1>12, <1>13 DEF Good, Followed
<1> QED
  BY <1>1, <1>14, StreamInv DEF d

(* A step inside an epoch keeps what the epoch knows of the engine.        *)
LEMMA SameEpoch ==
  ASSUME NEW c, NEW d, NEW b, Past(c, b), Listens(c, b),
         d.life = c.life, d.rx = c.rx, d.rx = None => d.bus = "off" /\ d.queue = <<>>,
         Between(c) => Between(d), Between(d) \/ Deaf(d) => d.rx = None
  PROVE  Past(d, b) /\ Listens(d, b)
BY DEF Past, Listens, Tuned

(* What every step of a stream starts from.                                *)
LEMMA StreamFacts ==
  ASSUME IInv, WatchInv, NEW places, Streams(places)
  PROVE  /\ Good(conn, be, engine) /\ Older(be) /\ conn.at \in places
         /\ conn \in Connection
         /\ Past(conn, be) /\ Listens(conn, be) /\ Owing(conn)
         /\ StatusTold(conn, be, engine) /\ FramesTold(conn, be, engine)
         /\ DownTold(conn, be) /\ PrefsTold(conn, be)
         /\ be \in BackendState /\ be.generation \in Nat
         /\ prefs_view(be) \in Settings
BY DEF Streams, WatchInv, Good, Followed, IInv, TypeOK, BackendState, Prefs, prefs_view

LEMMA ReceiverChangedInv ==
  ASSUME IInv, WatchInv, ReceiverChanged
  PROVE  WatchInv'
<1>1. Streams({"parked"}) /\ bare(conn) /\ conn.rx # None
  BY DEF ReceiverChanged
<1>2. /\ Good(conn, be, engine) /\ conn \in Connection /\ conn.at = "parked"
      /\ Past(conn, be) /\ Listens(conn, be) /\ Owing(conn)
      /\ StatusTold(conn, be, engine) /\ be \in BackendState /\ be.generation \in Nat
  BY <1>1, StreamFacts
<1>3. CASE conn' = [conn EXCEPT !.queue = <<>>, !.at = "refresh"]
  <2> DEFINE d == [conn EXCEPT !.queue = <<>>, !.at = "refresh"]
  <2>1. <<>> \in Seq(EngineStates)
    OBVIOUS
  <2>2. /\ d \in Connection
        /\ d.mask = conn.mask /\ d.at = "refresh" /\ d.life = conn.life
        /\ d.rx = conn.rx /\ d.bus = conn.bus /\ d.queue = <<>> /\ d.owed = conn.owed
        /\ d.prefs = conn.prefs /\ d.prefs_due = conn.prefs_due
    BY <1>2, <2>1 DEF Connection, Places
  <2> HIDE DEF d
  <2>3. Past(d, be) /\ Listens(d, be)
    <3>1. ~Between(conn) /\ ~Between(d) /\ ~Deaf(d) /\ d.rx # None
      BY <1>1, <1>2, <2>2 DEF Between, Deaf
    <3> QED
      BY <1>2, <2>2, <3>1, SameEpoch
  <2>4. Good(d, be, engine)
    BY <1>1, <1>2, <2>2, <2>3
       DEF Good, Followed, StatusTold, FramesTold, DownTold, PrefsTold, Owing, bare
  <2> QED
    BY <1>1, <1>3, <2>4, StreamInv DEF d
<1>4. CASE conn' = [Quiet(conn) EXCEPT !.at = "derive"]
  <2> DEFINE q == Quiet(conn)
             d == [q EXCEPT !.at = "derive"]
  <2>1. /\ q \in Connection /\ q.life = conn.life
        /\ q.mask = conn.mask /\ q.rx = None /\ q.bus = "off" /\ q.queue = <<>>
        /\ q.owed = conn.owed
        /\ q.state = conn.state /\ q.prefs = conn.prefs /\ q.prefs_due = conn.prefs_due
    BY <1>2, QuietFields
  <2> HIDE DEF q
  <2>2. /\ d \in Connection
        /\ d.mask = conn.mask /\ d.rx = None /\ d.bus = "off" /\ d.queue = <<>>
        /\ d.owed = conn.owed /\ d.at = "derive" /\ d.life = conn.life
        /\ d.state = conn.state /\ d.prefs = conn.prefs /\ d.prefs_due = conn.prefs_due
    BY <2>1 DEF Connection, Places
  <2> HIDE DEF d
  <2>3. d.life <= be.generation /\ ~Deaf(d)
    BY <1>2, <2>2 DEF Deaf, Past
  <2>4. Good(d, be, engine)
    BY <1>2, <2>2, <2>3, QuietGood
  <2> QED
    BY <1>1, <1>4, <2>4, StreamInv DEF d, q
<1> QED
  BY <1>3, <1>4 DEF ReceiverChanged

LEMMA RefreshInv ==
  ASSUME IInv, WatchInv, Refresh
  PROVE  WatchInv'
<1> DEFINE d == [conn EXCEPT !.at = "parked", !.state = status(be, engine)]
<1>1. Streams({"refresh"}) /\ conn' = d
  BY DEF Refresh
<1>2. /\ conn \in Connection /\ conn.at = "refresh"
      /\ Past(conn, be) /\ Listens(conn, be) /\ Owing(conn)
      /\ StatusTold(conn, be, engine) /\ FramesTold(conn, be, engine) /\ be \in BackendState
  BY <1>1, StreamFacts
<1>3. bare(conn) /\ conn.rx # None
  BY <1>2 DEF FramesTold, StatusTold
<1>4. status(be, engine) \in Report
  BY ReportType
<1>5. /\ d \in Connection
      /\ d.mask = conn.mask /\ d.at = "parked" /\ d.life = conn.life
      /\ d.rx = conn.rx /\ d.bus = conn.bus /\ d.queue = conn.queue /\ d.owed = conn.owed
      /\ d.state = status(be, engine)
  BY <1>2, <1>4 DEF Connection, Places
<1> HIDE DEF d
<1>6. Past(d, be) /\ Listens(d, be)
  <2>1. ~Between(conn) /\ ~Between(d) /\ ~Deaf(d) /\ d.rx # None
    BY <1>2, <1>3, <1>5 DEF Between, Deaf
  <2> QED
    BY <1>2, <1>5, <2>1, SameEpoch
<1>7. Tuned(d, be) => d.state = state_from_device(engine)
  BY <1>2, <1>5, EngineId, ReportType DEF Tuned
<1>8. Good(d, be, engine)
  BY <1>2, <1>3, <1>5, <1>6, <1>7
     DEF Good, Followed, StatusTold, FramesTold, DownTold, PrefsTold, Owing, bare
<1> QED
  BY <1>1, <1>8, StreamInv

(* stream_notify.                                                          *)
LEMMA FrontLoadInv ==
  ASSUME IInv, WatchInv, FrontLoadPrefs
  PROVE  WatchInv'
<1> DEFINE s == Sent(conn, "prefs")
           d == [s EXCEPT !.at = "derive", !.prefs = prefs_view(be)]
<1>1. Streams({"front-load"}) /\ conn' = d
  BY DEF FrontLoadPrefs
<1>2. /\ conn \in Connection /\ conn.at = "front-load"
      /\ Past(conn, be) /\ Listens(conn, be) /\ Owing(conn)
      /\ StatusTold(conn, be, engine) /\ FramesTold(conn, be, engine)
      /\ prefs_view(be) \in Settings
  BY <1>1, StreamFacts
<1>3. /\ s \in Connection /\ s.mask = conn.mask /\ s.life = conn.life /\ s.rx = conn.rx
      /\ s.bus = conn.bus /\ s.queue = conn.queue /\ s.owed = conn.owed
  BY <1>2, SentFields
<1> HIDE DEF s
<1>4. /\ d \in Connection
      /\ d.mask = conn.mask /\ d.at = "derive" /\ d.life = conn.life /\ d.rx = conn.rx
      /\ d.bus = conn.bus /\ d.queue = conn.queue /\ d.owed = conn.owed
      /\ d.prefs = prefs_view(be)
  BY <1>2, <1>3 DEF Connection, Places
<1> HIDE DEF d
<1>5. conn.rx = None /\ conn.bus = "off" /\ conn.queue = <<>> /\ ~conn.owed /\ ~bare(conn)
  BY <1>2 DEF Past, Between, Owing, StatusTold
<1>6. Past(d, be) /\ Listens(d, be)
  <2>1. Between(d) /\ d.rx = None /\ d.bus = "off" /\ d.queue = <<>>
    BY <1>4, <1>5 DEF Between
  <2> QED
    BY <1>2, <1>4, <2>1, SameEpoch
<1>7. Good(d, be, engine)
  BY <1>4, <1>5, <1>6
     DEF Good, Followed, StatusTold, FramesTold, DownTold, PrefsTold, Owing, Tuned, bare
<1> QED
  BY <1>1, <1>7, StreamInv

LEMMA DeviceEpochGood ==
  ASSUME NEW c, NEW b \in BackendState, NEW e, Good(c, b, e), Older(b), c.at = "derive", ~bare(c)
  PROVE  Good(device_epoch(c, b), b, e)
<1> DEFINE d == device_epoch(c, b)
<1>1. /\ c \in Connection /\ Past(c, b) /\ Listens(c, b) /\ Owing(c) /\ FramesTold(c, b, e)
      /\ PrefsTold(c, b)
  BY DEF Good, Followed
<1>2. c.rx = None /\ c.bus = "off" /\ c.queue = <<>> /\ c.life <= b.generation
  BY <1>1 DEF Past, Between
<1>3. CASE b.device = None
  <2>1. d = [c EXCEPT !.at = IF c.owed THEN "status" ELSE "parked", !.then = "parked"]
    BY <1>3 DEF device_epoch
  <2>2. /\ d \in Connection
        /\ d.mask = c.mask /\ d.at = (IF c.owed THEN "status" ELSE "parked") /\ d.then = "parked"
        /\ d.life = c.life /\ d.rx = c.rx /\ d.bus = c.bus /\ d.queue = c.queue
        /\ d.owed = c.owed /\ d.prefs = c.prefs /\ d.prefs_due = c.prefs_due
    BY <1>1, <2>1 DEF Connection, Places
  <2> HIDE DEF d
  <2>3. Past(d, b) /\ Listens(d, b)
    BY <1>2, <1>3, <2>2 DEF Past, Listens, Between, Deaf
  <2> QED
    BY <1>1, <1>2, <2>2, <2>3
       DEF Good, Followed, StatusTold, FramesTold, DownTold, PrefsTold, Owing, Tuned, bare, d
<1>4. CASE b.device # None
  <2>1. d = [c EXCEPT !.at = "attach", !.rx = device_id(b)]
    BY <1>4 DEF device_epoch
  <2>2. device_id(b) \in Nat /\ device_id(b) # None /\ device_id(b) < b.generation
    BY <1>4, EngineId DEF Older, device_id
  <2>3. /\ d \in Connection
        /\ d.mask = c.mask /\ d.at = "attach"
        /\ d.life = c.life /\ d.rx = device_id(b) /\ d.bus = c.bus /\ d.queue = c.queue
        /\ d.owed = c.owed /\ d.prefs = c.prefs /\ d.prefs_due = c.prefs_due
    BY <1>1, <2>1, <2>2 DEF Connection, Places
  <2> HIDE DEF d
  <2>4. Past(d, b) /\ Listens(d, b)
    BY <1>2, <2>2, <2>3 DEF Past, Listens, Between, Deaf, Tuned
  <2> QED
    BY <1>1, <1>2, <2>2, <2>3, <2>4
       DEF Good, Followed, StatusTold, FramesTold, DownTold, PrefsTold, Owing, Tuned, bare, d
<1> QED
  BY <1>3, <1>4

LEMMA NotifyEpochInv ==
  ASSUME IInv, WatchInv, NotifyEpoch
  PROVE  WatchInv'
<1>1. Streams({"derive"}) /\ ~bare(conn) /\ conn' = derive(conn, be)
  BY DEF NotifyEpoch
<1>2. /\ Good(conn, be, engine) /\ Older(be) /\ conn.at = "derive" /\ be \in BackendState
  BY <1>1, StreamFacts
<1>3. Good(device_epoch(conn, be), be, engine)
  BY <1>1, <1>2, DeviceEpochGood
<1>4. conn' = device_epoch(conn, be) \/ conn' = Sent(device_epoch(conn, be), "id")
  BY <1>1 DEF derive
<1>5. Good(conn', be, engine)
  BY <1>3, <1>4, SentGood
<1> QED
  BY <1>1, <1>5, StreamInv

LEMMA AttachBusInv ==
  ASSUME IInv, WatchInv, AttachBus
  PROVE  WatchInv'
<1>1. Streams({"attach"})
  BY DEF AttachBus
<1>2. /\ Good(conn, be, engine) /\ conn \in Connection /\ conn.at = "attach"
      /\ Past(conn, be) /\ Listens(conn, be) /\ Owing(conn) /\ PrefsTold(conn, be)
      /\ StatusTold(conn, be, engine) /\ FramesTold(conn, be, engine)
      /\ be \in BackendState /\ be.generation \in Nat
  BY <1>1, StreamFacts
<1>3. ~bare(conn) /\ conn.rx # None /\ conn.bus = "off" /\ conn.queue = <<>>
  BY <1>2 DEF StatusTold, FramesTold
<1>4. CASE conn' = [conn EXCEPT !.bus = "spawned",
                                !.at = IF conn.owed THEN "baseline" ELSE "parked"]
  <2> DEFINE d == [conn EXCEPT !.bus = "spawned",
                               !.at = IF conn.owed THEN "baseline" ELSE "parked"]
  <2>1. /\ d \in Connection
        /\ d.mask = conn.mask /\ d.at = (IF conn.owed THEN "baseline" ELSE "parked")
        /\ d.life = conn.life /\ d.rx = conn.rx /\ d.bus = "spawned" /\ d.queue = conn.queue
        /\ d.owed = conn.owed /\ d.prefs = conn.prefs /\ d.prefs_due = conn.prefs_due
    BY <1>2 DEF Connection, Places
  <2> HIDE DEF d
  <2>2. Past(d, be) /\ Listens(d, be)
    <3>1. ~Between(conn) /\ ~Between(d) /\ ~Deaf(d) /\ d.rx # None
      BY <1>2, <1>3, <2>1 DEF Between, Deaf
    <3> QED
      BY <1>2, <2>1, <3>1, SameEpoch
  <2>3. Good(d, be, engine)
    BY <1>2, <1>3, <2>1, <2>2
       DEF Good, Followed, StatusTold, FramesTold, DownTold, PrefsTold, Owing, Tuned, bare
  <2> QED
    BY <1>1, <1>4, <2>3, StreamInv DEF d
<1>5. CASE LET deaf == [Quiet(conn) EXCEPT !.at = IF conn.owed THEN "status" ELSE "deaf",
                                          !.then = "deaf"]
           IN  ~Attached(conn) /\ (conn' = deaf \/ conn' = Sent(deaf, "id"))
  <2> DEFINE q == Quiet(conn)
             at == IF conn.owed THEN "status" ELSE "deaf"
             d == [q EXCEPT !.at = at, !.then = "deaf"]
  <2>1. conn' = d \/ conn' = Sent(d, "id")
    BY <1>5
  <2>2. /\ q \in Connection /\ q.life = conn.life
        /\ q.mask = conn.mask /\ q.rx = None /\ q.bus = "off" /\ q.queue = <<>>
        /\ q.owed = conn.owed
        /\ q.state = conn.state /\ q.prefs = conn.prefs /\ q.prefs_due = conn.prefs_due
    BY <1>2, QuietFields
  <2> HIDE DEF q
  <2>3. /\ d \in Connection
        /\ d.mask = conn.mask /\ d.rx = None /\ d.bus = "off" /\ d.queue = <<>>
        /\ d.owed = conn.owed /\ d.at = at /\ d.then = "deaf" /\ d.life = conn.life
        /\ d.state = conn.state /\ d.prefs = conn.prefs /\ d.prefs_due = conn.prefs_due
    <3>1. at \in Places
      BY DEF Places
    <3> HIDE DEF at
    <3> QED
      BY <2>2, <3>1 DEF Connection
  <2> HIDE DEF d
  <2>4. ~(conn.life = be.generation /\ be.device # None)
    BY <1>2, <1>5 DEF Listens, Between, Tuned, Attached
  <2>5. Good(d, be, engine)
    BY <1>2, <1>3, <2>3, <2>4, QuietGood DEF Past
  <2>6. Good(conn', be, engine)
    BY <2>1, <2>5, SentGood
  <2> QED
    BY <1>1, <2>6, StreamInv
<1> QED
  BY <1>4, <1>5 DEF AttachBus

LEMMA TailFacts ==
  ASSUME NEW S, NEW q \in Seq(S), q # <<>>
  PROVE  /\ Tail(q) \in Seq(S) /\ Head(q) = q[1]
         /\ Tail(q) # <<>> => Tail(q)[Len(Tail(q))] = q[Len(q)]
         /\ Tail(q) = <<>> => Head(q) = q[Len(q)]
<1>1. Len(q) \in Nat \ {0} /\ Head(q) = q[1]
  OBVIOUS
<1>2. /\ Tail(q) \in Seq(S) /\ Len(Tail(q)) = Len(q) - 1
      /\ \A i \in 1 .. Len(q) - 1 : Tail(q)[i] = q[i + 1]
  BY <1>1
<1>3. Tail(q) # <<>> => Len(Tail(q)) # 0
  BY <1>2
<1>4. Tail(q) # <<>> => Tail(q)[Len(q) - 1] = q[Len(q) - 1 + 1]
  BY <1>1, <1>2, <1>3
<1>5. Tail(q) = <<>> => Len(q) = 1
  <2>1. Len(<<>>) = 0
    OBVIOUS
  <2>2. Tail(q) = <<>> => Len(Tail(q)) = 0
    BY <2>1
  <2> QED
    BY <1>1, <1>2, <2>2
<1> QED
  BY <1>1, <1>2, <1>4, <1>5

LEMMA BusReadsInv ==
  ASSUME IInv, WatchInv, BusReads
  PROVE  WatchInv'
<1>1. PICK ds \in EngineStates :
        /\ Streams({"baseline", "parked"}) /\ conn.bus = "spawned"
        /\ Attached(conn) => ds = engine
        /\ conn' = [conn EXCEPT !.bus = "on", !.queue = IF initial_frame(conn) THEN <<ds>> ELSE <<>>]
  BY DEF BusReads
<1>2. /\ conn \in Connection /\ conn.at \in {"baseline", "parked"}
      /\ Past(conn, be) /\ Listens(conn, be) /\ Owing(conn) /\ PrefsTold(conn, be)
      /\ StatusTold(conn, be, engine) /\ FramesTold(conn, be, engine)
  BY <1>1, StreamFacts
<1> DEFINE q == IF initial_frame(conn) THEN <<ds>> ELSE <<>>
           d == [conn EXCEPT !.bus = "on", !.queue = q]
<1>3. ~bare(conn) /\ conn.rx # None
  BY <1>1, <1>2 DEF StatusTold, Past
<1>4. /\ q \in Seq(EngineStates)
      /\ q # <<>> => q[Len(q)] = ds
      /\ conn.mask.initial_state => q # <<>>
  BY DEF initial_frame
<1>5. conn' = d
  BY <1>1
<1> HIDE DEF q
<1>6. /\ d \in Connection
      /\ d.mask = conn.mask /\ d.at = conn.at /\ d.then = conn.then
      /\ d.life = conn.life /\ d.rx = conn.rx /\ d.bus = "on" /\ d.queue = q
      /\ d.owed = conn.owed /\ d.prefs = conn.prefs /\ d.prefs_due = conn.prefs_due
  BY <1>2, <1>4 DEF Connection
<1> HIDE DEF d
<1>7. Past(d, be) /\ Listens(d, be)
  <2>1. ~Between(conn) /\ ~Between(d) /\ ~Deaf(d) /\ d.rx # None
    BY <1>2, <1>3, <1>6 DEF Between, Deaf
  <2> QED
    BY <1>2, <1>6, <2>1, SameEpoch
<1>8. Tuned(d, be) => ds = engine
  BY <1>1, <1>6 DEF Tuned, Attached
<1>9. FramesTold(d, be, engine)
  BY <1>2, <1>4, <1>6, <1>8 DEF FramesTold
<1>10. Good(d, be, engine)
  BY <1>2, <1>3, <1>6, <1>7, <1>9
     DEF Good, Followed, StatusTold, DownTold, PrefsTold, Owing, bare
<1> QED
  BY <1>1, <1>5, <1>10, StreamInv

LEMMA BaselineInv ==
  ASSUME IInv, WatchInv, Baseline
  PROVE  WatchInv'
<1>1. Streams({"baseline"})
  BY DEF Baseline
<1>2. /\ Good(conn, be, engine) /\ conn \in Connection /\ conn.at = "baseline"
      /\ Past(conn, be) /\ Listens(conn, be) /\ Owing(conn) /\ PrefsTold(conn, be)
      /\ StatusTold(conn, be, engine) /\ FramesTold(conn, be, engine)
      /\ be \in BackendState /\ be.generation \in Nat
  BY <1>1, StreamFacts
<1>3. ~bare(conn)
  BY <1>2 DEF StatusTold
<1>4. CASE /\ conn.queue # <<>>
           /\ conn' = [conn EXCEPT !.queue = Tail(conn.queue), !.at = "status", !.then = "parked"]
  <2> DEFINE q == Tail(conn.queue)
             d == [conn EXCEPT !.queue = q, !.at = "status", !.then = "parked"]
  <2>1. conn.queue \in Seq(EngineStates)
    BY <1>2 DEF Connection
  <2>2. q \in Seq(EngineStates) /\ (q # <<>> => q[Len(q)] = conn.queue[Len(conn.queue)])
    BY <1>4, <2>1, TailFacts
  <2>3. conn' = d /\ conn.rx # None
    BY <1>2, <1>4 DEF Past
  <2> HIDE DEF q
  <2>4. /\ d \in Connection
        /\ d.mask = conn.mask /\ d.at = "status" /\ d.then = "parked"
        /\ d.life = conn.life /\ d.rx = conn.rx /\ d.bus = conn.bus /\ d.queue = q
        /\ d.owed = conn.owed /\ d.prefs = conn.prefs /\ d.prefs_due = conn.prefs_due
    BY <1>2, <2>2 DEF Connection, Places
  <2> HIDE DEF d
  <2>5. Past(d, be) /\ Listens(d, be)
    <3>1. ~Between(conn) /\ ~Between(d) /\ ~Deaf(d) /\ d.rx # None
      BY <1>2, <2>3, <2>4 DEF Between, Deaf
    <3> QED
      BY <1>2, <2>4, <3>1, SameEpoch
  <2>6. FramesTold(d, be, engine)
    BY <1>2, <1>4, <2>2, <2>4 DEF FramesTold, Tuned, bare
  <2>7. Good(d, be, engine)
    BY <1>2, <1>3, <2>4, <2>5, <2>6
       DEF Good, Followed, StatusTold, DownTold, PrefsTold, Owing, bare
  <2> QED
    BY <1>1, <2>3, <2>7, StreamInv
<1>5. CASE conn' = [Quiet(conn) EXCEPT !.at = "status", !.then = "derive"] /\ conn.owed
  <2> DEFINE q == Quiet(conn)
             d == [q EXCEPT !.at = "status", !.then = "derive"]
  <2>1. /\ q \in Connection /\ q.life = conn.life
        /\ q.mask = conn.mask /\ q.rx = None /\ q.bus = "off" /\ q.queue = <<>>
        /\ q.owed = conn.owed
        /\ q.state = conn.state /\ q.prefs = conn.prefs /\ q.prefs_due = conn.prefs_due
    BY <1>2, QuietFields
  <2>2. conn' = d
    BY <1>5
  <2> HIDE DEF q
  <2>3. /\ d \in Connection
        /\ d.mask = conn.mask /\ d.rx = None /\ d.bus = "off" /\ d.queue = <<>>
        /\ d.owed = conn.owed /\ d.at = "status" /\ d.then = "derive" /\ d.life = conn.life
        /\ d.state = conn.state /\ d.prefs = conn.prefs /\ d.prefs_due = conn.prefs_due
    BY <2>1 DEF Connection, Places
  <2> HIDE DEF d
  <2>4. d.life <= be.generation /\ ~Deaf(d)
    BY <1>2, <2>3 DEF Past, Deaf
  <2>5. Good(d, be, engine)
    BY <1>2, <1>3, <1>5, <2>3, <2>4, QuietGood
  <2> QED
    BY <1>1, <2>2, <2>5, StreamInv
<1>6. conn.owed
  BY <1>2 DEF Owing
<1> QED
  BY <1>4, <1>5, <1>6 DEF Baseline

LEMMA SendStatusInv ==
  ASSUME IInv, WatchInv, SendStatus
  PROVE  WatchInv'
<1> DEFINE s == Sent(conn, "status")
           at == IF conn.mask.prefs THEN "status-prefs" ELSE conn.then
           d == [s EXCEPT !.owed = FALSE, !.state = status(be, engine), !.at = at]
<1>1. Streams({"status"}) /\ conn' = d
  BY DEF SendStatus
<1>2. /\ conn \in Connection /\ conn.at = "status" /\ be \in BackendState
      /\ Past(conn, be) /\ Listens(conn, be) /\ Owing(conn) /\ PrefsTold(conn, be)
      /\ StatusTold(conn, be, engine) /\ FramesTold(conn, be, engine)
  BY <1>1, StreamFacts
<1>3. ~bare(conn) /\ conn.then \in {"derive", "parked", "deaf"}
  BY <1>2 DEF StatusTold, Connection
<1>4. /\ s \in Connection /\ s.mask = conn.mask /\ s.life = conn.life /\ s.rx = conn.rx
      /\ s.bus = conn.bus /\ s.queue = conn.queue /\ s.then = conn.then
      /\ s.prefs = conn.prefs /\ s.prefs_due = conn.prefs_due
  BY <1>2, SentFields
<1>5. at \in {"status-prefs", "derive", "parked", "deaf"} /\ at \in Places
  BY <1>3 DEF Places
<1>6. status(be, engine) \in Report
  BY ReportType
<1>7. /\ conn.mask.prefs => at = "status-prefs"
      /\ ~conn.mask.prefs => at = conn.then
  OBVIOUS
<1> HIDE DEF s, at
<1>8. /\ d \in Connection
      /\ d.mask = conn.mask /\ d.at = at /\ d.life = conn.life /\ d.rx = conn.rx
      /\ d.bus = conn.bus /\ d.queue = conn.queue /\ d.owed = FALSE /\ d.then = conn.then
      /\ d.state = status(be, engine)
  BY <1>4, <1>5, <1>6 DEF Connection
<1> HIDE DEF d
<1>9. Past(d, be) /\ Listens(d, be)
  <2>1. (Between(d) => Between(conn)) /\ (Deaf(d) => Deaf(conn)) /\ (Between(conn) => Between(d))
    BY <1>2, <1>5, <1>7, <1>8 DEF Between, Deaf
  <2>2. Between(d) \/ Deaf(d) => d.rx = None
    BY <1>2, <1>8, <2>1 DEF Past
  <2>3. d.rx = None => d.bus = "off" /\ d.queue = <<>>
    BY <1>2, <1>8 DEF Past
  <2> QED
    BY <1>2, <1>8, <2>1, <2>2, <2>3, SameEpoch
<1>10. Tuned(d, be) => d.state = state_from_device(engine)
  BY <1>2, <1>8, EngineId, ReportType DEF Tuned
<1>11. FramesTold(d, be, engine)
  BY <1>2, <1>5, <1>8, <1>10 DEF FramesTold, Tuned, bare
<1>12. Good(d, be, engine)
  BY <1>2, <1>3, <1>5, <1>7, <1>8, <1>9, <1>11
     DEF Good, Followed, StatusTold, DownTold, PrefsTold, Owing, bare
<1> QED
  BY <1>1, <1>12, StreamInv

(* The prefs go out, and the stream goes on where it was.                  *)
LEMMA PrefsSentGood ==
  ASSUME NEW c, NEW b, NEW e, Good(c, b, e), c.at \in {"status-prefs", "prefs"},
         NEW d \in Connection,
         d.mask = c.mask, d.at = c.then, d.then = c.then, d.life = c.life, d.rx = c.rx,
         d.bus = c.bus, d.queue = c.queue, d.owed = c.owed, d.state = c.state,
         d.prefs = prefs_view(b)
  PROVE  Good(d, b, e)
<1>1. /\ Past(c, b) /\ Listens(c, b) /\ Owing(c) /\ StatusTold(c, b, e) /\ FramesTold(c, b, e)
      /\ ~bare(c) /\ c.then \in {"derive", "parked", "deaf"}
  BY DEF Good, Followed, StatusTold, Connection
<1>2. Past(d, b) /\ Listens(d, b)
  <2>1. (Between(d) => Between(c)) /\ (Deaf(d) => Deaf(c)) /\ (Between(c) => Between(d))
    BY <1>1 DEF Between, Deaf
  <2>2. /\ Between(d) \/ Deaf(d) => d.rx = None
        /\ d.rx = None => d.bus = "off" /\ d.queue = <<>>
    BY <1>1, <2>1 DEF Past
  <2> QED
    BY <1>1, <2>1, <2>2, SameEpoch
<1> QED
  BY <1>1, <1>2
     DEF Good, Followed, StatusTold, FramesTold, DownTold, PrefsTold, Owing, Tuned, bare

LEMMA SendsPrefsInv ==
  ASSUME IInv, WatchInv, SendStatusPrefs \/ SendPrefs
  PROVE  WatchInv'
<1> DEFINE s == Sent(conn, "prefs")
           d == [s EXCEPT !.at = conn.then, !.prefs = prefs_view(be)]
           f == [conn EXCEPT !.at = conn.then, !.prefs = prefs_view(be)]
<1>1. Streams({"status-prefs", "prefs"}) /\ (conn' = d \/ conn' = f)
  BY DEF SendStatusPrefs, SendPrefs, Streams
<1>2. /\ Good(conn, be, engine) /\ conn \in Connection /\ conn.at \in {"status-prefs", "prefs"}
      /\ prefs_view(be) \in Settings
  BY <1>1, StreamFacts
<1>3. conn.then \in Places
  BY <1>2 DEF Connection, Places
<1>4. /\ s \in Connection /\ s.mask = conn.mask /\ s.life = conn.life /\ s.rx = conn.rx
      /\ s.bus = conn.bus /\ s.queue = conn.queue /\ s.then = conn.then /\ s.owed = conn.owed
      /\ s.state = conn.state
  BY <1>2, SentFields
<1> HIDE DEF s
<1>5. /\ d \in Connection
      /\ d.mask = conn.mask /\ d.at = conn.then /\ d.then = conn.then /\ d.life = conn.life
      /\ d.rx = conn.rx /\ d.bus = conn.bus /\ d.queue = conn.queue /\ d.owed = conn.owed
      /\ d.state = conn.state /\ d.prefs = prefs_view(be)
  BY <1>2, <1>3, <1>4 DEF Connection
<1>6. /\ f \in Connection
      /\ f.mask = conn.mask /\ f.at = conn.then /\ f.then = conn.then /\ f.life = conn.life
      /\ f.rx = conn.rx /\ f.bus = conn.bus /\ f.queue = conn.queue /\ f.owed = conn.owed
      /\ f.state = conn.state /\ f.prefs = prefs_view(be)
  BY <1>2, <1>3 DEF Connection
<1> HIDE DEF d, f
<1>7. Good(d, be, engine) /\ Good(f, be, engine)
  BY <1>2, <1>5, <1>6, PrefsSentGood
<1> QED
  BY <1>1, <1>7, StreamInv

LEMMA PrefsTickInv ==
  ASSUME IInv, WatchInv, PrefsTick
  PROVE  WatchInv'
<1> DEFINE then == IF conn.rx = None THEN "derive" ELSE "parked"
           d == [conn EXCEPT !.prefs_due = FALSE, !.at = "prefs", !.then = then]
<1>1. Streams({"parked"}) /\ conn.mask.prefs /\ conn' = d
  BY DEF PrefsTick
<1>2. /\ conn \in Connection /\ conn.at = "parked"
      /\ Past(conn, be) /\ Listens(conn, be) /\ Owing(conn) /\ FramesTold(conn, be, engine)
  BY <1>1, StreamFacts
<1>3. then \in {"derive", "parked", "deaf"} /\ (conn.rx = None <=> then = "derive")
  OBVIOUS
<1> HIDE DEF then
<1>4. /\ d \in Connection
      /\ d.mask = conn.mask /\ d.at = "prefs" /\ d.then = then /\ d.life = conn.life
      /\ d.rx = conn.rx /\ d.bus = conn.bus /\ d.queue = conn.queue /\ d.owed = conn.owed
      /\ d.state = conn.state
  BY <1>2, <1>3 DEF Connection, Places
<1>5. then # "deaf"
  BY DEF then
<1> HIDE DEF d
<1>6. ~bare(conn) /\ ~bare(d) /\ ~conn.owed
  BY <1>1, <1>2, <1>4 DEF bare, Owing
<1>7. Past(d, be) /\ Listens(d, be)
  <2>1. /\ ~Between(conn) /\ (Between(d) \/ Deaf(d) => d.rx = None)
        /\ d.rx = None => d.bus = "off" /\ d.queue = <<>>
    BY <1>2, <1>3, <1>4, <1>5 DEF Between, Deaf, Past
  <2> QED
    BY <1>2, <1>4, <2>1, SameEpoch
<1>8. FramesTold(d, be, engine)
  BY <1>2, <1>4 DEF FramesTold, Tuned, bare
<1>9. Good(d, be, engine)
  BY <1>4, <1>6, <1>7, <1>8
     DEF Good, Followed, StatusTold, DownTold, PrefsTold, Owing
<1> QED
  BY <1>1, <1>9, StreamInv

LEMMA NextFrameInv ==
  ASSUME IInv, WatchInv, NextFrame
  PROVE  WatchInv'
<1>1. Streams({"parked"}) /\ ~bare(conn) /\ conn.rx # None
  BY DEF NextFrame
<1>2. /\ Good(conn, be, engine) /\ conn \in Connection /\ conn.at = "parked"
      /\ Past(conn, be) /\ Listens(conn, be) /\ Owing(conn) /\ PrefsTold(conn, be)
      /\ FramesTold(conn, be, engine) /\ be \in BackendState /\ be.generation \in Nat
  BY <1>1, StreamFacts
<1>3. CASE /\ conn.queue # <<>>
           /\ conn' = [Sent(conn, "engine") EXCEPT !.queue = Tail(@),
                          !.state = state_from_device(Head(conn.queue))]
  <2> DEFINE s == Sent(conn, "engine")
             q == Tail(conn.queue)
             r == state_from_device(Head(conn.queue))
             d == [s EXCEPT !.queue = q, !.state = r]
  <2>1. conn.queue \in Seq(EngineStates)
    BY <1>2 DEF Connection
  <2>2. /\ q \in Seq(EngineStates)
        /\ q # <<>> => q[Len(q)] = conn.queue[Len(conn.queue)]
        /\ q = <<>> => r = state_from_device(conn.queue[Len(conn.queue)])
    BY <1>3, <2>1, TailFacts
  <2>3. r \in Report
    BY ReportType
  <2>4. /\ s \in Connection /\ s.mask = conn.mask /\ s.life = conn.life /\ s.rx = conn.rx
        /\ s.bus = conn.bus /\ s.queue = conn.queue /\ s.at = conn.at /\ s.owed = conn.owed
        /\ s.prefs = conn.prefs /\ s.prefs_due = conn.prefs_due
    BY <1>2, SentFields
  <2>5. conn' = d
    BY <1>3, <2>4
  <2> HIDE DEF s, q, r
  <2>6. /\ d \in Connection
        /\ d.mask = conn.mask /\ d.at = "parked" /\ d.life = conn.life
        /\ d.rx = conn.rx /\ d.bus = conn.bus /\ d.queue = q /\ d.owed = conn.owed
        /\ d.state = r /\ d.prefs = conn.prefs /\ d.prefs_due = conn.prefs_due
    BY <1>2, <2>2, <2>3, <2>4 DEF Connection
  <2> HIDE DEF d
  <2>7. Past(d, be) /\ Listens(d, be)
    <3>1. ~Between(conn) /\ ~Between(d) /\ ~Deaf(d) /\ d.rx # None
      BY <1>1, <1>2, <2>6 DEF Between, Deaf
    <3> QED
      BY <1>2, <2>6, <3>1, SameEpoch
  <2>8. FramesTold(d, be, engine)
    BY <1>1, <1>2, <1>3, <2>2, <2>6 DEF FramesTold, Tuned, bare
  <2>9. Good(d, be, engine)
    BY <1>1, <1>2, <2>6, <2>7, <2>8
       DEF Good, Followed, StatusTold, DownTold, PrefsTold, Owing, bare
  <2> QED
    BY <1>1, <2>5, <2>9, StreamInv
<1>4. CASE conn' = [Quiet(conn) EXCEPT !.at = "derive"]
  <2> DEFINE q == Quiet(conn)
             d == [q EXCEPT !.at = "derive"]
  <2>1. /\ q \in Connection /\ q.life = conn.life
        /\ q.mask = conn.mask /\ q.rx = None /\ q.bus = "off" /\ q.queue = <<>>
        /\ q.owed = conn.owed
        /\ q.state = conn.state /\ q.prefs = conn.prefs /\ q.prefs_due = conn.prefs_due
    BY <1>2, QuietFields
  <2>2. conn' = d
    BY <1>4
  <2> HIDE DEF q
  <2>3. /\ d \in Connection
        /\ d.mask = conn.mask /\ d.rx = None /\ d.bus = "off" /\ d.queue = <<>>
        /\ d.owed = conn.owed /\ d.at = "derive" /\ d.life = conn.life
        /\ d.state = conn.state /\ d.prefs = conn.prefs /\ d.prefs_due = conn.prefs_due
    BY <2>1 DEF Connection, Places
  <2> HIDE DEF d
  <2>4. d.life <= be.generation /\ ~Deaf(d)
    BY <1>2, <2>3 DEF Past, Deaf
  <2>5. Good(d, be, engine)
    BY <1>2, <2>3, <2>4, QuietGood
  <2> QED
    BY <1>1, <2>2, <2>5, StreamInv
<1> QED
  BY <1>3, <1>4 DEF NextFrame

(* A new connection owes what its mask asks for first.                     *)
LEMMA SubscribeInv ==
  ASSUME IInv, WatchInv, Subscribe
  PROVE  WatchInv'
<1>1. PICK m \in Masks :
        conn' = [mask |-> m, at |-> IF front_load_first(m) THEN "front-load" ELSE "derive",
                 then |-> "derive", life |-> be.generation, rx |-> None, bus |-> "off",
                 queue |-> <<>>, prefs_due |-> FALSE, owed |-> m.initial_status,
                 first |-> None, state |-> None, prefs |-> None]
  BY DEF Subscribe
<1> DEFINE at == IF front_load_first(m) THEN "front-load" ELSE "derive"
           d == [mask |-> m, at |-> at,
                 then |-> "derive", life |-> be.generation, rx |-> None, bus |-> "off",
                 queue |-> <<>>, prefs_due |-> FALSE, owed |-> m.initial_status,
                 first |-> None, state |-> None, prefs |-> None]
<1>2. serving /\ be' = be /\ engine' = engine /\ serving' = serving /\ conn' = d
  BY <1>1 DEF Subscribe, vars
<1>3. /\ m \in Mask /\ m.initial_status \in BOOLEAN /\ be.generation \in Nat
      /\ be \in BackendState
  BY WatchAssumption DEF Mask, IInv, TypeOK, BackendState
<1>4. /\ at \in {"front-load", "derive"}
      /\ at = "front-load" <=> m.prefs /\ ~m.initial_status
  BY DEF front_load_first
<1>5. <<>> \in Seq(EngineStates)
  OBVIOUS
<1> HIDE DEF at
<1>6. /\ d \in Connection
      /\ d.mask = m /\ d.at = at /\ d.life = be.generation /\ d.rx = None
      /\ d.bus = "off" /\ d.queue = <<>> /\ d.owed = m.initial_status
  BY <1>3, <1>4, <1>5 DEF Connection, Places
<1> HIDE DEF d
<1>7. Past(d, be) /\ Listens(d, be) /\ Owing(d)
  BY <1>3, <1>4, <1>6 DEF Past, Listens, Owing, Between, Deaf
<1>8. StatusTold(d, be, engine) /\ FramesTold(d, be, engine) /\ DownTold(d, be)
  BY <1>4, <1>6 DEF StatusTold, FramesTold, DownTold, Tuned, bare
<1>9. PrefsTold(d, be)
  BY <1>4, <1>6 DEF PrefsTold
<1> QED
  BY <1>2, <1>6, <1>7, <1>8, <1>9 DEF WatchInv, Followed, Live

LEMMA StreamStepInv ==
  ASSUME IInv, WatchInv, StreamStep
  PROVE  WatchInv'
BY LifecycleChangedInv, StatusEpochInv, ReceiverChangedInv, RefreshInv, FrontLoadInv,
   NotifyEpochInv, AttachBusInv, BusReadsInv, BaselineInv, SendStatusInv, SendsPrefsInv,
   PrefsTickInv, NextFrameInv DEF StreamStep

LEMMA WatchNextInv ==
  ASSUME IInv, Agree(be, disk), WatchInv, [WatchNext]_watchVars
  PROVE  WatchInv'
<1>1. CASE HangUp
  BY <1>1 DEF HangUp, WatchInv, vars, Live
<1>2. CASE UNCHANGED watchVars
  BY <1>2 DEF watchVars, WatchInv, Live
<1> QED
  BY <1>1, <1>2, TaskStepInv, EngineMovesInv, SubscribeInv, StreamStepInv DEF WatchNext

(* The tasks beside the streams take the steps of Drivers.tla.             *)
LEMMA WatchRefines ==
  ASSUME [WatchNext]_watchVars
  PROVE  [Next]_vars
<1>1. CASE UNCHANGED watchVars
  BY <1>1 DEF watchVars, vars
<1>2. CASE StreamStep
  BY <1>2 DEF StreamStep, Streams, LifecycleChanged, StatusEpoch, ReceiverChanged, Refresh,
     FrontLoadPrefs, NotifyEpoch, AttachBus, BusReads, Baseline, SendStatus, SendStatusPrefs,
     NextFrame, PrefsTick, SendPrefs
<1> QED
  BY <1>1, <1>2 DEF WatchNext, TaskStep, EngineMoves, Subscribe, HangUp

LEMMA WatchInitInv == WatchInit => IInv /\ Agree(be, disk) /\ WatchInv
<1> SUFFICES ASSUME WatchInit PROVE IInv /\ Agree(be, disk) /\ WatchInv
  OBVIOUS
<1>1. Init /\ conn = None
  BY DEF WatchInit
<1>2. IInv /\ Agree(be, disk)
  BY <1>1, InitIInv, InitKeeps
<1>3. be.device = None
  BY <1>1, <1>2, LoadEffect DEF Init, IInv, TypeOK
<1> QED
  BY <1>1, <1>2, <1>3 DEF WatchInv, Older, Live

(* The watchers' invariant holds throughout, beside the tasks' own.        *)
LEMMA Watched == WatchSpec => [](IInv /\ Agree(be, disk) /\ WatchInv)
<1>1. ASSUME IInv, Agree(be, disk), WatchInv, [WatchNext]_watchVars
      PROVE  IInv' /\ Agree(be, disk)' /\ WatchInv'
  <2>1. [Next]_vars
    BY <1>1, WatchRefines
  <2>2. IInv'
    BY <1>1, <2>1, NextIInv
  <2>3. Agree(be', disk')
    BY <1>1, <2>1, NextKeeps, PreflightAgrees DEF Keeps, IInv
  <2> QED
    BY <1>1, <2>2, <2>3, WatchNextInv
<1> QED
  BY <1>1, WatchInitInv, PTL DEF WatchSpec
----------------------------------------------------------------------------
(* Watching disturbs nothing: with watchers beside them the tasks behave   *)
(* as Drivers.tla says, so what is proved of them holds of them here too.  *)
THEOREM WatchersOnlyWatch == WatchSpec => Spec
BY WatchRefines, PTL DEF WatchSpec, WatchInit, Spec

(* A masked watcher that nothing will wake again has been told the state   *)
(* of the installed engine, whatever was installed, stopped or replaced    *)
(* between two of its steps (stream_notify re-derives the engine and       *)
(* re-applies the mask once per device epoch).                             *)
THEOREM NotifyStateIsTold == WatchSpec => []NotifyStateIsCurrent
<1>1. ASSUME IInv, WatchInv
      PROVE  NotifyStateIsCurrent
  <2> SUFFICES ASSUME Settled, Live, conn.mask.initial_state
               PROVE  conn.state = state_from_device(engine)
    BY DEF NotifyStateIsCurrent
  <2>1. /\ conn.at \in {"parked", "deaf"} /\ conn.life = be.generation
        /\ conn.queue = <<>> /\ conn.bus # "spawned" /\ be.device # None
        /\ conn \in Connection /\ Past(conn, be) /\ Listens(conn, be)
        /\ FramesTold(conn, be, engine)
    BY <1>1 DEF Settled, Live, WatchInv, Followed
  <2>2. Tuned(conn, be)
    BY <2>1 DEF Listens, Between
  <2>3. conn.at = "parked"
    BY <2>1, <2>2 DEF Past, Deaf, Tuned
  <2>4. ~bare(conn)
    BY DEF bare
  <2>5. conn.bus = "on"
    <3>1. conn.bus \in {"off", "spawned", "on"}
      BY <2>1 DEF Connection
    <3> QED
      BY <2>1, <2>2, <2>3, <2>4, <3>1 DEF FramesTold, Tuned
  <2> QED
    BY <2>1, <2>2, <2>3, <2>4, <2>5 DEF FramesTold
<1> QED
  BY <1>1, Watched, PTL

(* A status watcher that nothing will wake again has been told the status  *)
(* that stands (stream_watch), where no client reloads the config file and *)
(* every settled config builds: those two change the intent of a node      *)
(* without an engine and bump no generation.                               *)
THEOREM StatusIsTold ==
  ASSUME "reload-config" \notin Commands, BadFixed = {}
  PROVE  WatchSpec => []StatusIsCurrent
<1>1. ASSUME IInv, WatchInv
      PROVE  StatusIsCurrent
  <2> SUFFICES ASSUME Settled, bare(conn)
               PROVE  conn.state = status(be, engine)
    BY DEF StatusIsCurrent
  <2>1. /\ conn.at \in {"parked", "deaf"} /\ conn.life = be.generation
        /\ conn.queue = <<>> /\ (conn.rx = None \/ Tuned(conn, be))
        /\ conn \in Connection /\ Past(conn, be) /\ Listens(conn, be)
        /\ StatusTold(conn, be, engine) /\ DownTold(conn, be)
    BY <1>1 DEF Settled, WatchInv, Followed, Attached, Tuned
  <2>2. conn.at = "parked"
    BY <2>1 DEF StatusTold
  <2>3. be \in BackendState
    BY <1>1 DEF IInv, TypeOK
  <2>4. CASE Tuned(conn, be)
    <3>1. be.device # None
      BY <2>4 DEF Tuned, device_id
    <3> QED
      BY <2>1, <2>2, <2>4, <3>1, ReportType DEF StatusTold
  <2>5. CASE conn.rx = None
    <3>1. be.device = None
      BY <2>1, <2>2, <2>5 DEF Listens, Between, Tuned
    <3> QED
      BY <2>1, <2>2, <2>5, <3>1, ReportType DEF DownTold
  <2> QED
    BY <2>1, <2>4, <2>5
<1> QED
  BY <1>1, Watched, PTL

(* A prefs watcher that nothing will wake again holds the prefs that stand *)
(* unless a tick is waiting for it (stream_notify, persist_prefs), where   *)
(* no client switches profiles: activate_profile replaces the prefs        *)
(* without a tick.                                                         *)
THEOREM PrefsAreTold ==
  ASSUME Commands \cap {"switch", "create", "new"} = {}
  PROVE  WatchSpec => []PrefsAreCurrent
<1>1. ASSUME WatchInv
      PROVE  PrefsAreCurrent
  <2> SUFFICES ASSUME Settled, conn.mask.prefs, ~conn.prefs_due
               PROVE  conn.prefs = prefs_view(be)
    BY DEF PrefsAreCurrent
  <2>1. conn.at \in {"parked", "deaf"} /\ Owing(conn) /\ PrefsTold(conn, be)
    BY <1>1 DEF Settled, WatchInv, Followed
  <2> QED
    BY <2>1 DEF Owing, PrefsTold
<1> QED
  BY <1>1, Watched, PTL
============================================================================
