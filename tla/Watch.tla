------------------------------- MODULE Watch -------------------------------
(***************************************************************************)
(* A LocalAPI connection that watches the node (server.rs), beside the     *)
(* tasks of Drivers.tla.  A bare watch is served by stream_watch: a status *)
(* snapshot, then another whenever the backend's lifecycle channel or the  *)
(* engine's state receiver wakes it.  A masked watch is served by          *)
(* stream_notify: frames from the engine's IPN bus, from the prefs ticks,  *)
(* and the front-loads its mask asks for.  Both re-derive the engine they  *)
(* listen to once per "device epoch", and neither holds the backend lock   *)
(* while it waits, so everything in Drivers.tla may happen between any two *)
(* of their steps.                                                         *)
(*                                                                         *)
(* A tokio watch receiver keeps one unseen mark, not a queue.  A write to  *)
(* the socket is folded into the step that read what it sends: it reads    *)
(* nothing, and a wake that lands during it stays unseen.                  *)
(***************************************************************************)
EXTENDS Drivers, Sequences

CONSTANTS
  EngineStates,   \* the DeviceStates the engine goes through
  Masks,          \* the watches clients ask for
  MaxQueue        \* frames the bus holds before the engine waits (128 in the
                  \* engine, which then drops: not modelled)

DeviceStates == {"Connecting", "Running", "NeedsLogin", "NeedsMachineAuth",
                 "Reauthenticating", "Expired", "FailedPermanent", "FailedTransient"}

(* The Request::Watch bits; a request with none of them is a bare watch.   *)
Mask == [initial_state : BOOLEAN, initial_status : BOOLEAN, prefs : BOOLEAN]

(* Changed prefs are always persisted, so no write may fail here.          *)
ASSUME WatchAssumption ==
  /\ EngineStates \subseteq DeviceStates
  /\ Masks \subseteq Mask
  /\ MaxQueue \in Nat \ {0}
  /\ Faults \subseteq {"engine"}
  /\ None \notin Nat

VARIABLES
  engine,   \* the installed engine's DeviceState cell
  conn      \* the watching connection, or None

watchVars == <<be, disk, pc, pending, armed, serving, minted, restarts, engine, conn>>

bare(c) == ~(c.mask.initial_state \/ c.mask.initial_status \/ c.mask.prefs)

----------------------------------------------------------------------------
(* What Backend::status and the frames report: the ipn.State, whether a    *)
(* login URL comes with it, and whether an error does.                     *)

report(state, url, error) == [state |-> state, auth_url |-> url, error |-> error]

state_from_device(ds) ==
  CASE ds = "Running"          -> report("Running", FALSE, FALSE)
    [] ds = "NeedsLogin"       -> report("NeedsLogin", TRUE, FALSE)
    [] ds = "NeedsMachineAuth" -> report("NeedsMachineAuth", FALSE, FALSE)
    [] ds = "Expired"          -> report("NeedsLogin", FALSE, FALSE)
    [] ds = "FailedPermanent"  -> report("NeedsLogin", FALSE, TRUE)
    [] OTHER                   -> report("Starting", FALSE, FALSE)

derive_state(b) ==
  IF b.prefs.logged_out \/ b.prefs.want_running THEN "NeedsLogin"
  ELSE IF b.has_node_key THEN "Stopped" ELSE "NoState"

status(b, ds) ==
  IF b.device # None THEN state_from_device(ds) ELSE report(derive_state(b), FALSE, FALSE)

(* prefs_view: the settings, not the intent.                               *)
prefs_view(b) == b.prefs.config

----------------------------------------------------------------------------
(* The engine behind the backend.                                          *)

device_id(b) == IF b.device = None THEN None ELSE b.device.generation

(* The engine a connection listens to is the installed one.                *)
Attached(c) == c.rx # None /\ c.rx = device_id(be)

(* A transition as the connection's receiver or bus sees it; a bus whose   *)
(* task has not read the engine yet sees nothing.                          *)
Hears(c, ds) ==
  IF c = None \/ ~Attached(c) THEN c
  ELSE IF bare(c) THEN [c EXCEPT !.queue = <<ds>>]
  ELSE IF c.bus = "on" THEN [c EXCEPT !.queue = Append(@, ds)] ELSE c

EngineMoves ==
  \E ds \in EngineStates \ {engine} :
    /\ Live
    /\ conn # None => Len(conn.queue) < MaxQueue
    /\ engine' = ds
    /\ conn' = Hears(conn, ds)
    /\ UNCHANGED vars

(* What a step of the tasks does to the engine's cell: a new engine brings *)
(* its own.                                                                *)
EngineFollows ==
  IF device_id(be') = None THEN engine' = None
  ELSE IF device_id(be') = device_id(be) THEN engine' = engine
  ELSE engine' \in EngineStates

Ticked(c) == [c EXCEPT !.prefs_due = c.mask.prefs]

(* prefs_tx: every method that changes the prefs in place ends in          *)
(* persist_prefs, or ticks itself (reset_to_empty_profile); a switch of    *)
(* profile does not tick.  A step that persists prefs it did not change    *)
(* ticks too, and is not told apart from one that persists nothing.        *)
prefs_ticks(c) ==
  IF be'.current_profile # be.current_profile THEN {c}
  ELSE IF be'.prefs # be.prefs THEN {Ticked(c)} ELSE {c, Ticked(c)}

(* A crash takes the connection with it.                                   *)
TaskStep ==
  /\ Next
  /\ EngineFollows
  /\ IF conn = None \/ ~serving' THEN conn' = None ELSE conn' \in prefs_ticks(conn)

----------------------------------------------------------------------------
(* Both streams: subscribe to the lifecycle before anything is read.       *)

Quiet(c) == [c EXCEPT !.rx = None, !.bus = "off", !.queue = <<>>]

(* The frame that goes out first carries the session id.                   *)
Sent(c, kind) == IF c.first = None THEN [c EXCEPT !.first = kind] ELSE c

(* The prefs front-load waits while the status snapshot is owed.           *)
front_load_first(m) == m.prefs /\ ~m.initial_status

Subscribe ==
  \E m \in Masks :
    /\ serving
    /\ conn = None
    /\ conn' = [mask |-> m, at |-> IF front_load_first(m) THEN "front-load" ELSE "derive",
                then |-> "derive", life |-> be.generation, rx |-> None, bus |-> "off",
                queue |-> <<>>, prefs_due |-> FALSE, owed |-> m.initial_status,
                first |-> None, state |-> None, prefs |-> None]
    /\ UNCHANGED <<vars, engine>>

HangUp == conn # None /\ conn' = None /\ UNCHANGED <<vars, engine>>

(* A step of the stream itself, from one of the given places.              *)
Streams(places) ==
  /\ conn # None
  /\ conn.at \in places
  /\ UNCHANGED <<vars, engine>>

(* life.changed(): the next epoch begins.                                  *)
LifecycleChanged ==
  /\ Streams({"parked", "deaf"})
  /\ conn.life # be.generation
  /\ conn' = [Quiet(conn) EXCEPT !.life = be.generation, !.at = "derive"]

----------------------------------------------------------------------------
(* stream_watch.                                                           *)

(* Status and receiver in one locked section.  The receiver is a clone     *)
(* whose first changed() may fire at once.                                 *)
StatusEpoch ==
  \E queue \in {<<>>} \cup (IF Live THEN {<<engine>>} ELSE {}) :
    /\ Streams({"derive"})
    /\ bare(conn)
    /\ conn' = [conn EXCEPT !.at = "parked", !.rx = device_id(be), !.queue = queue,
                            !.state = status(be, engine)]

state_change_ignored(c) == FALSE

state_changed(c) == c.queue # <<>>

(* rx.changed(): an unseen transition asks for a fresh status; otherwise a *)
(* closed receiver ends the epoch.                                         *)
ReceiverChanged ==
  /\ Streams({"parked"})
  /\ bare(conn)
  /\ conn.rx # None
  /\ \/ state_changed(conn) /\ conn' = [conn EXCEPT !.queue = <<>>, !.at = "refresh"]
     \/ /\ conn.queue = <<>> /\ ~Attached(conn)
        /\ conn' = [Quiet(conn) EXCEPT !.at = "derive"]

Refresh ==
  /\ Streams({"refresh"})
  /\ conn' = [conn EXCEPT !.at = "parked", !.state = status(be, engine)]

----------------------------------------------------------------------------
(* stream_notify.                                                          *)

FrontLoadPrefs ==
  /\ Streams({"front-load"})
  /\ conn' = [Sent(conn, "prefs") EXCEPT !.at = "derive", !.prefs = prefs_view(be)]

(* One epoch's device_handle: an engine to attach to, or none, and then an *)
(* owed snapshot goes out at once.                                         *)
device_epoch(c, b) ==
  IF b.device = None
    THEN [c EXCEPT !.at = IF c.owed THEN "status" ELSE "parked", !.then = "parked"]
    ELSE [c EXCEPT !.at = "attach", !.rx = device_id(b)]

derive_resubscribes(c, b) ==
  LET d == [device_epoch(c, b) EXCEPT !.prefs_due = FALSE]
  IN  IF b.device = None /\ ~c.owed /\ c.mask.initial_state THEN Sent(d, "id") ELSE d

(* Without an engine, a session id that is still unsent goes out on a      *)
(* frame of its own.                                                       *)
derive(c, b) ==
  LET d == device_epoch(c, b)
  IN  IF b.device = None /\ ~c.owed /\ c.mask.initial_state THEN Sent(d, "id") ELSE d

NotifyEpoch ==
  /\ Streams({"derive"})
  /\ ~bare(conn)
  /\ conn' = derive(conn, be)

(* watch_ipn_bus off-lock: the bus task is spawned, or (an engine already  *)
(* gone) it fails and only the lifecycle is listened to.                   *)
AttachBus ==
  /\ Streams({"attach"})
  /\ \/ conn' = [conn EXCEPT !.bus = "spawned",
                             !.at = IF conn.owed THEN "baseline" ELSE "parked"]
     \/ LET deaf == [Quiet(conn) EXCEPT !.at = IF conn.owed THEN "status" ELSE "deaf",
                                        !.then = "deaf"]
        IN  /\ ~Attached(conn)
            /\ conn' = IF ~conn.owed /\ conn.mask.initial_state THEN Sent(deaf, "id") ELSE deaf

initial_frame_once(c) == c.owed

(* The subscription carries the engine's current state.                    *)
initial_frame(c) == c.mask.initial_state \/ c.owed

(* The bus task reads the engine's cells (whatever they hold, if the       *)
(* engine was stopped); transitions are queued from here on.               *)
BusReads ==
  \E ds \in EngineStates :
    /\ Streams({"baseline", "parked"})
    /\ conn.bus = "spawned"
    /\ Attached(conn) => ds = engine
    /\ conn' = [conn EXCEPT !.bus = "on", !.queue = IF initial_frame(conn) THEN <<ds>> ELSE <<>>]

(* The owed snapshot waits for the bus's first frame, or its end.          *)
Baseline ==
  /\ Streams({"baseline"})
  /\ \/ /\ conn.queue # <<>>
        /\ conn' = [conn EXCEPT !.queue = Tail(@), !.at = "status", !.then = "parked"]
     \/ /\ conn.queue = <<>> /\ ~Attached(conn)
        /\ conn' = [Quiet(conn) EXCEPT !.at = "status", !.then = "derive"]

(* emit_status_front_loads: status, then prefs, each under the lock.       *)
SendStatus ==
  /\ Streams({"status"})
  /\ conn' = [Sent(conn, "status") EXCEPT !.owed = FALSE, !.state = status(be, engine),
                 !.at = IF conn.mask.prefs THEN "status-prefs" ELSE conn.then]

SendStatusPrefs ==
  /\ Streams({"status-prefs"})
  /\ conn' = [conn EXCEPT !.at = conn.then, !.prefs = prefs_view(be)]

(* watcher.next(): a queued frame, or the end of the bus.                  *)
NextFrame ==
  /\ Streams({"parked"})
  /\ ~bare(conn) /\ conn.rx # None
  /\ \/ /\ conn.queue # <<>>
        /\ conn' = [Sent(conn, "engine") EXCEPT !.queue = Tail(@),
                       !.state = state_from_device(Head(conn.queue))]
     \/ /\ conn.queue = <<>> /\ ~Attached(conn)
        /\ conn' = [Quiet(conn) EXCEPT !.at = "derive"]

(* prefs_rx.changed(), then the frame; without an engine the epoch is      *)
(* derived again.                                                          *)
PrefsTick ==
  /\ Streams({"parked"})
  /\ conn.mask.prefs /\ conn.prefs_due
  /\ conn' = [conn EXCEPT !.prefs_due = FALSE, !.at = "prefs",
                          !.then = IF conn.rx = None THEN "derive" ELSE "parked"]

SendPrefs ==
  /\ Streams({"prefs"})
  /\ conn' = [Sent(conn, "prefs") EXCEPT !.at = conn.then, !.prefs = prefs_view(be)]

----------------------------------------------------------------------------
StreamStep ==
  \/ LifecycleChanged
  \/ StatusEpoch \/ ReceiverChanged \/ Refresh
  \/ FrontLoadPrefs \/ NotifyEpoch \/ AttachBus \/ BusReads \/ Baseline
  \/ SendStatus \/ SendStatusPrefs \/ NextFrame \/ PrefsTick \/ SendPrefs

WatchInit == Init /\ engine = None /\ conn = None

WatchNext == TaskStep \/ EngineMoves \/ Subscribe \/ HangUp \/ StreamStep

(* The runtime polls a stream that has something to do.                    *)
WatchSpec == WatchInit /\ [][WatchNext]_watchVars /\ WF_watchVars(StreamStep)
----------------------------------------------------------------------------
(* The connection waits, and nothing it listens to will wake it.           *)
Settled ==
  /\ conn # None
  /\ conn.at \in {"parked", "deaf"}
  /\ conn.life = be.generation
  /\ conn.queue = <<>>
  /\ conn.rx = None \/ Attached(conn)
  /\ conn.bus # "spawned"

(* A status watcher that nothing will wake again has been told the current *)
(* status: no engine is installed, replaced or moved without a wake that   *)
(* reaches stream_watch (the second bump of finish_up, and the order of    *)
(* subscription and snapshot).                                             *)
StatusIsCurrent == Settled /\ bare(conn) => conn.state = status(be, engine)

(* A masked watcher that set initial_state and that nothing will wake      *)
(* again has been told the state of the engine that is installed, through  *)
(* every replacement (stream_notify re-applies the mask to each epoch).    *)
NotifyStateIsCurrent ==
  Settled /\ Live /\ conn.mask.initial_state => conn.state = state_from_device(engine)

(* The prefs frame a watcher holds is the current prefs unless a tick is   *)
(* waiting for it, whichever device epoch it is in.                        *)
PrefsAreCurrent ==
  Settled /\ conn.mask.prefs /\ ~conn.prefs_due => conn.prefs = prefs_view(be)

(* A change of status reaches a status watcher: it is told the status that *)
(* stands, or the status changes again, or the client hangs up.            *)
StatusIsDelivered ==
  \A r \in {state_from_device(ds) : ds \in EngineStates}
              \cup {report(s, FALSE, FALSE) : s \in {"NeedsLogin", "Stopped", "NoState"}} :
    conn # None /\ bare(conn) /\ status(be, engine) = r
      ~> conn = None \/ status(be, engine) # r \/ conn.state = r
============================================================================
