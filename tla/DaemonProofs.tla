---------------------------- MODULE DaemonProofs ----------------------------
(***************************************************************************)
(* Proofs about the tailnetd process and the host state its engine leaves, *)
(* for any number of processes, connections, signals and kills; and about  *)
(* the loops it runs beside its server: the captive-portal loop and a      *)
(* device's tasks, for any networks, profiles, clients and changes.        *)
(***************************************************************************)
EXTENDS Daemon, TLAPS

(* Where the engine may run, and where the tasks that raise it may.        *)
EngineStages == {"notify", "bind", "serve", "drain", "close"}
TaskStages == {"bind", "serve", "drain", "close"}
BareStages == {"flags", "load", "reap", "auto"}

(* While a process lives, an engine that runs on a kernel TUN has its      *)
(* route on the host, and its DNS key unless an engine before it was let   *)
(* go unfinished; and a process whose engines were all shut down has       *)
(* neither without one.                                                    *)
HostFollowsEngine ==
  Alive => /\ starts > 0
           /\ engine /\ tun => starts \in routes /\ (dns = starts \/ starts \in missed)
           /\ starts \notin missed /\ ~(engine /\ tun) => starts \notin routes /\ dns # starts

(* The inductive invariant.  Host state names only processes that have     *)
(* started; past the reaper nothing of an earlier one is left that it did  *)
(* not fail to remove; before the first engine nothing is the process's    *)
(* own; outside the stages in between there is no engine and no task that  *)
(* could raise one.                                                        *)
HostInv ==
  /\ starts \in Nat /\ engine \in BOOLEAN /\ tun \in BOOLEAN
  /\ routes \subseteq 1 .. starts /\ dns \in 0 .. starts
  /\ HostFollowsEngine
  /\ stage \in BareStages => starts \notin routes /\ dns # starts
  /\ stage \notin EngineStages => ~engine
  /\ stage \notin TaskStages => raising = {} /\ ~spawned
  /\ stage \in EngineStages \cup {"auto", "exit"} => routes \subseteq missed \cup {starts}
  /\ LeavesNothing

LEMMA InitHost == Init => HostInv
<1> SUFFICES ASSUME Init PROVE HostInv
  OBVIOUS
<1>1. starts = 0 /\ dns = 0 /\ routes = {} /\ stage = "off" /\ status = "none"
  BY DEF Init
<1>2. engine \in BOOLEAN /\ tun \in BOOLEAN /\ ~engine /\ raising = {} /\ ~spawned
  BY DEF Init
<1>3. ~Alive
  BY <1>1 DEF Alive, Boot, Running, Ending
<1>4. starts \in Nat /\ dns \in 0 .. starts /\ routes \subseteq 1 .. starts
  BY <1>1
<1>5. QED
  BY <1>1, <1>2, <1>3, <1>4 DEF HostInv, HostFollowsEngine, LeavesNothing, EngineStages,
     BareStages

(* Steps that change nothing of the host or its processes.                 *)
Still == UNCHANGED <<stage, starts, status, tun, engine, routes, dns, missed, raising, spawned>>

LEMMA StillKeeps ==
  ASSUME HostInv, Still
  PROVE  HostInv'
BY DEF HostInv, Still, HostFollowsEngine, Alive, LeavesNothing

LEMMA EngineDownKeeps ==
  ASSUME HostInv, Alive, EngineDown
  PROVE  /\ ~engine' /\ engine' \in BOOLEAN
         /\ routes' \subseteq routes /\ dns' \in {0, dns} /\ missed \subseteq missed'
         /\ starts \in missed' \/ (starts \notin routes' /\ dns' # starts)
<1>1. /\ starts \in Nat /\ starts > 0
      /\ starts \notin missed /\ ~(engine /\ tun) => dns # starts
      /\ engine' = FALSE
  BY DEF HostInv, HostFollowsEngine, EngineDown
<1>2. starts # 0
  BY <1>1
<1>3. missed \subseteq missed'
  BY DEF EngineDown
<1>4. routes' \subseteq routes /\ (starts \in missed' \/ starts \notin routes')
  BY DEF EngineDown
<1>5. dns' \in {0, dns} /\ (starts \in missed' \/ dns' = IF engine /\ tun THEN 0 ELSE dns)
  BY DEF EngineDown
<1>6. QED
  BY <1>1, <1>2, <1>3, <1>4, <1>5, Zenon

LEMMA EngineUpKeeps ==
  ASSUME HostInv, Alive, EngineUp
  PROVE  /\ engine' /\ engine' \in BOOLEAN
         /\ routes' \subseteq routes \cup {starts} /\ routes' \subseteq 1 .. starts
         /\ dns' \in {starts, dns}
         /\ tun => starts \in routes' /\ dns' = starts
         /\ starts \notin missed /\ ~tun => starts \notin routes' /\ dns' # starts
BY DEF HostInv, HostFollowsEngine, EngineUp

----------------------------------------------------------------------------
(* The kinds of step.                                                      *)

LivingStages == {"flags", "load", "reap", "auto", "exit"} \cup EngineStages

LEMMA AliveStages == Alive <=> stage \in LivingStages
BY DEF Alive, Boot, Running, Ending, LivingStages, EngineStages

LEMMA AliveStagesNext == Alive' <=> stage' \in LivingStages
BY DEF Alive, Boot, Running, Ending, LivingStages, EngineStages

(* The process goes on and the host is left alone.                         *)
LEMMA AdvanceKeeps ==
  ASSUME HostInv, stage \in LivingStages, stage' \in LivingStages,
         UNCHANGED <<starts, tun, engine, routes, dns, missed>>,
         stage' \in BareStages => stage \in BareStages,
         stage' \notin EngineStages => ~engine,
         stage' \notin TaskStages => raising' = {} /\ ~spawned',
         stage' \in EngineStages \cup {"auto", "exit"} =>
           stage \in EngineStages \cup {"auto", "exit"}
  PROVE  HostInv'
<1>1. HostFollowsEngine'
  BY AliveStages DEF HostInv, HostFollowsEngine
<1>2. LeavesNothing'
  BY DEF LeavesNothing, LivingStages, EngineStages
<1>3. QED
  BY <1>1, <1>2 DEF HostInv

(* The process is over.  Only one that was killed may leave an engine.     *)
LEMMA EndsKeeps ==
  ASSUME HostInv, stage \in LivingStages, NEW how, Ends(how),
         how \in {"ok", "fail"} => ~engine
  PROVE  HostInv'
<1>1. /\ stage' = "post" /\ status' = how /\ engine' = FALSE /\ raising' = {} /\ spawned' = FALSE
      /\ UNCHANGED <<starts, tun, routes, dns, missed>>
  BY DEF Ends
<1>2. HostFollowsEngine'
  BY <1>1, AliveStagesNext DEF HostFollowsEngine, LivingStages, EngineStages
<1>3. LeavesNothing'
  BY <1>1, AliveStages DEF LeavesNothing, HostInv, HostFollowsEngine
<1>4. ~engine' /\ engine' \in BOOLEAN /\ ~spawned'
  BY <1>1
<1>5. stage' \notin EngineStages \cup {"auto", "exit"} /\ stage' \notin BareStages
  BY <1>1 DEF EngineStages, BareStages
<1>6. QED
  BY <1>1, <1>2, <1>3, <1>4, <1>5 DEF HostInv

(* The engine is taken down, by a handler or by the teardown.              *)
LEMMA LowerKeeps ==
  ASSUME HostInv, stage \in TaskStages, stage' \in TaskStages \cup {"exit"}, EngineDown,
         stage' = "exit" => raising' = {} /\ ~spawned',
         UNCHANGED <<starts, tun>>
  PROVE  HostInv'
<1>1. Alive
  BY AliveStages DEF TaskStages, LivingStages, EngineStages
<1>2. /\ ~engine' /\ engine' \in BOOLEAN
      /\ routes' \subseteq routes /\ dns' \in {0, dns} /\ missed \subseteq missed'
      /\ starts \in missed' \/ (starts \notin routes' /\ dns' # starts)
  BY <1>1, EngineDownKeeps
<1>3. starts \in Nat /\ starts > 0 /\ routes \subseteq 1 .. starts /\ dns \in 0 .. starts
  BY <1>1 DEF HostInv, HostFollowsEngine
<1>4. routes' \subseteq 1 .. starts' /\ dns' \in 0 .. starts' /\ starts' \in Nat
  BY <1>2, <1>3
<1>5. HostFollowsEngine'
  BY <1>2, <1>3 DEF HostFollowsEngine
<1>6. LeavesNothing'
  BY DEF LeavesNothing, TaskStages
<1>7. routes' \subseteq missed' \cup {starts'}
  BY <1>2 DEF HostInv, TaskStages, EngineStages
<1>8. stage' \notin TaskStages => raising' = {} /\ ~spawned'
  BY DEF TaskStages
<1>9. stage' \notin BareStages
  BY DEF TaskStages, BareStages
<1>10. QED
  BY <1>2, <1>4, <1>5, <1>6, <1>7, <1>8, <1>9 DEF HostInv

(* The engine is brought up, at boot or by a task.                         *)
LEMMA RaiseKeeps ==
  ASSUME HostInv, stage \in EngineStages \cup {"auto"}, stage' \in EngineStages, EngineUp,
         stage' \notin TaskStages => raising' = {} /\ ~spawned',
         UNCHANGED <<starts, tun, missed>>
  PROVE  HostInv'
<1>1. Alive
  BY AliveStages DEF LivingStages, EngineStages
<1>2. /\ engine' /\ engine' \in BOOLEAN
      /\ routes' \subseteq routes \cup {starts} /\ routes' \subseteq 1 .. starts
      /\ dns' \in {starts, dns}
      /\ tun => starts \in routes' /\ dns' = starts
      /\ starts \notin missed /\ ~tun => starts \notin routes' /\ dns' # starts
  BY <1>1, EngineUpKeeps
<1>3. starts \in Nat /\ starts > 0 /\ dns \in 0 .. starts
  BY <1>1 DEF HostInv, HostFollowsEngine
<1>4. dns' \in 0 .. starts' /\ starts' \in Nat
  BY <1>2, <1>3
<1>5. HostFollowsEngine'
  BY <1>2, <1>3 DEF HostFollowsEngine
<1>6. LeavesNothing'
  BY DEF LeavesNothing, EngineStages
<1>7. routes' \subseteq missed' \cup {starts'}
  BY <1>2 DEF HostInv, EngineStages
<1>8. stage' \notin BareStages
  BY DEF EngineStages, BareStages
<1>9. QED
  BY <1>2, <1>4, <1>5, <1>6, <1>7, <1>8 DEF HostInv

(* A process starts: nothing on the host can be its own yet.               *)
LEMMA StartKeeps ==
  ASSUME HostInv, stage = "off", StartProcess
  PROVE  HostInv'
<1>1. /\ stage' = "flags" /\ starts' = starts + 1
      /\ UNCHANGED <<tun, engine, routes, dns, missed, raising, spawned>>
  BY DEF StartProcess, host
<1>2. /\ starts \in Nat /\ routes \subseteq 1 .. starts /\ dns \in 0 .. starts
      /\ ~engine /\ engine \in BOOLEAN /\ tun \in BOOLEAN /\ raising = {} /\ ~spawned
  BY DEF HostInv, EngineStages, TaskStages
<1>3. /\ starts' \in Nat /\ starts' > 0 /\ routes' \subseteq 1 .. starts'
      /\ dns' \in 0 .. starts' /\ starts' \notin routes' /\ dns' # starts'
  BY <1>1, <1>2
<1>4. HostFollowsEngine'
  BY <1>1, <1>2, <1>3 DEF HostFollowsEngine
<1>5. QED
  BY <1>1, <1>2, <1>3, <1>4 DEF HostInv, LeavesNothing, EngineStages

----------------------------------------------------------------------------
(* The steps.                                                              *)

USE DEF LivingStages, EngineStages, TaskStages, BareStages

LEMMA BootKeeps ==
  ASSUME HostInv, CheckFlags \/ LoadState \/ Reap \/ auto_start \/ sd_notify_ready
  PROVE  HostInv'
<1>1. CASE CheckFlags
  <2>1. CASE RefusedAtOnce(launch)
    BY <1>1, <2>1, EndsKeeps DEF CheckFlags, Fails, HostInv
  <2>2. CASE ~RefusedAtOnce(launch)
    BY <1>1, <2>2, AdvanceKeeps DEF CheckFlags, Continues, host, serving, HostInv
  <2>3. QED
    BY <2>1, <2>2
<1>2. CASE LoadState
  <2>0. stage = "load" /\ ~engine /\ raising = {} /\ ~spawned
    BY <1>2 DEF LoadState, HostInv
  <2>1. CASE Fails
    BY <2>0, <2>1, EndsKeeps DEF Fails
  <2>2. CASE ~Fails
    <3>1. /\ stage' = "reap" /\ UNCHANGED <<starts, engine, routes, dns, missed, raising, spawned>>
          /\ tun' = tun \/ tun' = (resolve_with(launch) = "tun")
      BY <1>2, <2>2 DEF LoadState, Continues, serving, apply_tun_flag
    <3>2. tun' \in BOOLEAN
      BY <3>1 DEF HostInv
    <3>3. HostFollowsEngine'
      BY <2>0, <3>1, AliveStages DEF HostFollowsEngine, HostInv
    <3>4. QED
      BY <2>0, <3>1, <3>2, <3>3 DEF HostInv, LeavesNothing
  <2>3. QED
    BY <2>1, <2>2
<1>3. CASE Reap
  <2>1. /\ stage = "reap" /\ stage' = "auto" /\ ~engine /\ raising = {} /\ ~spawned
        /\ UNCHANGED <<starts, tun, engine, raising, spawned>>
    BY <1>3 DEF Reap, Continues, serving, HostInv
  <2>2. starts \in Nat /\ starts > 0 /\ routes \subseteq 1 .. starts /\ dns \in 0 .. starts
        /\ starts \notin routes /\ dns # starts
    BY <2>1, AliveStages DEF HostInv, HostFollowsEngine
  <2>3. reap_stale_host_state
    BY <1>3 DEF Reap
  <2>4. /\ routes' \subseteq routes /\ dns' \in {0, dns} /\ routes' \subseteq missed'
    <3>1. 0 \notin routes
      BY <2>2
    <3>2. CASE missed' = (routes \union {dns}) \ {0} /\ UNCHANGED <<routes, dns>>
      BY <3>1, <3>2
    <3>3. CASE \E left \in SUBSET stale_utun_routes, key \in {0, dns} :
                 /\ routes' = (routes \ stale_utun_routes) \union left
                 /\ dns' = key
                 /\ missed' = (left \union {key}) \ {0}
      <4>1. stale_utun_routes = routes
        BY <2>1 DEF stale_utun_routes
      <4>2. QED
        BY <3>1, <3>3, <4>1
    <3>4. QED
      BY <2>3, <3>2, <3>3 DEF reap_stale_host_state
  <2>5. routes' \subseteq 1 .. starts' /\ dns' \in 0 .. starts' /\ starts' \notin routes'
        /\ dns' # starts' /\ starts' > 0 /\ starts' \in Nat
    BY <2>1, <2>2, <2>4
  <2>6. HostFollowsEngine'
    BY <2>1, <2>5 DEF HostFollowsEngine
  <2>7. QED
    BY <2>1, <2>4, <2>5, <2>6 DEF HostInv, LeavesNothing
<1>4. CASE auto_start
  <2>1. /\ stage = "auto" /\ stage' = "notify" /\ raising = {} /\ ~spawned
        /\ UNCHANGED <<starts, raising, spawned>>
    BY <1>4 DEF auto_start, Continues, serving, HostInv
  <2>2. CASE UNCHANGED host
    BY <2>1, <2>2, AdvanceKeeps DEF host
  <2>3. CASE EngineUp /\ UNCHANGED <<wants, tun, missed>>
    BY <2>1, <2>3, RaiseKeeps
  <2>4. QED
    BY <1>4, <2>2, <2>3 DEF auto_start
<1>5. CASE sd_notify_ready
  BY <1>5, AdvanceKeeps DEF sd_notify_ready, Continues, host
<1>6. QED
  BY <1>1, <1>2, <1>3, <1>4, <1>5

(* The select!, its end, the teardown and the exit.                        *)
LEMMA ServeKeeps ==
  ASSUME HostInv,
         \/ BindSocket \/ ServeStops \/ DrainDone \/ DrainTimesOut \/ Teardown \/ Exit
         \/ \E p \in Asked : BindProxy(p) \/ ProxyStops(p)
  PROVE  HostInv'
<1>1. CASE Exit
  BY <1>1, EndsKeeps DEF Exit, HostInv
<1>2. CASE Teardown
  BY <1>2, LowerKeeps DEF Teardown
<1>3. CASE \E res : SelectEnds(res) /\ stage \in {"bind", "serve", "drain"}
  BY <1>3, AdvanceKeeps DEF SelectEnds, host
<1>4. CASE BindSocket \/ ServeStops
  <2>1. CASE stage = "bind" /\ stage' = "serve" /\ UNCHANGED <<starts, host>>
    BY <2>1, AdvanceKeeps DEF host
  <2>2. CASE ServeStops
    BY <2>2, AdvanceKeeps DEF ServeStops, host
  <2>3. QED
    BY <1>3, <1>4, <2>1, <2>2 DEF BindSocket
<1>5. CASE DrainDone \/ DrainTimesOut
  BY <1>3, <1>5 DEF DrainDone, DrainTimesOut, DrainEnds
<1>6. CASE \E p \in Asked : BindProxy(p) \/ ProxyStops(p)
  <2>1. stage \in {"bind", "serve", "drain"}
    BY <1>6 DEF BindProxy, ProxyStops, Selecting, Running
  <2>2. Still \/ \E res : SelectEnds(res)
    BY <1>6 DEF BindProxy, ProxyStops, Still, process, host
  <2>3. QED
    BY <1>3, <2>1, <2>2, StillKeeps
<1>7. QED
  BY <1>1, <1>2, <1>4, <1>5, <1>6

(* The tasks that lower and raise the engine while the process serves.     *)
LEMMA TasksKeep ==
  ASSUME HostInv,
         \/ \E c \in Conns : Accept(c) \/ Handle(c) \/ ClientRaises(c)
         \/ ReconnectRaises \/ HupReload
         \/ \E r \in Conns \union {"reconnect", "sighup"} : RaiseFinishes(r)
  PROVE  HostInv'
<1>1. ASSUME stage \in TaskStages, EngineDown, UNCHANGED <<stage, starts, tun>>
      PROVE  HostInv'
  BY <1>1, LowerKeeps
<1>2. CASE \E c \in Conns : Accept(c) \/ Handle(c)
  <2>1. CASE Still
    BY <2>1, StillKeeps
  <2>2. CASE ~Still
    <3>1. /\ stage \in TaskStages /\ EngineDown /\ UNCHANGED <<stage, starts, tun>>
      BY <1>2, <2>2 DEF Accept, Handle, Still, process, host, Running
    <3>2. QED
      BY <1>1, <3>1
  <2>3. QED
    BY <2>1, <2>2
<1>3. CASE \E c \in Conns : ClientRaises(c)
  BY <1>1, <1>3 DEF ClientRaises, RaiseBegins, Running, process
<1>4. CASE ReconnectRaises
  <2>1. stage \in TaskStages
    BY <1>4 DEF ReconnectRaises, HostInv
  <2>2. QED
    BY <1>1, <1>4, <2>1 DEF ReconnectRaises, RaiseBegins, process
<1>5. CASE HupReload
  <2>1. CASE Still
    BY <2>1, StillKeeps
  <2>2. CASE ~Still
    <3>1. /\ stage \in TaskStages /\ EngineDown /\ UNCHANGED <<stage, starts, tun>>
      BY <1>5, <2>2 DEF HupReload, RaiseBegins, Selecting, Running, Still, process, host
    <3>2. QED
      BY <1>1, <3>1
  <2>3. QED
    BY <2>1, <2>2
<1>6. CASE \E r : RaiseFinishes(r)
  <2>1. stage \in TaskStages /\ UNCHANGED <<stage, starts, status, spawned>>
    BY <1>6 DEF RaiseFinishes, HostInv, process
  <2>2. CASE UNCHANGED host
    BY <2>1, <2>2, AdvanceKeeps DEF host
  <2>3. CASE EngineUp /\ UNCHANGED <<wants, tun, missed>>
    BY <2>1, <2>3, RaiseKeeps
  <2>4. QED
    BY <1>6, <2>2, <2>3 DEF RaiseFinishes
<1>7. QED
  BY <1>2, <1>3, <1>4, <1>5, <1>6

(* An engine that was let go undoes what it did, late.                     *)
LEMMA DroppedKeeps ==
  ASSUME HostInv, HandleDropped
  PROVE  HostInv'
<1>1. /\ Alive /\ starts \in missed
      /\ dns' = 0 /\ routes' \subseteq routes
      /\ engine => routes' = routes
      /\ UNCHANGED <<stage, starts, tun, engine, missed, raising, spawned>>
  BY DEF HandleDropped, process, serving
<1>2. starts \in Nat /\ starts > 0 /\ routes' \subseteq 1 .. starts /\ dns' \in 0 .. starts
  BY <1>1 DEF HostInv, HostFollowsEngine
<1>3. HostFollowsEngine'
  BY <1>1, <1>2 DEF HostInv, HostFollowsEngine
<1>4. LeavesNothing'
  BY <1>1 DEF LeavesNothing
<1>5. stage' \in BareStages => starts' \notin routes' /\ dns' # starts'
  BY <1>1, <1>2 DEF HostInv
<1>6. QED
  BY <1>1, <1>2, <1>3, <1>4, <1>5 DEF HostInv

LEMMA NextHost == HostInv /\ [Next]_vars => HostInv'
<1> SUFFICES ASSUME HostInv, [Next]_vars PROVE HostInv'
  OBVIOUS
<1>1. CASE Daemon
  BY <1>1, BootKeeps, ServeKeeps DEF Daemon
<1>2. CASE \/ \E c \in Conns : Accept(c) \/ Handle(c) \/ ClientRaises(c)
           \/ ReconnectRaises \/ HupReload
           \/ \E r \in Conns \union {"reconnect", "sighup"} : RaiseFinishes(r)
  BY <1>2, TasksKeep
<1>3. CASE \E d \in Dials : \/ DialAccept(d) \/ DialHead(d) \/ DialConnects(d)
                            \/ TunnelCloses(d) \/ HandshakeTimesOut(d)
  <2>1. UNCHANGED <<process, host, serving, signals>>
    BY <1>3 DEF DialAccept, DialHead, DialConnects, TunnelCloses, HandshakeTimesOut
  <2>2. Still
    BY <2>1 DEF process, host, serving, Still
  <2>3. QED
    BY <2>2, StillKeeps
<1>4. CASE Kill \/ Term \/ Hup
  <2>1. Alive /\ (Still \/ \E how \in {"killed", "signalled"} : Ends(how))
    BY <1>4 DEF Kill, Term, Hup, Still, process, host, serving
  <2>2. QED
    BY <2>1, AliveStages, StillKeeps, EndsKeeps
<1>5. CASE PostCleanup
  BY <1>5 DEF PostCleanup, host, HostInv, HostFollowsEngine, Alive, Boot, Running, Ending,
              LeavesNothing
<1>6. CASE Restart \/ OperatorStarts
  BY <1>6, StartKeeps DEF Restart, OperatorStarts
<1>7. CASE UNCHANGED vars
  BY <1>7, StillKeeps DEF vars, process, host, serving, Still
<1>8. CASE HandleDropped
  BY <1>8, DroppedKeeps
<1>9. QED
  BY <1>1, <1>2, <1>3, <1>4, <1>5, <1>6, <1>7, <1>8 DEF Next

LEMMA Hosted == Spec => []HostInv
BY InitHost, NextHost, PTL DEF Spec

(* A daemon that exits by itself, with or without an error, leaves no      *)
(* route and no resolver of its own behind, unless stop_device let an      *)
(* engine of it go unfinished: the teardown comes before the error, with   *)
(* every task that could raise the engine aborted.                         *)
THEOREM ExitLeavesNothing == Spec => []LeavesNothing
<1>1. HostInv => LeavesNothing
  BY DEF HostInv
<1>2. QED
  BY <1>1, Hosted, PTL

(* However often the process was killed before, a running engine has its   *)
(* own routes on the host, its DNS key too unless an engine before it was  *)
(* let go unfinished, and nothing is older than what the reaper failed to  *)
(* remove.                                                                 *)
THEOREM EngineOwnsHost == Spec => []HostIsOurs
<1>1. HostInv => HostIsOurs
  BY AliveStages DEF HostInv, HostFollowsEngine, HostIsOurs
<1>2. QED
  BY <1>1, Hosted, PTL

-----------------------------------------------------------------------------
(* The loops that the process runs beside its server: one for its whole    *)
(* life, and the tasks of one device.  Each module has a state of its own, *)
(* and the hypotheses below are its assumptions on its constants.          *)
CONSTANTS
  Networks, SettleTime, RECHECK_INTERVAL, ProbeSeconds, None, Profiles, Nodes, Clients,
  MaxChanges, MaxCommands, MaxFailures

VARIABLES node, world, cap, network, link, bound, picks, cell, asks, count

Portal == INSTANCE Captive WITH host <- world
Device == INSTANCE DeviceTasks

(* What the captive-portal loop keeps has its fields.                      *)
PortalShape == {"pc", "timer", "found", "detected"} \subseteq DOMAIN cap

LEMMA PortalShaped == Portal!Spec => []PortalShape
<1>1. Portal!Init => PortalShape
  BY DEF Portal!Init, PortalShape
<1>2. PortalShape /\ [Portal!Next]_Portal!vars => PortalShape'
  BY DEF PortalShape, Portal!Next, Portal!vars, Portal!CaptivePolls, Portal!Healthy,
         Portal!ProbeAnswered, Portal!CaptiveRecords, Portal!HostChanges, Portal!NodeChanges
<1> QED
  BY <1>1, <1>2, PTL DEF Portal!Spec

(* A signal that could not be read hides an impairment and invents none.   *)
LEMMA UnreadHides ==
  ASSUME None \notin Portal!Warnables \cup BOOLEAN, SettleTime \in [Portal!Warnables -> Nat],
         NEW unread, Portal!Impacted(unread) # None
  PROVE  /\ node.want_running /\ node.state = "Running"
         /\ Portal!Impacted({}) # None
<1> DEFINE bad(u) == {w \in Portal!Warnables : Portal!Health(u)[w] = FALSE}
           first(w) == \A v \in bad({}) :
                         \/ ~Portal!is_steady(w) /\ Portal!is_steady(v)
                         \/ /\ Portal!is_steady(w) = Portal!is_steady(v)
                            /\ SettleTime[w] <= SettleTime[v]
<1>1. node.want_running /\ node.state = "Running" /\ bad(unread) # {}
  BY DEF Portal!Impacted, Portal!should_run_captive_portal_detection,
         Portal!connectivity_impacted_from
<1>2. bad(unread) \subseteq bad({})
  <2>1. ASSUME NEW w \in bad(unread) PROVE w \in bad({})
    <3>1. w \in Portal!Warnables /\ Portal!Health(unread)[w] = FALSE
      OBVIOUS
    <3>2. w \notin unread
      BY <3>1 DEF Portal!Health
    <3>3. Portal!Health(unread)[w] = Portal!Health({})[w]
      BY <3>1, <3>2 DEF Portal!Health
    <3> QED
      BY <3>1, <3>3
  <2> QED
    BY <2>1
<1>3. Portal!Impacted({}) = CHOOSE w \in bad({}) : first(w)
  BY <1>1, <1>2 DEF Portal!Impacted, Portal!should_run_captive_portal_detection,
         Portal!connectivity_impacted_from
<1>4. \E w \in bad({}) : first(w)
  <2>1. bad({}) # {} /\ bad({}) \subseteq {"network-status", "no-derp-home", "ip-forwarding-off"}
    BY <1>1, <1>2 DEF Portal!Warnables
  <2>2. \A w \in bad({}) : SettleTime[w] \in Nat
    BY DEF Portal!Warnables
  <2> QED
    BY <2>1, <2>2 DEF Portal!is_steady
<1>5. (CHOOSE w \in bad({}) : first(w)) \in bad({})
  BY <1>4
<1> QED
  BY <1>1, <1>3, <1>5

(* A captive-portal warning is only ever raised on a node that is wanted   *)
(* up, Running and impaired at that moment, whatever the host, the node    *)
(* and the reads did while the probe was out (captive_portal_loop re-reads *)
(* its gate before it records a verdict).                                  *)
THEOREM WarningsAreCurrent ==
  ASSUME None \notin Portal!Warnables \cup BOOLEAN, SettleTime \in [Portal!Warnables -> Nat]
  PROVE  Portal!Spec => Portal!WarningIsCurrent
<1>1. ASSUME PortalShape, [Portal!Next]_Portal!vars, ~cap.detected, cap'.detected
      PROVE  node.want_running /\ node.state = "Running" /\ Portal!Impacted({}) # None
  <2>1. CASE Portal!CaptiveRecords
    <3>1. PICK unread \in Portal!Unread, d \in 0 .. ProbeSeconds :
            cap' = [cap EXCEPT !.pc = "sleep", !.found = FALSE, !.timer = Portal!Elapse(@, d),
                               !.detected = Portal!StillImpacted(unread) /\ cap.found]
      BY <2>1 DEF Portal!CaptiveRecords
    <3>2. Portal!StillImpacted(unread)
      BY <1>1, <3>1 DEF PortalShape
    <3> QED
      BY <3>2, UnreadHides DEF Portal!StillImpacted
  <2>2. CASE Portal!CaptivePolls
    BY <1>1, <2>2 DEF PortalShape, Portal!CaptivePolls, Portal!Healthy
  <2>3. CASE Portal!ProbeAnswered
    BY <1>1, <2>3 DEF PortalShape, Portal!ProbeAnswered
  <2>4. CASE Portal!HostChanges \/ Portal!NodeChanges \/ UNCHANGED Portal!vars
    BY <1>1, <2>4 DEF Portal!HostChanges, Portal!NodeChanges, Portal!vars
  <2> QED
    BY <1>1, <2>1, <2>2, <2>3, <2>4 DEF Portal!Next
<1> QED
  BY <1>1, PortalShaped, PTL DEF Portal!Spec, Portal!WarningIsCurrent

-----------------------------------------------------------------------------
(* The recompute task works for the installed device, which is the current *)
(* profile's, and holds an exit node of that profile's tailnet or none.    *)
DeviceInv ==
  /\ {"profile", "device", "state"} \subseteq DOMAIN node
  /\ Device!Recompute \in DOMAIN asks
  /\ node.state \in {"Stopped", "building"} => node.device = None
  /\ node.device # None => node.device.profile = node.profile
  /\ LET ask == asks[Device!Recompute] IN
       ask # None =>
         /\ {"device", "step", "id"} \subseteq DOMAIN ask
         /\ node.device # None /\ ask.device = node.device
         /\ ask.id = None \/ ask.id.tailnet = node.profile

LEMMA InitDevice == Device!Init => DeviceInv
BY DEF Device!Init, Device!Askers, DeviceInv

(* Steps that leave the node and the recompute task alone.                 *)
LEMMA ElsewhereKeeps ==
  ASSUME DeviceInv, node' = node, DOMAIN asks' = DOMAIN asks,
         asks'[Device!Recompute] = asks[Device!Recompute]
  PROVE  DeviceInv'
BY DEF DeviceInv, Device!Recompute

LEMMA NextDevice ==
  ASSUME Device!Recompute \notin Clients, DeviceInv, [Device!Next]_Device!vars
  PROVE  DeviceInv'
<1> DEFINE R == Device!Recompute
<1>1. CASE Device!RecomputeStarts
  <2>1. /\ node' = node /\ node.device # None
        /\ asks' = [asks EXCEPT ![R] = [device |-> node.device, step |-> "computing", id |-> None]]
    BY <1>1 DEF Device!RecomputeStarts, Device!Computing
  <2> QED
    BY <2>1 DEF DeviceInv, Device!Recompute
<1>2. ASSUME NEW c \in Clients, Device!ClientAsks(c) PROVE DeviceInv'
  <2>1. node' = node /\ c # R
        /\ asks' = [asks EXCEPT ![c] = [device |-> node.device, step |-> "computing", id |-> None]]
    BY <1>2 DEF Device!ClientAsks, Device!Computing
  <2>2. DOMAIN asks' = DOMAIN asks /\ asks'[R] = asks[R]
    BY <2>1 DEF DeviceInv
  <2> QED
    BY <2>1, <2>2, ElsewhereKeeps
<1>3. ASSUME NEW a \in Device!Askers,
             Device!compute_suggestion(a) \/ Device!publish_suggested_exit_node(a)
      PROVE  DeviceInv'
  <2>1. node' = node
    BY <1>3 DEF Device!compute_suggestion, Device!publish_suggested_exit_node
  <2>2. PICK ask : asks' = [asks EXCEPT ![a] = ask]
    BY <1>3 DEF Device!compute_suggestion, Device!publish_suggested_exit_node
  <2>3. CASE a # R
    <3>1. DOMAIN asks' = DOMAIN asks /\ asks'[R] = asks[R]
      BY <2>2, <2>3 DEF DeviceInv
    <3> QED
      BY <2>1, <3>1, ElsewhereKeeps
  <2>4. CASE a = R /\ Device!publish_suggested_exit_node(a)
    BY <2>1, <2>4 DEF DeviceInv, Device!publish_suggested_exit_node, Device!Recompute
  <2>5. CASE a = R /\ Device!compute_suggestion(a)
    <3>1. asks[R] # None /\ R \in DOMAIN asks
      BY <2>5 DEF Device!compute_suggestion, DeviceInv
    <3>2. /\ {"device", "step", "id"} \subseteq DOMAIN asks[R]
          /\ node.device # None /\ asks[R].device = node.device
          /\ node.device.profile = node.profile
          /\ asks[R].id = None \/ asks[R].id.tailnet = node.profile
      BY <3>1 DEF DeviceInv
    <3> DEFINE p == asks[R].device.profile
               id == Device!permitted_suggestion(p, picks.best[p])
    <3>3. id = None \/ id.tailnet = node.profile
      BY <3>2 DEF Device!permitted_suggestion, Device!Id
    <3>4. \/ asks' = [asks EXCEPT ![R] = [asks[R] EXCEPT !.step = "answered", !.id = id]]
          \/ asks' = [asks EXCEPT ![R].step = "failed"]
      BY <2>5 DEF Device!compute_suggestion
    <3> HIDE DEF id, p
    <3>5. /\ DOMAIN asks' = DOMAIN asks
          /\ \/ asks'[R] = [asks[R] EXCEPT !.step = "answered", !.id = id]
             \/ asks'[R] = [asks[R] EXCEPT !.step = "failed"]
      BY <3>1, <3>4
    <3>6. /\ {"device", "step", "id"} \subseteq DOMAIN asks'[R]
          /\ asks'[R].device = node.device
          /\ asks'[R].id = None \/ asks'[R].id.tailnet = node.profile
      BY <3>2, <3>3, <3>5
    <3> QED
      BY <2>1, <3>1, <3>2, <3>5, <3>6 DEF DeviceInv, Device!Recompute
  <2> QED
    BY <1>3, <2>3, <2>4, <2>5
<1>4. CASE \/ Device!MonitorStarts \/ Device!MonitorPolls \/ Device!RebindEnds
           \/ Device!WorldChanges \/ UNCHANGED Device!vars
  BY <1>4, ElsewhereKeeps DEF Device!MonitorStarts, Device!MonitorPolls, Device!RebindEnds,
     Device!WorldChanges, Device!vars
<1>5. CASE Device!BeginUp \/ Device!Converges \/ Device!FinishUp
  <2>1. CASE Device!BeginUp
    BY <2>1 DEF DeviceInv, Device!BeginUp, Device!Recompute
  <2>2. CASE Device!Converges
    BY <2>2 DEF DeviceInv, Device!Converges, Device!Recompute
  <2>3. CASE Device!FinishUp
    <3>1. asks' = asks /\ R \in DOMAIN asks /\ asks[R] = None
      BY <2>3 DEF DeviceInv, Device!FinishUp
    <3>2. /\ {"profile", "device", "state"} \subseteq DOMAIN node'
          /\ node'.state = "Starting" /\ node'.device.profile = node'.profile
      BY <2>3 DEF DeviceInv, Device!FinishUp
    <3> QED
      BY <3>1, <3>2 DEF DeviceInv, Device!Recompute
  <2> QED
    BY <1>5, <2>1, <2>2, <2>3
<1>6. CASE Device!Down \/ \E p \in Profiles : Device!ChangeIdentity(p)
  BY <1>6 DEF DeviceInv, Device!Down, Device!ChangeIdentity, Device!stop_device,
     Device!AbortSuggestionTask, Device!Recompute
<1> QED
  BY <1>1, <1>2, <1>3, <1>4, <1>5, <1>6 DEF Device!Next

(* What the device's own suggestion task publishes is an exit node of the  *)
(* profile in force, however a switch, a logout, a down or an up fall      *)
(* between its question and its answer (stop_device aborts and awaits it   *)
(* before forget_suggested_exit_node).                                     *)
THEOREM RecomputedIsOurs ==
  ASSUME Device!Recompute \notin Clients
  PROVE  Device!Spec => Device!RecomputeIsOurs
<1>1. DeviceInv /\ [Device!Next]_Device!vars => DeviceInv'
  BY NextDevice
<1>2. ASSUME DeviceInv, Device!publish_suggested_exit_node(Device!Recompute),
             cell' # cell, cell' # None
      PROVE  cell'.tailnet = node.profile
  BY <1>2 DEF DeviceInv, Device!publish_suggested_exit_node, Device!Recompute
<1> QED
  BY <1>1, <1>2, InitDevice, PTL DEF Device!Spec, Device!RecomputeIsOurs

============================================================================
