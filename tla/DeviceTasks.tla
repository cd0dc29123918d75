---------------------------- MODULE DeviceTasks ----------------------------
(***************************************************************************)
(* The tasks of one live device (ipn/mod.rs, ipn/linkmon.rs, ipn/diag.rs): *)
(* the link monitor, which rebinds the engine's sockets when the host's    *)
(* path changes, and the exit-node suggestion task.  finish_up spawns      *)
(* them, stop_device aborts them; clients compute suggestions beside them. *)
(***************************************************************************)
EXTENDS Naturals, Linkmon

CONSTANTS
  Profiles,     \* login profiles, each on a tailnet of its own
  Networks,     \* what the host may be attached to: sets of interface addresses
  Nodes,        \* the exit nodes of a tailnet
  Clients,      \* LocalAPI connections asking for a suggestion
  None,         \* no device, no suggestion, nothing read
  MaxChanges,   \* bound on changes of the host and the tailnet
  MaxCommands,  \* bound on commands
  MaxFailures   \* bound on failing enumerations, engine calls and rebinds

VARIABLES
  node,    \* the backend: profile, the device and its state
  network, \* the host's interface addresses
  link,    \* the link monitor: its baseline, the path it is rebinding to
  bound,   \* the path the device's sockets are on
  picks,   \* each tailnet's best exit node, the policy's allow-list, a trigger unserved
  cell,    \* suggested_exit_node_tx: the last published suggestion
  asks,    \* suggestions being computed: whose device, and the answer
  count    \* how much of each bound is used

vars == <<node, network, link, bound, picks, cell, asks, count>>

Recompute == "recompute"   \* the device's own suggestion task
Askers == Clients \union {Recompute}

ASSUME RolesAssumption == Recompute \notin Clients

(* The tunnel's own address is on the host while the device runs.          *)
Path == snapshot(network \union IF node.state = "Running" THEN {OwnTunnel} ELSE {})

NoMonitor == [task |-> "none", last |-> {}, now |-> {}, seen |-> None]

Init ==
  /\ node \in [profile : Profiles, device : {None}, state : {"Stopped"}]
  /\ network \in Networks
  /\ link = NoMonitor
  /\ bound = {}
  /\ picks \in [best : [Profiles -> Nodes], allowed : {Nodes}, stale : {FALSE}]
  /\ cell = None
  /\ asks = [a \in Askers |-> None]
  /\ count = [changes |-> 0, commands |-> 0, failures |-> 0]

Failing(n) == count.failures + n <= MaxFailures /\ count' = [count EXCEPT !.failures = @ + n]
-----------------------------------------------------------------------------
(* link_monitor_loop: poll, rebind when the path changed.  A failing       *)
(* enumeration reads as no addresses.                                      *)
MonitorStarts ==
  /\ link.task = "starting"
  /\ link' = [link EXCEPT !.task = "poll", !.last = Path, !.seen = network]
  /\ UNCHANGED <<node, network, bound, picks, cell, asks, count>>

MonitorPolls ==
  /\ link.task = "poll"
  /\ \E fails \in BOOLEAN :
       LET now == IF fails THEN {} ELSE Path
       IN  /\ Failing(IF fails THEN 1 ELSE 0)
           /\ link' = [link EXCEPT !.now = IF now # link.last THEN now ELSE @,
                                   !.task = IF now # link.last THEN "rebind" ELSE "poll",
                                   !.seen = IF fails THEN None ELSE network]
  /\ UNCHANGED <<node, network, bound, picks, cell, asks>>

(* A failing rebind is logged; the baseline moves all the same.            *)
ReboundOrGone(failed) == [link EXCEPT !.task = IF failed THEN "gone" ELSE "poll",
                                      !.last = link.now, !.now = {}]
Rebound(failed) == [link EXCEPT !.task = "poll", !.last = link.now, !.now = {}]

RebindEnds ==
  /\ link.task = "rebind"
  /\ \/ bound' = Path /\ link' = Rebound(FALSE) /\ UNCHANGED count
     \/ Failing(1) /\ link' = Rebound(TRUE) /\ UNCHANGED bound
  /\ UNCHANGED <<node, network, picks, cell, asks>>
-----------------------------------------------------------------------------
(* Exit-node suggestions.  Node ids are a tailnet's own; the empty id is   *)
(* None.  An engine error publishes nothing.                               *)
Id(profile, n) == [tailnet |-> profile, node |-> n]
permitted_suggestion(profile, n) ==
  IF n = None \/ n \notin picks.allowed THEN None ELSE Id(profile, n)

Computing(a, dev) == asks' = [asks EXCEPT ![a] = [device |-> dev, step |-> "computing", id |-> None]]

(* The recompute task waits for a netmap or a changed allow-list.          *)
RecomputeStarts ==
  /\ picks.stale /\ node.device # None /\ asks[Recompute] = None
  /\ Computing(Recompute, node.device)
  /\ picks' = [picks EXCEPT !.stale = FALSE]
  /\ UNCHANGED <<node, network, link, bound, cell, count>>

(* suggest_exit_node and the watch front-load, on a clone of the device.   *)
ClientAsks(c) ==
  /\ count.commands < MaxCommands
  /\ node.state = "Running" /\ asks[c] = None
  /\ Computing(c, node.device)
  /\ count' = [count EXCEPT !.commands = @ + 1]
  /\ UNCHANGED <<node, network, link, bound, picks, cell>>

compute_suggestion(a) ==
  /\ asks[a] # None /\ asks[a].step = "computing"
  /\ LET p == asks[a].device.profile
         answered == [asks[a] EXCEPT !.step = "answered",
                                     !.id = permitted_suggestion(p, picks.best[p])]
     IN  \/ asks' = [asks EXCEPT ![a] = answered] /\ UNCHANGED count
         \/ asks' = [asks EXCEPT ![a].step = "failed"] /\ Failing(1)
  /\ UNCHANGED <<node, network, link, bound, picks, cell>>

publish_suggested_exit_node(a) ==
  /\ asks[a] # None /\ asks[a].step # "computing"
  /\ cell' = IF asks[a].step = "failed" THEN cell ELSE asks[a].id
  /\ asks' = [asks EXCEPT ![a] = None]
  /\ UNCHANGED <<node, network, link, bound, picks, count>>
-----------------------------------------------------------------------------
(* The lifecycle the tasks hang from.                                      *)
Command == count.commands < MaxCommands

(* begin_up and the handshake: the engine binds its sockets.               *)
BeginUp ==
  /\ Command /\ node.state = "Stopped"
  /\ node' = [node EXCEPT !.state = "building"]
  /\ bound' = Path
  /\ count' = [count EXCEPT !.commands = @ + 1]
  /\ UNCHANGED <<network, link, picks, cell, asks>>

(* spawn_link_monitor and spawn_suggestion_task, with the netmap already   *)
(* held as the suggestion task's first trigger.                            *)
FinishUp ==
  /\ node.state = "building"
  /\ node' = [node EXCEPT !.state = "Starting", !.device = [profile |-> node.profile]]
  /\ link' = [link EXCEPT !.task = "starting"]
  /\ picks' = [picks EXCEPT !.stale = TRUE]
  /\ UNCHANGED <<network, bound, cell, asks, count>>

(* The netmap is in: the tunnel has its address and suggestions compute.   *)
Converges ==
  /\ node.state = "Starting"
  /\ node' = [node EXCEPT !.state = "Running"]
  /\ UNCHANGED <<network, link, bound, picks, cell, asks, count>>

(* Both tasks are aborted and awaited before the device is shut down.      *)
LeaveSuggestionTask == UNCHANGED asks
AbortSuggestionTask == asks' = [asks EXCEPT ![Recompute] = None]

stop_device ==
  /\ link' = NoMonitor
  /\ bound' = {}
  /\ AbortSuggestionTask

Down ==
  /\ Command /\ node.state # "Stopped"
  /\ stop_device
  /\ node' = [node EXCEPT !.state = "Stopped", !.device = None]
  /\ count' = [count EXCEPT !.commands = @ + 1]
  /\ UNCHANGED <<network, picks, cell>>

(* switch, and logout: forget_suggested_exit_node after stop_device.       *)
ChangeIdentity(p) ==
  /\ Command
  /\ stop_device
  /\ node' = [node EXCEPT !.profile = p, !.state = "Stopped", !.device = None]
  /\ cell' = None
  /\ count' = [count EXCEPT !.commands = @ + 1]
  /\ UNCHANGED <<network, picks>>

(* The world moves: the host's network, a netmap, the policy.              *)
WorldChanges ==
  /\ count.changes < MaxChanges
  /\ count' = [count EXCEPT !.changes = @ + 1]
  /\ \/ network' \in Networks \ {network} /\ UNCHANGED picks
     \/ /\ \E p \in Profiles, n \in Nodes \union {None} :
             picks' = [picks EXCEPT !.best[p] = n,
                                    !.stale = @ \/ (node.device # None /\ node.profile = p)]
        /\ UNCHANGED network
     \/ /\ \E s \in SUBSET Nodes :
             /\ s # picks.allowed
             /\ picks' = [picks EXCEPT !.allowed = s, !.stale = node.device # None]
        /\ UNCHANGED network
  /\ UNCHANGED <<node, link, bound, cell, asks>>

Next ==
  \/ MonitorStarts \/ MonitorPolls \/ RebindEnds
  \/ RecomputeStarts
  \/ \E c \in Clients : ClientAsks(c)
  \/ \E a \in Askers : compute_suggestion(a) \/ publish_suggested_exit_node(a)
  \/ BeginUp \/ FinishUp \/ Converges \/ Down
  \/ \E p \in Profiles : ChangeIdentity(p)
  \/ WorldChanges

Spec == Init /\ [][Next]_vars

(* The monitor's sleep ends and the engine answers a rebind.               *)
FairSpec ==
  /\ Spec
  /\ WF_vars(MonitorStarts) /\ WF_vars(MonitorPolls) /\ WF_vars(RebindEnds)
-----------------------------------------------------------------------------
TypeOK ==
  /\ node \in [profile : Profiles, device : [profile : Profiles] \union {None},
               state : {"Stopped", "building", "Starting", "Running"}]
  /\ link.task \in {"none", "starting", "poll", "rebind"}
  /\ cell \in [tailnet : Profiles, node : Nodes] \union {None}

(* A path the host moved to becomes the monitor's baseline: no failure of  *)
(* a rebind or of an enumeration ends the monitor (link_monitor_loop).     *)
PathIsFollowed ==
  (link.task # "none" /\ link.last # Path) ~> (link.task = "none" \/ link.last = Path)

(* What the device's recompute task publishes is of the profile in force:  *)
(* it cannot publish behind the reset of a switch or a logout              *)
(* (stop_device, forget_suggested_exit_node).                              *)
RecomputeIsOurs ==
  [][publish_suggested_exit_node(Recompute) /\ cell' # cell /\ cell' # None =>
       cell'.tailnet = node.profile]_vars

=============================================================================
