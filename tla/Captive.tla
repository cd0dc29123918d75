------------------------------ MODULE Captive ------------------------------
(***************************************************************************)
(* Captive-portal detection (ipn/captive.rs, captive_portal_loop and its   *)
(* gate in ipn/mod.rs): a loop for the daemon's whole life that probes     *)
(* while a wanted, Running node's connectivity is impaired, with the       *)
(* backend lock released across the probe.                                 *)
(***************************************************************************)
EXTENDS Naturals, FiniteSets, Linkmon

CONSTANTS
  Networks,     \* what the host may be attached to: sets of interface addresses
  SettleTime,   \* for each warnable, how long it is waited out before a probe
  RECHECK_INTERVAL, \* how long until the next probe while it persists
  ProbeSeconds, \* the longest a probe takes
  None,         \* not set, an unreadable signal
  MaxChanges,   \* bound on changes of the host and of the node
  MaxFailures   \* bound on failing reads

Warnables == {"network-status", "no-derp-home", "ip-forwarding-off"}

ASSUME TimesAssumption ==
  /\ SettleTime \in [Warnables -> Nat \ {0}]
  /\ RECHECK_INTERVAL \in Nat
  /\ \A w \in Warnables : SettleTime[w] <= RECHECK_INTERVAL

ASSUME NoneAssumption == None \notin Warnables /\ None \notin BOOLEAN

VARIABLES
  node,    \* the backend: want_running, the device's state
  host,    \* the network, whether a relay answers, whether routes are forwarded
  cap,     \* the loop: where it is, its timer, the probe's verdict, the warning
  count    \* how much of each bound is used

vars == <<node, host, cap, count>>

(* The tunnel's own address is on the host while the device runs.          *)
Addresses == host.network \union IF node.state = "Running" THEN {OwnTunnel} ELSE {}

(* A portal answers a probe in place of the endpoint.                      *)
available_endpoints == {"controlplane", "login"}
response_looks_like_captive(status) == status # 204
detect(status) ==
  /\ detection_interfaces(Addresses) # {}
  /\ \E e \in available_endpoints : status[e] # None /\ response_looks_like_captive(status[e])
-----------------------------------------------------------------------------
(* The gate of the captive-portal loop.  A signal that cannot be read is   *)
(* unknown; only Running is observed.                                      *)
is_steady(w) == w = "ip-forwarding-off"

should_run_captive_portal_detection == node.want_running

Health(unread) ==
  [w \in Warnables |->
     IF w \in unread THEN None
     ELSE CASE w = "network-status"    -> any_interface_up(Addresses)
            [] w = "no-derp-home"      -> host.derp_home
            [] w = "ip-forwarding-off" -> host.ip_forwarding]

(* A transient warnable before a steady one, the soonest visible first.    *)
connectivity_impacted_from(state, health) ==
  LET bad == {w \in Warnables : health[w] = FALSE}
      first(w) == \A v \in bad : \/ ~is_steady(w) /\ is_steady(v)
                                 \/ is_steady(w) = is_steady(v) /\ SettleTime[w] <= SettleTime[v]
  IN  IF state # "Running" \/ bad = {} THEN None ELSE CHOOSE w \in bad : first(w)

Impacted(unread) ==
  IF should_run_captive_portal_detection
  THEN connectivity_impacted_from(node.state, Health(unread)) ELSE None

(* Reads that fail: an interface enumeration, a net report that times out. *)
Unread == {u \in SUBSET {"network-status", "no-derp-home"} :
             count.failures + Cardinality(u) <= MaxFailures}
-----------------------------------------------------------------------------
(* captive::EpisodeTimer, with ages for instants.                          *)
recovered == [waiting |-> None, since |-> 0, last_run |-> None]

Older(age, d) == IF age = None THEN None
                 ELSE IF age + d > RECHECK_INTERVAL THEN RECHECK_INTERVAL ELSE age + d
Elapse(timer, d) == [timer EXCEPT !.since = Older(@, d), !.last_run = Older(@, d)]

Reported(timer, w) ==
  IF timer.waiting = w THEN timer
  ELSE [waiting  |-> w, since |-> 0,
        last_run |-> IF is_steady(w) \/ (timer.waiting # None /\ is_steady(timer.waiting))
                     THEN None ELSE timer.last_run]

probe_due(timer) ==
  IF timer.last_run = None THEN timer.since >= SettleTime[timer.waiting]
  ELSE ~is_steady(timer.waiting) /\ timer.last_run >= RECHECK_INTERVAL

-----------------------------------------------------------------------------
Init ==
  /\ node = [want_running |-> FALSE, state |-> "Stopped"]
  /\ host \in [network : Networks, derp_home : {TRUE}, ip_forwarding : BOOLEAN]
  /\ cap = [pc |-> "sleep", timer |-> recovered, found |-> FALSE, detected |-> FALSE]
  /\ count = [changes |-> 0, failures |-> 0]

Failing(n) == count.failures + n <= MaxFailures /\ count' = [count EXCEPT !.failures = @ + n]
-----------------------------------------------------------------------------
(* captive_portal_loop.  One pass sleeps a second and reads the gate; a    *)
(* probe runs off-lock; its verdict is recorded after the gate is re-read. *)
HealthyUncleared == [cap EXCEPT !.timer = recovered]
Healthy == [cap EXCEPT !.timer = recovered, !.detected = FALSE]

CaptivePolls ==
  /\ cap.pc = "sleep"
  /\ \E unread \in Unread :
       LET w == Impacted(unread)
           aged == Elapse(cap.timer, 1)
           timer == Reported(aged, w)
       IN  /\ Failing(Cardinality(unread))
           /\ \/ /\ w = None
                 /\ cap' = Healthy
              \/ /\ w # None /\ probe_due(timer)
                 /\ cap' = [cap EXCEPT !.timer = [timer EXCEPT !.last_run = 0], !.pc = "probe"]
              \/ /\ w # None /\ ~probe_due(timer)
                 /\ cap' = [cap EXCEPT !.timer = timer]
  /\ UNCHANGED <<node, host>>

(* An endpoint answers 204, a portal answers for it, or nothing does.      *)
Answers == [available_endpoints -> {204, 302, None}]

ProbeAnswered ==
  /\ cap.pc = "probe"
  /\ \E status \in Answers : cap' = [cap EXCEPT !.pc = "record", !.found = detect(status)]
  /\ UNCHANGED <<node, host, count>>

StillImpactedUnchecked(unread) == TRUE
StillImpacted(unread) == Impacted(unread) # None

CaptiveRecords ==
  /\ cap.pc = "record"
  /\ \E unread \in Unread, d \in 0 .. ProbeSeconds :
       /\ Failing(Cardinality(unread))
       /\ cap' = [cap EXCEPT !.pc = "sleep", !.found = FALSE, !.timer = Elapse(@, d),
                             !.detected = StillImpacted(unread) /\ cap.found]
  /\ UNCHANGED <<node, host>>
-----------------------------------------------------------------------------
(* What moves under the loop: the host, and the node's own lifecycle.      *)
HostChanges ==
  /\ count.changes < MaxChanges
  /\ count' = [count EXCEPT !.changes = @ + 1]
  /\ \E h \in [network : Networks, derp_home : BOOLEAN, ip_forwarding : BOOLEAN] :
       /\ host' = h
       /\ Cardinality({f \in DOMAIN h : h[f] # host[f]}) = 1
  /\ UNCHANGED <<node, cap>>

NodeChanges ==
  /\ count.changes < MaxChanges
  /\ count' = [count EXCEPT !.changes = @ + 1]
  /\ \E want \in BOOLEAN, state \in {"Stopped", "Starting", "Running"} :
       /\ want <=> state # "Stopped"
       /\ state # node.state
       /\ node' = [want_running |-> want, state |-> state]
  /\ UNCHANGED <<host, cap>>

Next == CaptivePolls \/ ProbeAnswered \/ CaptiveRecords \/ HostChanges \/ NodeChanges

Spec == Init /\ [][Next]_vars

(* The sleep ends, the probe is bounded by its timeout, the lock is fair.  *)
FairSpec ==
  /\ Spec
  /\ WF_vars(CaptivePolls) /\ WF_vars(ProbeAnswered) /\ WF_vars(CaptiveRecords)
-----------------------------------------------------------------------------
TypeOK ==
  /\ node \in [want_running : BOOLEAN, state : {"Stopped", "Starting", "Running"}]
  /\ host \in [network : Networks, derp_home : BOOLEAN, ip_forwarding : BOOLEAN]
  /\ cap \in [pc : {"sleep", "probe", "record"}, found : BOOLEAN, detected : BOOLEAN,
              timer : [waiting : Warnables \union {None}, since : 0 .. RECHECK_INTERVAL,
                       last_run : 0 .. RECHECK_INTERVAL \union {None}]]

(* A warning is raised only on a node that is wanted up, Running and       *)
(* impaired when it is raised, however long ago the probe's answer came    *)
(* (captive_portal_loop re-reads its gate before it records a verdict).    *)
WarningIsCurrent ==
  [][~cap.detected /\ cap'.detected =>
       node.want_running /\ node.state = "Running" /\ Impacted({}) # None]_vars

(* Once connectivity stays unimpaired, or the node stays down, the warning *)
(* clears for good, a probe in flight included.                            *)
WarningClears == <>[](Impacted({}) = None) => <>[]~cap.detected
=============================================================================
