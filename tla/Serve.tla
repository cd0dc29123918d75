-------------------------------- MODULE Serve --------------------------------
(***************************************************************************)
(* Serve and funnel (ipn/serve.rs, the serve lanes of ipn/mod.rs and the   *)
(* serve commands of bin/tnet.rs): clients that read the stored config,    *)
(* edit it and write it back whole, a daemon that checks, stores and       *)
(* re-arms it, and the supervisor task that arms it on the device.         *)
(***************************************************************************)
EXTENDS Naturals, Sequences, FiniteSetsExt, Functions

CONSTANTS
  Clients,       \* invocations of tnet serve and tnet funnel
  Profiles,      \* login profiles
  Hosts,         \* names the node may have, as numbers: the order of the map's keys
  Ports,         \* tailnet ports
  Edits,         \* what the clients are asked to do
  StoredAtBoot,  \* configs the state directory may already hold
  MaxEdits,      \* bound on the commands run
  MaxRenames,    \* bound on the changes of the node's name
  MaxStops       \* bound on stops, switches and restarts of the daemon

None == 0

ASSUME ServeAssumption == Hosts \subseteq Nat \ {None} /\ Hosts # {} /\ Profiles # {}

(* Stored configs have their three maps, and AllowFunnel keys are a name   *)
(* and a port; a command is one of the six, and only the two that publish  *)
(* something can stay in the foreground.                                   *)
ASSUME EditsAssumption ==
  /\ \A cfg \in StoredAtBoot :
       DOMAIN cfg = {"tcp", "web", "funnel"} /\ cfg.funnel \subseteq Hosts \X Ports
  /\ \A op \in Edits :
       /\ op.verb \in {"serve", "funnel", "funnel on", "funnel off", "serve off", "reset"}
       /\ op.verb = "serve" => op.type \in {"https", "http", "tcp", "tls"}
       /\ op.verb \in {"funnel", "funnel on"} => op.port \in Ports
       /\ op.foreground => op.verb \in {"serve", "funnel"}

VARIABLES
  store,    \* each profile's serve-config.json
  daemon,   \* profile, shields_up of each, device, netmap_name
  node,     \* the name the control plane gives this node
  engine,   \* the web ports the daemon's device serves, and the name and profile they
            \* were armed under
  sup,      \* the supervisor task, its own and the funnel's accept loops, and whether
            \* it warned that stale web ports could not be cleared
  client,   \* the commands being run
  count     \* how much of each bound is used

vars == <<store, daemon, node, engine, sup, client, count>>
-----------------------------------------------------------------------------
(* ServeConfig.  tcp holds a port's serve type and forward target, web the *)
(* handlers of a host and port by mount, funnel the AllowFunnel keys.      *)
(* A handler is what it leads to: a backend, a text or a redirect.         *)
NoTarget == ""
Texts == {"text"}
Redirects == {"redirect"}
Empty == [tcp |-> <<>>, web |-> <<>>, funnel |-> {}]

Put(f, k, v) == [x \in DOMAIN f \union {k} |-> IF x = k THEN v ELSE f[x]]
Without(f, S) == Restrict(f, DOMAIN f \ S)
AtPort(p) == Hosts \X {p}

serve_type(handler) == handler.type
is_plain_tcp_forward(handler) == handler.type = "tcp" /\ handler.to # NoTarget
is_web_serve(handler) == handler.type \in {"https", "http"} /\ handler.to # NoTarget

(* A body from before the Web map lived on the port's own entry.           *)
legacy_web_handlers(handler) ==
  IF is_web_serve(handler) THEN Put(<<>>, "/", handler.to) ELSE <<>>

Handlers(cfg, host, p) ==
  IF <<host, p>> \in DOMAIN cfg.web THEN cfg.web[<<host, p>>]
  ELSE legacy_web_handlers(cfg.tcp[p])

(* Why the engine will not serve a port, if so.                            *)
engine_port(cfg, host, p) ==
  LET handlers == Handlers(cfg, host, p)
      texts == {m \in DOMAIN handlers : handlers[m] \in Texts}
      paths == {m \in DOMAIN handlers \ {"/"} : handlers[m] \notin Redirects}
  IN
  CASE cfg.tcp[p].type = "tls" -> "terminate TLS"
    [] cfg.tcp[p].type = "http" -> "plain HTTP"
    [] cfg.tcp[p].type = "https" /\ DOMAIN handlers = {} -> "no Web config"
    [] cfg.tcp[p].type = "https" /\ texts # {} -> "text"
    [] cfg.tcp[p].type = "https" /\ texts = {} /\ paths # {} -> "proxy at a path"
    [] OTHER -> "serves"

EnginePorts(cfg) == {p \in DOMAIN cfg.tcp : ~is_plain_tcp_forward(cfg.tcp[p])}

build_web_serve_state(cfg, host) ==
  [p \in {q \in EnginePorts(cfg) : engine_port(cfg, host, q) = "serves"} |-> Handlers(cfg, host, p)]

Refused(cfg, host) ==
  {<<p, engine_port(cfg, host, p)>> : p \in EnginePorts(cfg)} \ (Ports \X {"serves"})

validate_serve_config_update(existing, incoming) ==
  \A p \in DOMAIN incoming.tcp \intersect DOMAIN existing.tcp :
    serve_type(incoming.tcp[p]) = serve_type(existing.tcp[p])

funnel_ports(cfg) == {key[2] : key \in cfg.funnel}

(* The one backend a funnel of the port leads to: the port's own, or that  *)
(* of the first host that has the port.                                    *)
web_proxy_backend(cfg, p) ==
  IF p \in DOMAIN cfg.tcp /\ is_web_serve(cfg.tcp[p]) THEN cfg.tcp[p].to
  ELSE LET keys == {key \in DOMAIN cfg.web : key[2] = p}
           first == CHOOSE key \in keys : \A other \in keys : key[1] <= other[1]
       IN IF keys = {} \/ "/" \notin DOMAIN cfg.web[first]
             \/ cfg.web[first]["/"] \in Texts \union Redirects
            THEN NoTarget ELSE cfg.web[first]["/"]
-----------------------------------------------------------------------------
(* The clients' edits.                                                     *)
existing_web_handlers(cfg, host, p) ==
  IF <<host, p>> \in DOMAIN cfg.web \/ p \in DOMAIN cfg.tcp THEN Handlers(cfg, host, p) ELSE <<>>

build_web_serve(cfg, host, op) ==
  [cfg EXCEPT
     !.tcp = Put(@, op.port, [type |-> op.type, to |-> NoTarget]),
     !.web = Put(@, <<host, op.port>>, Put(existing_web_handlers(cfg, host, op.port), op.mount, op.to))]

set_tcp_forward(cfg, op) ==
  [cfg EXCEPT !.tcp = Put(@, op.port, [type |-> op.type, to |-> op.to]),
              !.web = Without(@, AtPort(op.port))]

(* Mutant of set_funnel: off removes the key of today's name only.         *)
set_funnel_here(cfg, host, p, on) ==
  [cfg EXCEPT !.funnel = IF on THEN @ \union {<<host, p>>} ELSE @ \ {<<host, p>>}]

set_funnel(cfg, host, p, on) ==
  [cfg EXCEPT !.funnel = IF on THEN @ \union {<<host, p>>} ELSE @ \ AtPort(p)]

remove_serve_port(cfg, p) ==
  [tcp |-> Without(cfg.tcp, {p}), web |-> Without(cfg.web, AtPort(p)), funnel |-> cfg.funnel \ AtPort(p)]

(* run_serve, run_serve_v2, run_funnel_toggle.                             *)
Edited(cfg, host, op) ==
  CASE op.verb = "serve" /\ op.type \in {"https", "http"} -> build_web_serve(cfg, host, op)
    [] op.verb = "serve" /\ op.type \in {"tcp", "tls"} -> set_tcp_forward(cfg, op)
    [] op.verb = "funnel" -> set_funnel(build_web_serve(cfg, host, op), host, op.port, TRUE)
    [] op.verb = "funnel on" -> set_funnel(cfg, host, op.port, TRUE)
    [] op.verb = "funnel off" -> set_funnel(cfg, host, op.port, FALSE)
    [] op.verb = "serve off" -> remove_serve_port(cfg, op.port)
    [] op.verb = "reset" -> Empty

(* What a command reads before it writes, in its order.                    *)
Reads(op) ==
  CASE op.verb = "reset" -> <<>>
    [] op.verb = "funnel off" -> <<"config", "host">>
    [] op.verb = "serve off" \/ (op.verb = "serve" /\ op.type = "tcp") -> <<"config">>
    [] OTHER -> <<"host", "config">>
-----------------------------------------------------------------------------
NoTask == [pc |-> "none", cfg |-> Empty, tcp |-> <<>>, funnel |-> <<>>, warned |-> FALSE]
Spawned == [NoTask EXCEPT !.pc = "load"]
NoEngine == [web |-> <<>>, host |-> None, profile |-> None]
Idle == [pc |-> "idle"]

Init ==
  /\ store \in [Profiles -> StoredAtBoot]
  /\ \E p \in Profiles :
       daemon = [profile |-> p, shields_up |-> [q \in Profiles |-> FALSE],
                 device |-> FALSE, name |-> None]
  /\ node = Min(Hosts)
  /\ engine = NoEngine
  /\ sup = NoTask
  /\ client = [c \in Clients |-> Idle]
  /\ count = [edits |-> 0, renames |-> 0, stops |-> 0]

Stored == store[daemon.profile]

(* current_netmap_name: a device that answers refreshes the kept name.     *)
current_netmap_name == IF daemon.device THEN {node, daemon.name} ELSE {daemon.name}

(* finish_up: the device is new, and so is its supervisor.                 *)
finish_up ==
  /\ ~daemon.device
  /\ daemon' = [daemon EXCEPT !.device = TRUE]
  /\ sup' = Spawned
  /\ UNCHANGED <<store, node, engine, client, count>>

Stops == count.stops < MaxStops /\ count' = [count EXCEPT !.stops = @ + 1]

(* stop_device, by down and by the rebuild that a change of shields_up     *)
(* needs: the name is kept.                                                *)
stop_device ==
  /\ Stops
  /\ \E name \in current_netmap_name, shields \in BOOLEAN :
       daemon' = [daemon EXCEPT !.device = FALSE, !.name = name,
                                !.shields_up[daemon.profile] = shields]
  /\ engine' = NoEngine
  /\ sup' = NoTask
  /\ UNCHANGED <<store, node, client>>

(* A logout, a switch of profile and a restart of the daemon drop it.      *)
activate_profile ==
  /\ Stops
  /\ \E p \in Profiles : daemon' = [daemon EXCEPT !.profile = p, !.device = FALSE, !.name = None]
  /\ engine' = NoEngine
  /\ sup' = NoTask
  /\ UNCHANGED <<store, node, client>>

(* The node is renamed on the control plane.                               *)
Rename ==
  /\ count.renames < MaxRenames
  /\ count' = [count EXCEPT !.renames = @ + 1]
  /\ node' \in Hosts \ {node}
  /\ UNCHANGED <<store, daemon, engine, sup, client>>
-----------------------------------------------------------------------------
(* spawn_serve: the supervisor reads the config and starts its own loops.  *)
SupervisorLoads ==
  /\ sup.pc = "load"
  /\ LET plain == {p \in DOMAIN Stored.tcp : is_plain_tcp_forward(Stored.tcp[p])}
     IN sup' = [pc |-> "arm", cfg |-> Stored, tcp |-> [p \in plain |-> Stored.tcp[p].to],
                funnel |-> <<>>, warned |-> FALSE]
  /\ UNCHANGED <<store, daemon, node, engine, client, count>>

(* The web lane: the whole config or nothing, when the device names itself *)
(* and takes it.  A failure leaves what was armed before.                  *)
SupervisorArms ==
  /\ sup.pc = "arm"
  /\ \/ /\ DOMAIN build_web_serve_state(sup.cfg, node) # {}
        /\ engine' = [web |-> build_web_serve_state(sup.cfg, node), host |-> node,
                      profile |-> daemon.profile]
        /\ sup' = [sup EXCEPT !.pc = "funnel"]
     \/ /\ sup' = [sup EXCEPT !.pc = "clear"]
        /\ UNCHANGED engine
  /\ UNCHANGED <<store, daemon, node, client, count>>

(* Mutant of SupervisorClears: what could not be armed is left alone.      *)
SupervisorLeaves ==
  /\ sup.pc = "clear"
  /\ sup' = [sup EXCEPT !.pc = "funnel"]
  /\ UNCHANGED <<store, daemon, node, engine, client, count>>

(* What this round did not arm is cleared, if the device still serves      *)
(* something and takes the empty config.  A failure is only warned about.  *)
SupervisorClears ==
  /\ sup.pc = "clear"
  /\ \/ /\ sup' = [sup EXCEPT !.pc = "funnel"]
        /\ engine' = NoEngine
     \/ /\ DOMAIN engine.web # {}
        /\ sup' = [sup EXCEPT !.pc = "funnel", !.warned = TRUE]
        /\ UNCHANGED engine
  /\ UNCHANGED <<store, daemon, node, client, count>>

(* arm_funnel_lane: the ports with a backend, those the engine grants.     *)
arm_funnel_lane ==
  /\ sup.pc = "funnel"
  /\ LET backed == {p \in funnel_ports(sup.cfg) : web_proxy_backend(sup.cfg, p) # NoTarget}
     IN \E granted \in SUBSET backed :
          sup' = [sup EXCEPT !.pc = "settled",
                    !.funnel = [p \in granted |-> web_proxy_backend(sup.cfg, p)]]
  /\ UNCHANGED <<store, daemon, node, engine, client, count>>

(* serve_accept_loop, funnel_accept_loop: a loop without an address or a   *)
(* listener, or whose listener errs, ends, and nobody starts it again.     *)
LoopEnds ==
  /\ \/ \E p \in DOMAIN sup.tcp : sup' = [sup EXCEPT !.tcp = Without(@, {p})]
     \/ \E p \in DOMAIN sup.funnel : sup' = [sup EXCEPT !.funnel = Without(@, {p})]
  /\ UNCHANGED <<store, daemon, node, engine, client, count>>
-----------------------------------------------------------------------------
(* Mutant of NewRefusals: what the stored config carries already counts.   *)
AllRefusals(cfg, name) == Refused(cfg, name)

(* Only a refusal that this write introduces is refused.                   *)
NewRefusals(cfg, name) == Refused(cfg, name) \ Refused(Stored, name)

Accepted(cfg, name) ==
  /\ ~(funnel_ports(cfg) # {} /\ daemon.shields_up[daemon.profile])
  /\ name # None
  /\ validate_serve_config_update(Stored, cfg)
  /\ NewRefusals(cfg, name) = {}

(* set_serve_config: checked, stored, and re-armed if the node is up.      *)
set_serve_config(cfg, name) ==
  /\ daemon' = [daemon EXCEPT !.name = name]
  /\ IF Accepted(cfg, name)
       THEN /\ store' = [store EXCEPT ![daemon.profile] = cfg]
            /\ sup' = IF daemon.device THEN Spawned ELSE sup
       ELSE UNCHANGED <<store, sup>>
  /\ UNCHANGED <<node, engine, count>>

Runs(c, op) ==
  /\ client[c].pc \notin {"read", "held"}
  /\ count.edits < MaxEdits
  /\ count' = [count EXCEPT !.edits = @ + 1]
  /\ client' = [client EXCEPT ![c] = [pc |-> "read", op |-> op, todo |-> Reads(op),
                                      host |-> None, cfg |-> Empty]]
  /\ UNCHANGED <<store, daemon, node, engine, sup>>

Turn(c, what) == client[c].pc = "read" /\ client[c].todo # <<>> /\ Head(client[c].todo) = what
Ends(c, how) == client' = [client EXCEPT ![c] = [pc |-> how]]

(* serve_host: the name the daemon's status gives, while it has one.       *)
serve_host(c) ==
  /\ Turn(c, "host")
  /\ \/ /\ daemon.device
        /\ client' = [client EXCEPT ![c].host = node, ![c].todo = Tail(@)]
     \/ Ends(c, "failed")
  /\ UNCHANGED <<store, daemon, node, engine, sup, count>>

get_serve_config(c) ==
  /\ Turn(c, "config")
  /\ client' = [client EXCEPT ![c].cfg = Stored, ![c].todo = Tail(@)]
  /\ UNCHANGED <<store, daemon, node, engine, sup, count>>

(* serve off of a port that is not served has nothing to write.            *)
NothingToRemove(c) ==
  /\ client[c].op.verb = "serve off"
  /\ remove_serve_port(client[c].cfg, client[c].op.port) = client[c].cfg

(* The edited config is written back whole.  A serve in the foreground     *)
(* keeps the one it read, to put it back.  What it wrote, and whether that *)
(* was over another's write, is kept for the properties alone.             *)
Writes(c) ==
  /\ client[c].pc = "read"
  /\ client[c].todo = <<>>
  /\ LET op == client[c].op
         cfg == Edited(client[c].cfg, client[c].host, op)
     IN IF NothingToRemove(c)
          THEN Ends(c, "done") /\ UNCHANGED <<store, daemon, node, engine, sup, count>>
          ELSE \E name \in current_netmap_name :
                 /\ set_serve_config(cfg, name)
                 /\ IF ~Accepted(cfg, name) THEN Ends(c, "failed")
                    ELSE IF ~op.foreground THEN Ends(c, "done")
                    ELSE client' = [client EXCEPT ![c] =
                           [pc |-> "held", op |-> op, previous |-> client[c].cfg, wrote |-> cfg,
                            stale |-> Stored # client[c].cfg]]

(* hold_foreground_serve: an interrupt puts the previous config back.      *)
Interrupted(c) ==
  /\ client[c].pc = "held"
  /\ \E name \in current_netmap_name :
       /\ set_serve_config(client[c].previous, name)
       /\ Ends(c, IF Accepted(client[c].previous, name) THEN "restored" ELSE "not restored")

(* A client that is killed puts nothing back.                              *)
Killed(c) ==
  /\ client[c].pc \in {"read", "held"}
  /\ Ends(c, "killed")
  /\ UNCHANGED <<store, daemon, node, engine, sup, count>>

Next ==
  \/ finish_up \/ stop_device \/ activate_profile \/ Rename
  \/ SupervisorLoads \/ SupervisorArms \/ SupervisorClears \/ arm_funnel_lane \/ LoopEnds
  \/ \E c \in Clients :
       \/ \E op \in Edits : Runs(c, op)
       \/ serve_host(c) \/ get_serve_config(c) \/ Writes(c)
       \/ Interrupted(c) \/ Killed(c)

Spec == Init /\ [][Next]_vars
-----------------------------------------------------------------------------
(* What runs is what is stored: however writes, stops and switches of      *)
(* profile fall between the supervisor's steps, every accept loop that     *)
(* runs is one that the stored config of the current profile asks for, no  *)
(* funnel is open that it does not list, and once the web lane is through  *)
(* the device serves nothing on the web but that config, unless the        *)
(* supervisor warned that it could not clear what was there.  Even then it *)
(* is nothing that another profile stored, and nothing outlives the device *)
(* (mod.rs set_serve_config, spawn_serve "Fail-closed reconcile",          *)
(* stop_device).                                                           *)
ServesWhatIsStored ==
  /\ sup.pc \notin {"none", "load"} =>
       /\ \A p \in DOMAIN sup.tcp :
            /\ p \in DOMAIN Stored.tcp \ EnginePorts(Stored)
            /\ sup.tcp[p] = Stored.tcp[p].to
       /\ DOMAIN sup.funnel \subseteq funnel_ports(Stored)
  /\ sup.pc \in {"funnel", "settled"} =>
       sup.warned \/ engine.web \in {<<>>, build_web_serve_state(Stored, engine.host)}
  /\ DOMAIN engine.web # {} => daemon.device /\ engine.profile = daemon.profile
  /\ ~daemon.device => sup = NoTask

(* Off is off: when serve off or funnel off succeeds the port is neither   *)
(* stored nor open, even when the node was renamed since it was turned on  *)
(* or another client turned it on meanwhile (serve.rs set_funnel, tnet.rs  *)
(* remove_serve_port).                                                     *)
OffIsOff ==
  [][\A c \in Clients :
       (client[c].pc = "read" /\ client'[c].pc = "done") =>
         LET op == client[c].op IN
         /\ op.verb = "funnel off" => op.port \notin funnel_ports(Stored') \union DOMAIN sup'.funnel
         /\ (op.verb = "serve off" /\ ~NothingToRemove(c)) =>
              op.port \notin funnel_ports(Stored') \union DOMAIN Stored'.tcp \union DOMAIN sup'.tcp]_vars

(* A foreground serve that is interrupted can put the previous config      *)
(* back: only another writer, shields-up over a funnel, or a daemon that   *)
(* lost its netmap refuses it, never a port that the engine already        *)
(* refused before (mod.rs set_serve_config, the refusals it carries),      *)
(* unless it is the port the foreground serve was on: what it wrote there  *)
(* no longer carries that refusal.                                         *)
RestoreIsTaken ==
  [][\A c \in Clients :
       (client[c].pc = "held" /\ client'[c].pc = "not restored") =>
         \/ client[c].stale \/ Stored # client[c].wrote
         \/ daemon'.name = None
         \/ daemon.shields_up[daemon.profile] /\ funnel_ports(client[c].previous) # {}
         \/ \E r \in Refused(client[c].previous, daemon'.name) : r[1] = client[c].op.port]_vars

=============================================================================
