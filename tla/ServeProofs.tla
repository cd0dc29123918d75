---------------------------- MODULE ServeProofs ----------------------------
(***************************************************************************)
(* Proofs about Serve for every set of clients, profiles, names, ports and *)
(* commands and every bound: what runs is what is stored, off is off, and  *)
(* what can keep a foreground serve from putting the old config back.      *)
(***************************************************************************)
EXTENDS Serve, WellFoundedInduction, TLAPS

(* A config with its three maps, whose AllowFunnel keys carry a name the   *)
(* node has or had.                                                        *)
IsConfig(cfg) ==
  DOMAIN cfg = {"tcp", "web", "funnel"} /\ cfg.funnel \subseteq Hosts \X Ports

(* The daemon's records keep their fields, and its files their configs.    *)
Shape ==
  /\ DOMAIN sup = {"pc", "cfg", "tcp", "funnel", "warned"}
  /\ DOMAIN daemon = {"profile", "shields_up", "device", "name"}
  /\ daemon.profile \in Profiles /\ daemon.device \in BOOLEAN
  /\ DOMAIN store = Profiles
  /\ \A p \in Profiles : IsConfig(store[p])
  /\ node \in Hosts

(* A supervisor past its load works from what is stored now.               *)
Supervised ==
  sup.pc \notin {"none", "load"} => sup.cfg = Stored

(* A command that turns a funnel on has the node's name before it writes.  *)
Reading(r) ==
  /\ DOMAIN r = {"pc", "op", "todo", "host", "cfg"}
  /\ r.op \in Edits
  /\ IsConfig(r.cfg)
  /\ r.op.verb \in {"funnel", "funnel on"} =>
       /\ r.todo \in {<<"host", "config">>, <<"config">>, <<>>}
       /\ r.todo # <<"host", "config">> => r.host \in Hosts

(* A foreground serve published an edit of the config it puts back; if it  *)
(* was not over another's write, no port changed its serve type.           *)
Holds(r) ==
  /\ IsConfig(r.previous)
  /\ r.op.verb \in {"serve", "funnel"}
  /\ r.op.verb = "serve" => r.op.type \in {"https", "http", "tcp", "tls"}
  /\ \E host : r.wrote = Edited(r.previous, host, r.op)
  /\ ~r.stale => validate_serve_config_update(r.previous, r.wrote)

Running ==
  /\ DOMAIN client = Clients
  /\ \A c \in Clients :
       /\ client[c].pc = "read" => Reading(client[c])
       /\ client[c].pc = "held" => Holds(client[c])

ServeInv == Shape /\ Supervised /\ ServesWhatIsStored /\ Running

----------------------------------------------------------------------------
(* The edits.                                                              *)

LEMMA FirstHost == Min(Hosts) \in Hosts
<1>1. Hosts \subseteq Nat /\ Hosts # {}
  BY ServeAssumption
<1>2. PICK n \in Hosts : \A m \in Hosts : <<m, n>> \notin OpToRel(<, Nat)
  BY <1>1, WFMin, NatLessThanWellFounded
<1>3. \A m \in Hosts : ~(m < n)
  BY <1>1, <1>2 DEF OpToRel
<1>4. \A m \in Hosts : n =< m
  BY <1>1, <1>3
<1> QED
  BY <1>4 DEF Min

LEMMA EmptyIsConfig == IsConfig(Empty) /\ DOMAIN Empty.tcp = {}
  BY DEF IsConfig, Empty

(* Every command writes back a config whose funnel keys carry a name.      *)
LEMMA EditedIsConfig ==
  ASSUME NEW cfg, IsConfig(cfg), NEW op \in Edits, NEW host,
         op.verb \in {"funnel", "funnel on"} => host \in Hosts
  PROVE  IsConfig(Edited(cfg, host, op))
<1>1. /\ op.verb \in {"serve", "funnel", "funnel on", "funnel off", "serve off", "reset"}
      /\ op.verb = "serve" => op.type \in {"https", "http", "tcp", "tls"}
      /\ op.verb \in {"funnel", "funnel on"} => op.port \in Ports
  BY EditsAssumption
<1>2. IsConfig(build_web_serve(cfg, host, op))
  BY DEF IsConfig, build_web_serve
<1>3. IsConfig(set_tcp_forward(cfg, op))
  BY DEF IsConfig, set_tcp_forward
<1>4. ASSUME NEW c, IsConfig(c), host \in Hosts, op.port \in Ports
      PROVE  IsConfig(set_funnel(c, host, op.port, TRUE))
  <2>1. set_funnel(c, host, op.port, TRUE).funnel = c.funnel \union {<<host, op.port>>}
    BY <1>4 DEF IsConfig, set_funnel
  <2>2. DOMAIN set_funnel(c, host, op.port, TRUE) = {"tcp", "web", "funnel"}
    BY <1>4 DEF IsConfig, set_funnel
  <2>3. c.funnel \subseteq Hosts \X Ports
    BY <1>4 DEF IsConfig
  <2>4. <<host, op.port>> \in Hosts \X Ports
    BY <1>4
  <2>5. set_funnel(c, host, op.port, TRUE).funnel \subseteq Hosts \X Ports
    BY <2>1, <2>3, <2>4
  <2> QED
    BY <2>2, <2>5 DEF IsConfig
<1>5. IsConfig(set_funnel(cfg, host, op.port, FALSE))
  BY DEF IsConfig, set_funnel
<1>6. IsConfig(remove_serve_port(cfg, op.port))
  BY DEF IsConfig, remove_serve_port
<1> HIDE DEF IsConfig
<1>7. CASE op.verb = "serve"
  <2>1. CASE op.type \in {"https", "http"}
    BY <1>2, <1>7, <2>1 DEF Edited
  <2>2. CASE op.type \in {"tcp", "tls"}
    BY <1>3, <1>7, <2>2 DEF Edited
  <2> QED
    BY <1>1, <1>7, <2>1, <2>2
<1>8. CASE op.verb = "funnel"
  BY <1>1, <1>2, <1>4, <1>8 DEF Edited
<1>9. CASE op.verb = "funnel on"
  BY <1>1, <1>4, <1>9 DEF Edited
<1>10. CASE op.verb = "funnel off"
  BY <1>5, <1>10 DEF Edited
<1>11. CASE op.verb = "serve off"
  BY <1>6, <1>11 DEF Edited
<1>12. CASE op.verb = "reset"
  BY <1>12, EmptyIsConfig DEF Edited
<1> QED
  BY <1>1, <1>7, <1>8, <1>9, <1>10, <1>11, <1>12

(* Turning a funnel off leaves no key of the port under any name.          *)
LEMMA FunnelOff ==
  ASSUME NEW cfg, IsConfig(cfg), NEW host, NEW op, op.verb = "funnel off"
  PROVE  op.port \notin funnel_ports(Edited(cfg, host, op))
<1>1. Edited(cfg, host, op) = set_funnel(cfg, host, op.port, FALSE)
  BY DEF Edited
<1>2. set_funnel(cfg, host, op.port, FALSE).funnel = cfg.funnel \ AtPort(op.port)
  BY DEF set_funnel, IsConfig
<1>3. \A key \in cfg.funnel \ AtPort(op.port) : key[2] # op.port
  BY DEF IsConfig, AtPort
<1> QED
  BY <1>1, <1>2, <1>3 DEF funnel_ports

LEMMA ServeOff ==
  ASSUME NEW cfg, IsConfig(cfg), NEW host, NEW op, op.verb = "serve off"
  PROVE  LET e == Edited(cfg, host, op)
         IN  op.port \notin funnel_ports(e) /\ op.port \notin DOMAIN e.tcp
<1>1. Edited(cfg, host, op) = remove_serve_port(cfg, op.port)
  BY DEF Edited
<1>2. \A key \in cfg.funnel \ AtPort(op.port) : key[2] # op.port
  BY DEF IsConfig, AtPort
<1>3. /\ remove_serve_port(cfg, op.port).funnel = cfg.funnel \ AtPort(op.port)
      /\ remove_serve_port(cfg, op.port).tcp = Without(cfg.tcp, {op.port})
  BY DEF remove_serve_port
<1>4. op.port \notin DOMAIN Without(cfg.tcp, {op.port})
  BY DEF Without, Restrict
<1> QED
  BY <1>1, <1>2, <1>3, <1>4 DEF funnel_ports

(* What a serve publishes leaves every other port as it was.               *)
Same(a, b, p) ==
  /\ p \in DOMAIN a.tcp => p \in DOMAIN b.tcp /\ b.tcp[p] = a.tcp[p]
  /\ \A h : <<h, p>> \in DOMAIN a.web <=> <<h, p>> \in DOMAIN b.web
  /\ \A h : <<h, p>> \in DOMAIN a.web => b.web[<<h, p>>] = a.web[<<h, p>>]

LEMMA Elsewhere ==
  ASSUME NEW cfg, IsConfig(cfg), NEW host, NEW op, op.verb \in {"serve", "funnel"},
         op.verb = "serve" => op.type \in {"https", "http", "tcp", "tls"},
         NEW p, p # op.port
  PROVE  Same(cfg, Edited(cfg, host, op), p)
<1>1. Same(cfg, build_web_serve(cfg, host, op), p)
  <2> DEFINE e == build_web_serve(cfg, host, op)
             tcp == Put(cfg.tcp, op.port, [type |-> op.type, to |-> NoTarget])
             handlers == Put(existing_web_handlers(cfg, host, op.port), op.mount, op.to)
             web == Put(cfg.web, <<host, op.port>>, handlers)
  <2>1. e.tcp = tcp /\ e.web = web
    BY DEF build_web_serve, IsConfig
  <2>2. p \in DOMAIN cfg.tcp => p \in DOMAIN tcp /\ tcp[p] = cfg.tcp[p]
    BY DEF Put
  <2> HIDE DEF handlers
  <2>3. \A h : <<h, p>> # <<host, op.port>>
    OBVIOUS
  <2>4. \A h : /\ <<h, p>> \in DOMAIN cfg.web <=> <<h, p>> \in DOMAIN web
               /\ <<h, p>> \in DOMAIN cfg.web => web[<<h, p>>] = cfg.web[<<h, p>>]
    BY <2>3 DEF Put
  <2> HIDE DEF e, tcp, web
  <2> QED
    BY <2>1, <2>2, <2>4 DEF Same, e
<1>2. Same(cfg, set_tcp_forward(cfg, op), p)
  <2> DEFINE e == set_tcp_forward(cfg, op)
             tcp == Put(cfg.tcp, op.port, [type |-> op.type, to |-> op.to])
             web == Without(cfg.web, AtPort(op.port))
  <2>1. e.tcp = tcp /\ e.web = web
    BY DEF set_tcp_forward, IsConfig
  <2>2. p \in DOMAIN cfg.tcp => p \in DOMAIN tcp /\ tcp[p] = cfg.tcp[p]
    BY DEF Put
  <2>3. \A h : <<h, p>> \notin AtPort(op.port)
    BY DEF AtPort
  <2>4. \A h : /\ <<h, p>> \in DOMAIN cfg.web <=> <<h, p>> \in DOMAIN web
               /\ <<h, p>> \in DOMAIN cfg.web => web[<<h, p>>] = cfg.web[<<h, p>>]
    BY <2>3 DEF Without, Restrict
  <2> HIDE DEF e, tcp, web
  <2> QED
    BY <2>1, <2>2, <2>4 DEF Same, e
<1>3. ASSUME NEW c, DOMAIN c = {"tcp", "web", "funnel"}
      PROVE  set_funnel(c, host, op.port, TRUE).tcp = c.tcp /\ set_funnel(c, host, op.port, TRUE).web = c.web
  BY <1>3 DEF set_funnel
<1>4. DOMAIN build_web_serve(cfg, host, op) = {"tcp", "web", "funnel"}
  BY DEF build_web_serve, IsConfig
<1>5. CASE op.verb = "serve" /\ op.type \in {"https", "http"}
  BY <1>1, <1>5 DEF Edited
<1>6. CASE op.verb = "serve" /\ op.type \in {"tcp", "tls"}
  BY <1>2, <1>6 DEF Edited
<1>7. CASE op.verb = "funnel"
  <2>1. Edited(cfg, host, op) = set_funnel(build_web_serve(cfg, host, op), host, op.port, TRUE)
    BY <1>7 DEF Edited
  <2> QED
    BY <1>1, <1>3, <1>4, <2>1 DEF Same
<1> QED
  BY <1>5, <1>6, <1>7

(* What a foreground serve published differs from what it will put back   *)
(* only on its own port.                                                   *)
LEMMA Published ==
  ASSUME NEW r, Holds(r), NEW p, p # r.op.port
  PROVE  Same(r.previous, r.wrote, p)
<1>1. PICK host : r.wrote = Edited(r.previous, host, r.op)
  BY DEF Holds
<1>2. IsConfig(r.previous) /\ r.op.verb \in {"serve", "funnel"}
  BY DEF Holds
<1>3. r.op.verb = "serve" => r.op.type \in {"https", "http", "tcp", "tls"}
  BY DEF Holds
<1>4. Same(r.previous, Edited(r.previous, host, r.op), p)
  BY <1>2, <1>3, Elsewhere
<1> QED
  BY <1>1, <1>4

(* A port that two configs have alike is refused by both or by neither.    *)
LEMMA SameRefusal ==
  ASSUME NEW a, NEW b, NEW name, NEW r \in Refused(a, name), Same(a, b, r[1])
  PROVE  r \in Refused(b, name)
<1>1. PICK p \in EnginePorts(a) : r = <<p, engine_port(a, name, p)>>
  BY DEF Refused
<1>2. p = r[1] /\ r \notin Ports \X {"serves"}
  BY <1>1 DEF Refused
<1>3. p \in DOMAIN b.tcp /\ b.tcp[p] = a.tcp[p]
  BY <1>1, <1>2 DEF Same, EnginePorts
<1>4. p \in EnginePorts(b)
  BY <1>1, <1>3 DEF EnginePorts
<1>5. Handlers(a, name, p) = Handlers(b, name, p)
  BY <1>2, <1>3 DEF Same, Handlers
<1>6. engine_port(a, name, p) = engine_port(b, name, p)
  BY <1>3, <1>5 DEF engine_port
<1> QED
  BY <1>1, <1>2, <1>4, <1>6 DEF Refused

----------------------------------------------------------------------------
(* The invariant.                                                          *)

LEMMA InitInv == Init => ServeInv
<1> SUFFICES ASSUME Init PROVE ServeInv
  OBVIOUS
<1>1. PICK p \in Profiles :
        daemon = [profile |-> p, shields_up |-> [q \in Profiles |-> FALSE],
                  device |-> FALSE, name |-> None]
  BY DEF Init
<1>2. DOMAIN sup = {"pc", "cfg", "tcp", "funnel", "warned"} /\ sup.pc = "none"
  BY DEF Init, NoTask
<1>3. DOMAIN store = Profiles /\ \A q \in Profiles : IsConfig(store[q])
  BY EditsAssumption DEF Init, IsConfig
<1>4. Shape
  BY <1>1, <1>2, <1>3, FirstHost DEF Init, Shape
<1>5. Supervised /\ ServesWhatIsStored
  BY <1>2 DEF Init, Supervised, ServesWhatIsStored, NoEngine
<1>6. Running
  BY DEF Init, Running, Idle
<1> QED
  BY <1>4, <1>5, <1>6 DEF ServeInv

(* A step that stops the device, or has none, and leaves the files alone.  *)
LEMMA DaemonInv ==
  ASSUME ServeInv, finish_up \/ stop_device \/ activate_profile \/ Rename
  PROVE  ServeInv'
<1>1. Shape'
  <2>1. CASE finish_up
    BY <2>1 DEF finish_up, ServeInv, Shape, Spawned, NoTask
  <2>2. CASE stop_device
    BY <2>2 DEF stop_device, ServeInv, Shape, NoTask
  <2>3. CASE activate_profile
    BY <2>3 DEF activate_profile, ServeInv, Shape, NoTask
  <2>4. CASE Rename
    BY <2>4 DEF Rename, ServeInv, Shape
  <2> QED
    BY <2>1, <2>2, <2>3, <2>4
<1>2. Running'
  BY DEF ServeInv, Running, finish_up, stop_device, activate_profile, Rename
<1>3. Supervised' /\ ServesWhatIsStored'
  <2>1. CASE finish_up
    <3>1. sup'.pc = "load" /\ daemon'.device /\ engine' = engine /\ DOMAIN engine.web = {}
      BY <2>1 DEF finish_up, ServeInv, Shape, Spawned, NoTask, ServesWhatIsStored
    <3> QED
      BY <3>1 DEF Supervised, ServesWhatIsStored
  <2>2. CASE stop_device \/ activate_profile
    <3>0. NoTask.pc = "none" /\ NoEngine.web = <<>> /\ DOMAIN <<>> = {}
      BY DEF NoTask, NoEngine
    <3>1. sup' = NoTask /\ NoTask.pc = "none" /\ DOMAIN engine'.web = {}
      BY <2>2, <3>0 DEF stop_device, activate_profile
    <3> QED
      BY <3>1 DEF Supervised, ServesWhatIsStored
  <2>3. CASE Rename
    BY <2>3 DEF Rename, ServeInv, Supervised, ServesWhatIsStored, Stored
  <2> QED
    BY <2>1, <2>2, <2>3
<1> QED
  BY <1>1, <1>2, <1>3 DEF ServeInv

(* The accept loops that run are some of those the stored config asks for. *)
Forwards(loops) ==
  \A p \in DOMAIN loops : p \in DOMAIN Stored.tcp \ EnginePorts(Stored) /\ loops[p] = Stored.tcp[p].to

LEMMA SupervisorInv ==
  ASSUME ServeInv,
         \/ SupervisorLoads \/ SupervisorArms \/ SupervisorClears \/ arm_funnel_lane \/ LoopEnds
  PROVE  ServeInv'
<1>0. UNCHANGED <<store, daemon, node, client>> /\ Stored' = Stored
  BY DEF SupervisorLoads, SupervisorArms, SupervisorClears, arm_funnel_lane, LoopEnds, Stored
<1>d. daemon.device
  <2>1. NoTask.pc = "none" /\ DOMAIN NoTask.tcp = {} /\ DOMAIN NoTask.funnel = {}
    BY DEF NoTask
  <2>2. sup.pc \in {"load", "arm", "clear", "funnel"} \/ DOMAIN sup.tcp # {} \/ DOMAIN sup.funnel # {}
    BY DEF SupervisorLoads, SupervisorArms, SupervisorClears, arm_funnel_lane, LoopEnds
  <2> QED
    BY <2>1, <2>2 DEF ServeInv, ServesWhatIsStored
<1>1. Shape'
  BY <1>0 DEF ServeInv, Shape, SupervisorLoads, SupervisorArms, SupervisorClears, arm_funnel_lane,
              LoopEnds
<1>2. Running'
  BY <1>0 DEF ServeInv, Running
<1>3. ASSUME sup'.pc \notin {"none", "load"} =>
               /\ sup'.cfg = Stored /\ Forwards(sup'.tcp)
               /\ DOMAIN sup'.funnel \subseteq funnel_ports(Stored),
             sup'.pc \in {"funnel", "settled"} =>
               sup'.warned \/ engine'.web \in {<<>>, build_web_serve_state(Stored, engine'.host)},
             DOMAIN engine'.web # {} => engine'.profile = daemon.profile
      PROVE  Supervised' /\ ServesWhatIsStored'
  <2>1. DOMAIN Stored'.tcp = DOMAIN Stored.tcp /\ EnginePorts(Stored') = EnginePorts(Stored)
    BY <1>0
  <2> QED
    BY <1>0, <1>d, <1>3, <2>1 DEF Supervised, ServesWhatIsStored, Forwards
<1>4. Supervised' /\ ServesWhatIsStored'
  <2>0. /\ sup.pc \notin {"none", "load"} =>
             /\ sup.cfg = Stored /\ Forwards(sup.tcp)
             /\ DOMAIN sup.funnel \subseteq funnel_ports(Stored)
        /\ sup.pc \in {"funnel", "settled"} =>
             sup.warned \/ engine.web \in {<<>>, build_web_serve_state(Stored, engine.host)}
        /\ DOMAIN engine.web # {} => engine.profile = daemon.profile
    BY DEF ServeInv, Supervised, ServesWhatIsStored, Forwards
  <2>1. CASE SupervisorLoads
    <3>1. {p \in DOMAIN Stored.tcp : is_plain_tcp_forward(Stored.tcp[p])}
            = DOMAIN Stored.tcp \ EnginePorts(Stored)
      BY DEF EnginePorts
    <3> DEFINE loops == [p \in DOMAIN Stored.tcp \ EnginePorts(Stored) |-> Stored.tcp[p].to]
    <3>2. /\ sup'.pc = "arm" /\ sup'.cfg = Stored /\ sup'.tcp = loops
          /\ DOMAIN sup'.funnel = {} /\ engine' = engine
      BY <2>1, <3>1 DEF SupervisorLoads
    <3>3. Forwards(loops)
      BY DEF Forwards
    <3> HIDE DEF loops
    <3>4. Forwards(sup'.tcp)
      BY <3>2, <3>3
    <3> QED
      BY <1>3, <2>0, <3>2, <3>4
  <2>2. CASE SupervisorArms
    <3>1. /\ sup.pc = "arm"
          /\ sup'.cfg = sup.cfg /\ sup'.tcp = sup.tcp /\ sup'.funnel = sup.funnel
      BY <2>2 DEF SupervisorArms, ServeInv, Shape
    <3>2. \/ sup'.pc = "clear" /\ engine' = engine
          \/ engine' = [web |-> build_web_serve_state(Stored, node), host |-> node,
                        profile |-> daemon.profile]
      BY <2>0, <2>2, <3>1 DEF SupervisorArms, ServeInv, Shape
    <3>3. sup'.pc \in {"funnel", "settled"} =>
            engine'.web \in {<<>>, build_web_serve_state(Stored, engine'.host)}
      BY <3>2
    <3>4. DOMAIN engine'.web # {} => engine'.profile = daemon.profile
      BY <2>0, <3>2
    <3> QED
      BY <1>3, <2>0, <3>1, <3>3, <3>4
  <2>3. CASE SupervisorClears
    <3>1. /\ sup.pc = "clear"
          /\ sup'.cfg = sup.cfg /\ sup'.tcp = sup.tcp /\ sup'.funnel = sup.funnel
          /\ \/ engine'.web = <<>>
             \/ sup'.warned = TRUE /\ engine' = engine
      <4>0. NoEngine.web = <<>>
        BY DEF NoEngine
      <4>1. CASE sup' = [sup EXCEPT !.pc = "funnel"] /\ engine' = NoEngine
        BY <2>3, <4>0, <4>1 DEF SupervisorClears, ServeInv, Shape
      <4>2. CASE sup' = [sup EXCEPT !.pc = "funnel", !.warned = TRUE] /\ engine' = engine
        BY <2>3, <4>2 DEF SupervisorClears, ServeInv, Shape
      <4> QED
        BY <2>3, <4>1, <4>2 DEF SupervisorClears
    <3>2. DOMAIN engine'.web # {} => engine'.profile = daemon.profile
      BY <2>0, <3>1
    <3> QED
      BY <1>3, <2>0, <3>1, <3>2
  <2>4. CASE arm_funnel_lane
    <3>1. /\ sup.pc = "funnel" /\ sup'.cfg = sup.cfg /\ sup'.tcp = sup.tcp
          /\ engine' = engine /\ sup'.warned = sup.warned
          /\ DOMAIN sup'.funnel \subseteq funnel_ports(sup.cfg)
      BY <2>4 DEF arm_funnel_lane, ServeInv, Shape
    <3> QED
      BY <1>3, <2>0, <3>1
  <2>5. CASE LoopEnds
    <3>1. /\ sup'.pc = sup.pc /\ sup'.cfg = sup.cfg /\ engine' = engine
          /\ sup'.warned = sup.warned
          /\ DOMAIN sup'.tcp \subseteq DOMAIN sup.tcp
          /\ \A p \in DOMAIN sup'.tcp : sup'.tcp[p] = sup.tcp[p]
          /\ DOMAIN sup'.funnel \subseteq DOMAIN sup.funnel
      <4>1. CASE \E p \in DOMAIN sup.tcp : sup' = [sup EXCEPT !.tcp = Without(@, {p})]
        BY <2>5, <4>1 DEF LoopEnds, ServeInv, Shape, Without, Restrict
      <4>2. CASE \E p \in DOMAIN sup.funnel : sup' = [sup EXCEPT !.funnel = Without(@, {p})]
        BY <2>5, <4>2 DEF LoopEnds, ServeInv, Shape, Without, Restrict
      <4> QED
        BY <2>5, <4>1, <4>2 DEF LoopEnds
    <3>2. Forwards(sup.tcp) => Forwards(sup'.tcp)
      BY <3>1 DEF Forwards
    <3> QED
      BY <1>3, <2>0, <3>1, <3>2
  <2> QED
    BY <2>1, <2>2, <2>3, <2>4, <2>5
<1> QED
  BY <1>1, <1>2, <1>4 DEF ServeInv

(* A write that is checked, stored and re-armed.                           *)
LEMMA WriteInv ==
  ASSUME ServeInv, NEW cfg, IsConfig(cfg), NEW name, set_serve_config(cfg, name)
  PROVE  Shape' /\ Supervised' /\ ServesWhatIsStored'
<1>1. /\ daemon' = [daemon EXCEPT !.name = name] /\ UNCHANGED <<node, engine>>
      /\ daemon'.profile = daemon.profile /\ daemon'.device = daemon.device
      /\ DOMAIN daemon' = DOMAIN daemon
  BY DEF set_serve_config, ServeInv, Shape
<1>2. CASE Accepted(cfg, name)
  <2>1. /\ store' = [store EXCEPT ![daemon.profile] = cfg]
        /\ sup' = IF daemon.device THEN Spawned ELSE sup
    BY <1>2 DEF set_serve_config
  <2>2. Spawned.pc = "load" /\ DOMAIN Spawned = {"pc", "cfg", "tcp", "funnel", "warned"}
    BY DEF Spawned, NoTask
  <2>3. ~daemon.device => sup = NoTask /\ sup.pc = "none"
    BY DEF ServeInv, ServesWhatIsStored, NoTask
  <2>4. Shape'
    BY <1>1, <2>1, <2>2 DEF ServeInv, Shape
  <2>5. sup'.pc \in {"none", "load"}
    BY <2>1, <2>2, <2>3
  <2>6. /\ ~daemon'.device => sup' = NoTask
        /\ DOMAIN engine'.web # {} => daemon'.device /\ engine'.profile = daemon'.profile
    BY <1>1, <2>1, <2>3 DEF ServeInv, ServesWhatIsStored
  <2> QED
    BY <2>4, <2>5, <2>6 DEF Supervised, ServesWhatIsStored
<1>3. CASE ~Accepted(cfg, name)
  <2>1. UNCHANGED <<store, sup>>
    BY <1>3 DEF set_serve_config
  <2>2. Stored' = Stored
    BY <1>1, <2>1 DEF Stored
  <2> QED
    BY <1>1, <2>1, <2>2 DEF ServeInv, Shape, Supervised, ServesWhatIsStored
<1> QED
  BY <1>2, <1>3


(* The record of the client that steps is replaced, and it is one of the   *)
(* kinds the invariant speaks of.                                          *)
LEMMA RunningStep ==
  ASSUME ServeInv, NEW c \in Clients, NEW r, client' = [client EXCEPT ![c] = r],
         r.pc = "read" => Reading(r), r.pc = "held" => Holds(r)
  PROVE  Running'
<1>1. DOMAIN client' = Clients /\ client'[c] = r
  BY DEF ServeInv, Running
<1>2. \A d \in Clients : d # c => client'[d] = client[d]
  BY DEF ServeInv, Running
<1>3. ASSUME NEW d \in Clients
      PROVE  /\ client'[d].pc = "read" => Reading(client'[d])
             /\ client'[d].pc = "held" => Holds(client'[d])
  <2>1. CASE d = c
    BY <1>1, <2>1
  <2>2. CASE d # c
    BY <1>2, <2>2 DEF ServeInv, Running
  <2> QED
    BY <2>1, <2>2
<1> QED
  BY <1>1, <1>3 DEF Running

LEMMA EndsInv ==
  ASSUME ServeInv, NEW c \in Clients, NEW how, Ends(c, how), how \notin {"read", "held"}
  PROVE  Running'
<1>1. client' = [client EXCEPT ![c] = [pc |-> how]] /\ [pc |-> how].pc = how
  BY DEF Ends
<1> QED
  BY <1>1, RunningStep

LEMMA StillServes ==
  ASSUME ServeInv, UNCHANGED <<store, daemon, node, engine, sup>>
  PROVE  Shape' /\ Supervised' /\ ServesWhatIsStored'
<1>1. Stored' = Stored
  BY DEF Stored
<1> QED
  BY <1>1 DEF ServeInv, Shape, Supervised, ServesWhatIsStored

LEMMA ReadsInv ==
  ASSUME ServeInv, NEW c \in Clients,
         (\E op \in Edits : Runs(c, op)) \/ serve_host(c) \/ get_serve_config(c) \/ Killed(c)
  PROVE  ServeInv'
<1>1. Shape' /\ Supervised' /\ ServesWhatIsStored'
  BY StillServes DEF Runs, serve_host, get_serve_config, Killed
<1> SUFFICES Running'
  BY <1>1 DEF ServeInv
<1>2. ASSUME NEW op \in Edits, Runs(c, op) PROVE Running'
  <2> DEFINE r == [pc |-> "read", op |-> op, todo |-> Reads(op), host |-> None, cfg |-> Empty]
  <2>1. client' = [client EXCEPT ![c] = r]
    BY <1>2 DEF Runs
  <2>2. op.verb \in {"funnel", "funnel on"} => Reads(op) = <<"host", "config">>
    BY DEF Reads
  <2>3. Reading(r)
    BY <2>2, EmptyIsConfig DEF Reading
  <2>4. r.pc = "read"
    OBVIOUS
  <2> HIDE DEF r
  <2> QED
    BY <2>1, <2>3, <2>4, RunningStep
<1>3. CASE serve_host(c)
  <2> DEFINE r == [client[c] EXCEPT !.host = node, !.todo = Tail(@)]
  <2>1. CASE Ends(c, "failed")
    BY <2>1, EndsInv
  <2>2. CASE client' = [client EXCEPT ![c].host = node, ![c].todo = Tail(@)]
    <3>1. client' = [client EXCEPT ![c] = r]
      BY <2>2 DEF ServeInv, Running
    <3>2. Reading(client[c]) /\ client[c].pc = "read" /\ client[c].todo # <<>> /\ Head(client[c].todo) = "host"
      BY <1>3 DEF serve_host, Turn, ServeInv, Running
    <3>3. /\ DOMAIN r = {"pc", "op", "todo", "host", "cfg"} /\ r.pc = "read"
          /\ r.op = client[c].op /\ r.cfg = client[c].cfg
          /\ r.host = node /\ r.todo = Tail(client[c].todo)
      BY <3>2 DEF Reading
    <3>4. client[c].todo = <<"host", "config">> => Tail(client[c].todo) = <<"config">>
      OBVIOUS
    <3>5. Head(<<"config">>) = "config"
      OBVIOUS
    <3>6. client[c].op.verb \in {"funnel", "funnel on"} => r.todo = <<"config">>
      BY <3>2, <3>3, <3>4, <3>5 DEF Reading
    <3>7. node \in Hosts
      BY DEF ServeInv, Shape
    <3> HIDE DEF r
    <3>8. Reading(r)
      BY <3>2, <3>3, <3>6, <3>7 DEF Reading
    <3> QED
      BY <3>1, <3>3, <3>8, RunningStep
  <2> QED
    BY <1>3, <2>1, <2>2 DEF serve_host
<1>4. CASE get_serve_config(c)
  <2> DEFINE r == [client[c] EXCEPT !.cfg = Stored, !.todo = Tail(@)]
  <2>1. client' = [client EXCEPT ![c] = r]
    BY <1>4 DEF get_serve_config, ServeInv, Running
  <2>2. Reading(client[c]) /\ client[c].pc = "read" /\ client[c].todo # <<>> /\ Head(client[c].todo) = "config"
    BY <1>4 DEF get_serve_config, Turn, ServeInv, Running
  <2>3. /\ DOMAIN r = {"pc", "op", "todo", "host", "cfg"} /\ r.pc = "read"
        /\ r.op = client[c].op /\ r.cfg = Stored
        /\ r.host = client[c].host /\ r.todo = Tail(client[c].todo)
    BY <2>2 DEF Reading
  <2>4. client[c].todo = <<"config">> => Tail(client[c].todo) = <<>>
    OBVIOUS
  <2>5. Head(<<"host", "config">>) = "host" /\ <<"config">> # <<"host", "config">> /\ <<>> # <<"host", "config">>
    OBVIOUS
  <2>6. client[c].op.verb \in {"funnel", "funnel on"} => r.todo = <<>> /\ client[c].host \in Hosts
    BY <2>2, <2>3, <2>4, <2>5 DEF Reading
  <2>7. IsConfig(Stored)
    BY DEF ServeInv, Shape, Stored
  <2> HIDE DEF r
  <2>8. Reading(r)
    BY <2>2, <2>3, <2>6, <2>7 DEF Reading
  <2> QED
    BY <2>1, <2>3, <2>8, RunningStep
<1>5. CASE Killed(c)
  BY <1>5, EndsInv DEF Killed
<1> QED
  BY <1>2, <1>3, <1>4, <1>5


LEMMA WritesInv ==
  ASSUME ServeInv, NEW c \in Clients, Writes(c)
  PROVE  ServeInv'
<1> DEFINE op == client[c].op
           cfg == Edited(client[c].cfg, client[c].host, op)
<1>1. Reading(client[c]) /\ client[c].todo = <<>>
  BY DEF Writes, ServeInv, Running
<1>2. IsConfig(client[c].cfg) /\ op \in Edits
  BY <1>1 DEF Reading
<1>3. op.verb \in {"funnel", "funnel on"} => client[c].host \in Hosts
  <2>1. <<>> # <<"host", "config">>
    OBVIOUS
  <2> QED
    BY <1>1, <2>1 DEF Reading
<1>4. IsConfig(cfg)
  BY <1>2, <1>3, EditedIsConfig
<1>5. CASE NothingToRemove(c)
  <2>1. Ends(c, "done") /\ UNCHANGED <<store, daemon, node, engine, sup>>
    BY <1>5 DEF Writes
  <2> QED
    BY <2>1, EndsInv, StillServes DEF ServeInv
<1>6. CASE ~NothingToRemove(c)
  <2>1. PICK name \in current_netmap_name :
          /\ set_serve_config(cfg, name)
          /\ IF ~Accepted(cfg, name) THEN Ends(c, "failed")
             ELSE IF ~op.foreground THEN Ends(c, "done")
             ELSE client' = [client EXCEPT ![c] =
                    [pc |-> "held", op |-> op, previous |-> client[c].cfg, wrote |-> cfg,
                     stale |-> Stored # client[c].cfg]]
    BY <1>6 DEF Writes
  <2>2. Shape' /\ Supervised' /\ ServesWhatIsStored'
    BY <1>4, <2>1, WriteInv
  <2>3. CASE Ends(c, "failed") \/ Ends(c, "done")
    BY <2>2, <2>3, EndsInv DEF ServeInv
  <2>4. CASE /\ Accepted(cfg, name) /\ op.foreground
             /\ client' = [client EXCEPT ![c] =
                    [pc |-> "held", op |-> op, previous |-> client[c].cfg, wrote |-> cfg,
                     stale |-> Stored # client[c].cfg]]
    <3> DEFINE r == [pc |-> "held", op |-> op, previous |-> client[c].cfg, wrote |-> cfg,
                     stale |-> Stored # client[c].cfg]
    <3>1. validate_serve_config_update(Stored, cfg)
      BY <2>4 DEF Accepted
    <3>2. op.verb \in {"serve", "funnel"} /\ (op.verb = "serve" => op.type \in {"https", "http", "tcp", "tls"})
      BY <1>2, <2>4, EditsAssumption
    <3>3. /\ r.pc = "held" /\ r.op = op /\ r.previous = client[c].cfg /\ r.wrote = cfg
          /\ ~r.stale => Stored = client[c].cfg
      OBVIOUS
    <3>4. client' = [client EXCEPT ![c] = r]
      BY <2>4
    <3>5. r.wrote = Edited(r.previous, client[c].host, r.op)
      BY <3>3
    <3> HIDE DEF r, cfg, op
    <3>6. Holds(r)
      BY <1>2, <3>1, <3>2, <3>3, <3>5 DEF Holds
    <3>7. Running'
      BY <3>3, <3>4, <3>6, RunningStep
    <3> QED
      BY <2>2, <3>7 DEF ServeInv
  <2> QED
    BY <2>1, <2>3, <2>4
<1> QED
  BY <1>5, <1>6

LEMMA InterruptedInv ==
  ASSUME ServeInv, NEW c \in Clients, Interrupted(c)
  PROVE  ServeInv'
<1>1. IsConfig(client[c].previous)
  BY DEF Interrupted, ServeInv, Running, Holds
<1>2. PICK name : /\ set_serve_config(client[c].previous, name)
                  /\ Ends(c, IF Accepted(client[c].previous, name) THEN "restored" ELSE "not restored")
  BY DEF Interrupted
<1>3. Shape' /\ Supervised' /\ ServesWhatIsStored'
  BY <1>1, <1>2, WriteInv
<1>4. Running'
  BY <1>2, EndsInv
<1> QED
  BY <1>3, <1>4 DEF ServeInv

LEMMA Inductive == Spec => []ServeInv
<1>1. ServeInv /\ [Next]_vars => ServeInv'
  <2> SUFFICES ASSUME ServeInv, [Next]_vars PROVE ServeInv'
    OBVIOUS
  <2>1. CASE finish_up \/ stop_device \/ activate_profile \/ Rename
    BY <2>1, DaemonInv
  <2>2. CASE \/ SupervisorLoads \/ SupervisorArms \/ SupervisorClears \/ arm_funnel_lane
            \/ LoopEnds
    BY <2>2, SupervisorInv
  <2>3. ASSUME NEW c \in Clients,
               (\E op \in Edits : Runs(c, op)) \/ serve_host(c) \/ get_serve_config(c) \/ Killed(c)
        PROVE  ServeInv'
    BY <2>3, ReadsInv
  <2>4. ASSUME NEW c \in Clients, Writes(c) PROVE ServeInv'
    BY <2>4, WritesInv
  <2>5. ASSUME NEW c \in Clients, Interrupted(c) PROVE ServeInv'
    BY <2>5, InterruptedInv
  <2>6. CASE UNCHANGED vars
    <3>1. Shape' /\ Supervised' /\ ServesWhatIsStored'
      BY <2>6, StillServes DEF vars
    <3>2. Running'
      BY <2>6 DEF vars, ServeInv, Running
    <3> QED
      BY <3>1, <3>2 DEF ServeInv
  <2> QED
    BY <2>1, <2>2, <2>3, <2>4, <2>5, <2>6 DEF Next
<1> QED
  BY <1>1, InitInv, PTL DEF Spec

----------------------------------------------------------------------------
(* The theorems.                                                           *)

(* What is stored is what runs: the accept loops, the open funnels and the *)
(* device's web lane are those of the stored config of the current profile *)
(* (set_serve_config stops the supervisor before it starts the next,       *)
(* spawn_serve clears what a round did not arm).                           *)
THEOREM RunsWhatIsStored == Spec => []ServesWhatIsStored
<1>1. ServeInv => ServesWhatIsStored
  BY DEF ServeInv
<1> QED
  BY <1>1, Inductive, PTL

(* A client that goes from reading to done ran its write.                  *)
LEMMA DoneMeansWritten ==
  ASSUME ServeInv, [Next]_vars, NEW c \in Clients,
         client[c].pc = "read", client'[c].pc = "done"
  PROVE  Writes(c)
<1>0. DOMAIN client = Clients
  BY DEF ServeInv, Running
<1>1. \A d \in Clients : \A how : Ends(d, how) => client'[c] = client[c] \/ (d = c /\ client'[c].pc = how)
  BY <1>0 DEF Ends
<1>2. ~ UNCHANGED client
  OBVIOUS
<1>3. PICK d \in Clients :
        \/ \E op \in Edits : Runs(d, op)
        \/ serve_host(d) \/ get_serve_config(d) \/ Writes(d)
        \/ Interrupted(d) \/ Killed(d)
  BY <1>2 DEF Next, vars, finish_up, stop_device, activate_profile, Rename,
       SupervisorLoads, SupervisorArms, SupervisorClears, arm_funnel_lane, LoopEnds
<1>4. CASE d # c
  <2>1. client'[c] = client[c]
    BY <1>0, <1>3, <1>4 DEF Runs, serve_host, get_serve_config, Writes, Interrupted, Killed, Ends
  <2> QED
    BY <2>1
<1>5. CASE d = c
  <2>1. ASSUME NEW op \in Edits, Runs(c, op) PROVE FALSE
    BY <2>1 DEF Runs
  <2>2. CASE serve_host(c)
    <3>1. CASE Ends(c, "failed")
      BY <1>1, <3>1
    <3>2. CASE client' = [client EXCEPT ![c].host = node, ![c].todo = Tail(@)]
      <4>1. client'[c].pc = client[c].pc
        BY <1>0, <3>2
      <4> QED
        BY <4>1
    <3> QED
      BY <2>2, <3>1, <3>2 DEF serve_host
  <2>3. CASE get_serve_config(c)
    <3>1. client'[c].pc = client[c].pc
      BY <1>0, <2>3 DEF get_serve_config
    <3> QED
      BY <3>1
  <2>4. CASE Interrupted(c)
    BY <2>4 DEF Interrupted
  <2>5. CASE Killed(c)
    BY <1>1, <2>5 DEF Killed
  <2> QED
    BY <1>3, <1>5, <2>1, <2>2, <2>3, <2>4, <2>5
<1> QED
  BY <1>4, <1>5


LEMMA EndsAs ==
  ASSUME ServeInv, NEW c \in Clients, NEW how, Ends(c, how)
  PROVE  client'[c].pc = how
<1>1. DOMAIN client = Clients
  BY DEF ServeInv, Running
<1> QED
  BY <1>1 DEF Ends

LEMMA NoLoops ==
  /\ DOMAIN Spawned.tcp = {} /\ DOMAIN Spawned.funnel = {}
  /\ DOMAIN NoTask.tcp = {} /\ DOMAIN NoTask.funnel = {}
  BY DEF Spawned, NoTask

(* What a done command leaves stored and open.                             *)
OffHolds(c) ==
  (client[c].pc = "read" /\ client'[c].pc = "done") =>
    LET op == client[c].op IN
    /\ op.verb = "funnel off" => op.port \notin funnel_ports(Stored') \union DOMAIN sup'.funnel
    /\ (op.verb = "serve off" /\ ~NothingToRemove(c)) =>
         op.port \notin funnel_ports(Stored') \union DOMAIN Stored'.tcp \union DOMAIN sup'.tcp

LEMMA OffStep ==
  ASSUME ServeInv, [Next]_vars, NEW c \in Clients
  PROVE  OffHolds(c)
<1> SUFFICES ASSUME client[c].pc = "read", client'[c].pc = "done",
                    client[c].op.verb \in {"funnel off", "serve off"}, ~NothingToRemove(c)
             PROVE  LET op == client[c].op IN
                    /\ op.verb = "funnel off" => op.port \notin funnel_ports(Stored') \union DOMAIN sup'.funnel
                    /\ op.verb = "serve off" =>
                         op.port \notin funnel_ports(Stored') \union DOMAIN Stored'.tcp \union DOMAIN sup'.tcp
  BY DEF OffHolds, NothingToRemove
<1> DEFINE op == client[c].op
           cfg == Edited(client[c].cfg, client[c].host, op)
<1>1. Writes(c) /\ IsConfig(client[c].cfg)
  BY DoneMeansWritten DEF ServeInv, Running, Reading
<1>2. PICK name \in current_netmap_name :
        /\ set_serve_config(cfg, name)
        /\ ~Accepted(cfg, name) => Ends(c, "failed")
  BY <1>1 DEF Writes
<1>3. Accepted(cfg, name)
  <2> SUFFICES ASSUME ~Accepted(cfg, name) PROVE FALSE
    OBVIOUS
  <2>1. client'[c].pc = "failed"
    BY <1>2, EndsAs
  <2> QED
    BY <2>1
<1>4. Stored' = cfg
  BY <1>2, <1>3 DEF set_serve_config, Stored, ServeInv, Shape
<1>5. DOMAIN sup'.tcp = {} /\ DOMAIN sup'.funnel = {}
  <2>1. sup' = IF daemon.device THEN Spawned ELSE sup
    BY <1>2, <1>3 DEF set_serve_config
  <2>2. ~daemon.device => sup = NoTask
    BY DEF ServeInv, ServesWhatIsStored
  <2>4. CASE daemon.device
    BY <2>1, <2>4, NoLoops
  <2>5. CASE ~daemon.device
    BY <2>1, <2>2, <2>5, NoLoops
  <2> QED
    BY <2>4, <2>5
<1>6. CASE op.verb = "funnel off"
  BY <1>1, <1>4, <1>5, <1>6, FunnelOff
<1>7. CASE op.verb = "serve off"
  BY <1>1, <1>4, <1>5, <1>7, ServeOff
<1> QED
  BY <1>6, <1>7

(* Off is off, whatever the node was named when the port was turned on and *)
(* whoever wrote in between (serve.rs set_funnel, tnet.rs                  *)
(* remove_serve_port).                                                     *)
THEOREM OffTurnsOff == Spec => OffIsOff
<1>1. ServeInv /\ [Next]_vars => \A c \in Clients : OffHolds(c)
  BY OffStep
<1>2. ServeInv /\ [Next]_vars => [\A c \in Clients : OffHolds(c)]_vars
  BY <1>1
<1>3. Spec => [][\A c \in Clients : OffHolds(c)]_vars
  BY <1>2, Inductive, PTL DEF Spec
<1> QED
  BY <1>3 DEF OffIsOff, OffHolds

LEMMA NotRestoredMeansInterrupted ==
  ASSUME ServeInv, [Next]_vars, NEW c \in Clients,
         client[c].pc = "held", client'[c].pc = "not restored"
  PROVE  Interrupted(c)
<1>0. DOMAIN client = Clients
  BY DEF ServeInv, Running
<1>1. PICK d \in Clients :
        \/ \E op \in Edits : Runs(d, op)
        \/ serve_host(d) \/ get_serve_config(d) \/ Writes(d)
        \/ Interrupted(d) \/ Killed(d)
  BY DEF Next, vars, finish_up, stop_device, activate_profile, Rename,
       SupervisorLoads, SupervisorArms, SupervisorClears, arm_funnel_lane, LoopEnds
<1>2. CASE d # c
  <2>1. client'[c] = client[c]
    BY <1>0, <1>1, <1>2 DEF Runs, serve_host, get_serve_config, Writes, Interrupted, Killed, Ends
  <2> QED
    BY <2>1
<1>3. CASE d = c
  <2>1. Killed(c) => client'[c].pc = "killed"
    BY <1>0 DEF Killed, Ends
  <2>2. ~serve_host(c) /\ ~get_serve_config(c) /\ ~Writes(c) /\ \A op \in Edits : ~Runs(c, op)
    BY DEF serve_host, get_serve_config, Turn, Writes, Runs
  <2> QED
    BY <1>1, <1>3, <2>1, <2>2
<1> QED
  BY <1>2, <1>3

(* Why a foreground serve may fail to put the old config back.             *)
RestoreHolds(c) ==
  (client[c].pc = "held" /\ client'[c].pc = "not restored") =>
    \/ client[c].stale \/ Stored # client[c].wrote
    \/ daemon'.name = None
    \/ daemon.shields_up[daemon.profile] /\ funnel_ports(client[c].previous) # {}
    \/ \E r \in Refused(client[c].previous, daemon'.name) : r[1] = client[c].op.port

LEMMA RestoreStep ==
  ASSUME ServeInv, [Next]_vars, NEW c \in Clients
  PROVE  RestoreHolds(c)
<1> DEFINE old == client[c].previous
           new == client[c].wrote
<1> SUFFICES ASSUME client[c].pc = "held", client'[c].pc = "not restored",
                    ~client[c].stale, Stored = new, daemon'.name # None,
                    ~(daemon.shields_up[daemon.profile] /\ funnel_ports(old) # {})
             PROVE  \E r \in Refused(old, daemon'.name) : r[1] = client[c].op.port
  BY DEF RestoreHolds
<1>1. Interrupted(c) /\ Holds(client[c])
  BY NotRestoredMeansInterrupted DEF ServeInv, Running
<1>2. PICK name : /\ set_serve_config(old, name)
                  /\ Accepted(old, name) => Ends(c, "restored")
  BY <1>1 DEF Interrupted
<1>3. daemon'.name = name
  BY <1>2 DEF set_serve_config, ServeInv, Shape
<1>4. ~Accepted(old, name)
  <2>1. Ends(c, "restored") => client'[c].pc = "restored"
    BY DEF Ends, ServeInv, Running
  <2> QED
    BY <1>2, <2>1
<1>5. validate_serve_config_update(new, old)
  BY <1>1 DEF Holds, validate_serve_config_update
<1>6. PICK r \in Refused(old, name) : r \notin Refused(new, name)
  BY <1>3, <1>4, <1>5 DEF Accepted, NewRefusals
<1>7. ASSUME r[1] # client[c].op.port PROVE FALSE
  <2>1. Same(client[c].previous, client[c].wrote, r[1])
    BY <1>1, <1>7, Published
  <2> QED
    BY <1>6, <2>1, SameRefusal
<1> QED
  BY <1>3, <1>6, <1>7

(* A foreground serve that ends puts the old config back, unless another   *)
(* client wrote, the daemon has no netmap, shields are up over a funnel,   *)
(* or the engine refuses the old config on the very port it served: a      *)
(* refusal on any other port never blocks it, under any name               *)
(* (set_serve_config, the refusals the stored config carries already).     *)
THEOREM RestoreIsNotBlocked == Spec => RestoreIsTaken
<1>1. ServeInv /\ [Next]_vars => \A c \in Clients : RestoreHolds(c)
  BY RestoreStep
<1>2. ServeInv /\ [Next]_vars => [\A c \in Clients : RestoreHolds(c)]_vars
  BY <1>1
<1>3. Spec => [][\A c \in Clients : RestoreHolds(c)]_vars
  BY <1>2, Inductive, PTL DEF Spec
<1> QED
  BY <1>3 DEF RestoreIsTaken, RestoreHolds
============================================================================
