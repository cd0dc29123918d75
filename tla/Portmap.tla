------------------------------ MODULE Portmap ------------------------------
(***************************************************************************)
(* One `debug portmap` run (portmap.rs, server.rs): the run itself, the    *)
(* background attempts of its Client to obtain a port mapping, the pump    *)
(* that forwards the run's log to the operator, and the gateway.  The run  *)
(* may be aborted at any of its awaits, which closes the client while an   *)
(* attempt is still talking to the gateway.                                *)
(*                                                                         *)
(* Datagrams may be delayed or lost.  A request is answered at most once.  *)
(* Time is the choice of when a deadline passes or a lease ages; no run    *)
(* outlives the ten minutes for which a probe's findings are trusted.      *)
(* Addresses are the gateway they belong to, all of them IPv4; the run     *)
(* maps one local port.                                                    *)
(***************************************************************************)
EXTENDS Naturals, FiniteSets

CONSTANTS
  Gateways,      \* the gateways the host may find itself behind
  NoGateway,     \* what the lookup returns when there is none
  Types,         \* the --type values operators give
  MaxAttempts    \* bound on the background attempts of the run

ASSUME PortmapAssumption ==
  /\ NoGateway \notin Gateways
  /\ MaxAttempts \in Nat \ {0}

VARIABLES
  run,      \* the debug_portmap task: where it is, its --type, its done channel
  conn,     \* the operator's connection and the pump that serves it
  st,       \* Client::state, and whether on_change holds the hook
  att,      \* the background attempts, by number; the number is also the nonce
  lookup,   \* what the gateway lookup would return now
  grants,   \* the mappings that exist on the gateways
  net       \* datagrams in flight; a release stays, as the record of itself

vars == <<run, conn, st, att, lookup, grants, net>>

Attempts == 1 .. MaxAttempts
Kinds == {"pmp", "pcp"}

disable_pmp == run.ty \in {"pcp", "upnp"}
disable_pcp == run.ty \in {"pmp", "upnp"}
disable_upnp == run.ty \in {"pmp", "pcp"}

NoMapping == [n |-> 0, gw |-> NoGateway, kind |-> "none", age |-> "none"]

Idle == [pc |-> "unspawned", gw |-> NoGateway, kind |-> "none",
         address |-> FALSE, port |-> FALSE, took |-> FALSE]

Init ==
  /\ run \in [pc : {"start"}, ty : Types, done : {FALSE}]
  /\ conn = [pump |-> TRUE, gone |-> FALSE, lines |-> FALSE]
  /\ st = [closed |-> FALSE, running_create |-> FALSE, hook |-> FALSE,
           last_gw |-> NoGateway, last_probe |-> "never",
           pmp |-> FALSE, pcp |-> FALSE, mapping |-> NoMapping]
  /\ att = [n \in Attempts |-> Idle]
  /\ lookup \in Gateways \union {NoGateway}
  /\ grants = {}
  /\ net = {}

----------------------------------------------------------------------------
(* The client's helpers.                                                   *)

datagram(op, m) == [op |-> op, n |-> m.n, gw |-> m.gw, kind |-> m.kind]

release_mapping(m) == IF m = NoMapping THEN {} ELSE {datagram("release", m)}

invalidate_mappings(s) ==
  [s EXCEPT !.mapping = NoMapping, !.pmp = FALSE, !.pcp = FALSE]

moved(s) == lookup = NoGateway \/ lookup # s.last_gw

(* Mutation: a network change is noted and the old mapping kept.           *)
gateway_and_self_ip_keeps(s) ==
  IF moved(s) THEN [s EXCEPT !.last_gw = lookup] ELSE s

gateway_and_self_ip(s) ==
  IF moved(s) THEN [invalidate_mappings(s) EXCEPT !.last_gw = lookup] ELSE s

(* The release that goes with it.                                          *)
moved_release(s) == IF moved(s) THEN release_mapping(s.mapping) ELSE {}

(* A log line pushed into the sink for the pump to forward.                *)
Logs == conn' = [conn EXCEPT !.lines = TRUE]

maybe_start(s) == ~s.closed /\ ~s.running_create

(* get_cached_mapping_or_start_creating_one: does it start an attempt?     *)
starts(s) == s.mapping.age # "fresh" /\ maybe_start(s)

Unspawned == {n \in Attempts : att[n].pc = "unspawned"}
NextAttempt == CHOOSE n \in Unspawned : \A m \in Unspawned : n <= m

----------------------------------------------------------------------------
(* The run.                                                                *)

RunStart ==
  /\ run.pc = "start"
  /\ \/ /\ run.ty \notin {"", "pmp", "pcp", "upnp"}
        /\ run' = [run EXCEPT !.pc = "over"]
        /\ UNCHANGED <<conn, st>>
     \/ /\ run.ty \in {"", "pmp", "pcp", "upnp"}
        /\ Logs
        /\ \/ /\ run' = [run EXCEPT !.pc = "closing"]   \* no gateway, or no socket
              /\ UNCHANGED st
           \/ /\ lookup # NoGateway
              /\ run' = [run EXCEPT !.pc = "probing"]
              /\ st' = [st EXCEPT !.hook = TRUE]
  /\ UNCHANGED <<att, lookup, grants, net>>

ProbeSends ==
  /\ run.pc = "probing"
  /\ st' = gateway_and_self_ip(st)
  /\ net' = net \union moved_release(st)
  /\ IF lookup = NoGateway
       THEN run' = [run EXCEPT !.pc = "closing"] /\ Logs
       ELSE run' = [run EXCEPT !.pc = "answering"] /\ UNCHANGED conn
  /\ UNCHANGED <<att, lookup, grants>>

(* The probe ends with whatever answered: NAT-PMP with or without an       *)
(* address, PCP willing or refusing, UPnP or not.  It may also be cut off, *)
(* by the outer deadline or a socket error, after some answers.            *)
ProbeEnds ==
  /\ run.pc = "answering"
  /\ \E pmp \in {"silent", "address", "no_address"},
        pcp \in {"silent", "ok", "refused"}, upnp \in BOOLEAN, cut \in BOOLEAN :
       /\ disable_pmp => pmp = "silent"
       /\ disable_pcp => pcp = "silent"
       /\ disable_upnp => ~upnp
       /\ st' = [st EXCEPT !.pmp = (pmp = "address"), !.pcp = (pcp # "silent"),
                           !.last_probe = IF cut THEN @ ELSE "recent"]
       /\ LET empty == pmp = "silent" /\ pcp # "ok" /\ ~upnp
          IN  run' = [run EXCEPT !.pc = IF cut \/ empty THEN "closing" ELSE "asking"]
  /\ Logs
  /\ UNCHANGED <<att, lookup, grants, net>>

RunAsks ==
  /\ run.pc = "asking"
  /\ run' = [run EXCEPT !.pc = "waiting"]
  /\ IF starts(st)
       THEN /\ st' = [st EXCEPT !.running_create = TRUE]
            /\ att' = [att EXCEPT ![NextAttempt].pc = "spawned"]
       ELSE UNCHANGED <<st, att>>
  /\ Logs
  /\ UNCHANGED <<lookup, grants, net>>

RunHearsDone ==
  /\ run.pc = "waiting" /\ run.done
  /\ run' = [run EXCEPT !.pc = "closing"]
  /\ UNCHANGED <<conn, st, att, lookup, grants, net>>

(* Mutation: the run waits for the callback alone.                         *)
RunWaitsForCallback ==
  /\ run.pc = "waiting" /\ run.done
  /\ run' = [run EXCEPT !.pc = "closing"]
  /\ UNCHANGED <<conn, st, att, lookup, grants, net>>

RunDeadline ==
  /\ run.pc = "waiting"
  /\ run' = [run EXCEPT !.pc = "closing"]
  /\ Logs
  /\ UNCHANGED <<st, att, lookup, grants, net>>

(* The pump has returned, and its guard aborts the run at an await.        *)
RunAborted ==
  /\ ~conn.pump
  /\ run.pc \in {"probing", "answering", "waiting"}
  /\ run' = [run EXCEPT !.pc = "closing"]
  /\ UNCHANGED <<conn, st, att, lookup, grants, net>>

(* CloseOnDrop, in its two locked sections.                                *)
close(s) == [invalidate_mappings(s) EXCEPT !.closed = TRUE]

CloseState ==
  /\ run.pc = "closing"
  /\ run' = [run EXCEPT !.pc = "dropping_hook"]
  /\ st' = close(st)
  /\ net' = net \union release_mapping(st.mapping)
  /\ UNCHANGED <<conn, att, lookup, grants>>

CloseHook ==
  /\ run.pc = "dropping_hook"
  /\ run' = [run EXCEPT !.pc = "over"]
  /\ st' = [st EXCEPT !.hook = FALSE]
  /\ UNCHANGED <<conn, att, lookup, grants, net>>

RunStep == RunStart \/ ProbeSends \/ ProbeEnds \/ RunAsks \/ RunHearsDone
             \/ RunDeadline \/ RunAborted \/ CloseState \/ CloseHook

----------------------------------------------------------------------------
(* A background attempt: create_or_get_mapping inside maybe_start_mapping. *)

AttemptEnters(n) ==
  /\ att[n].pc = "spawned"
  /\ att' = [att EXCEPT ![n].pc = IF st.closed THEN "failed" ELSE "entered"]
  /\ UNCHANGED <<run, conn, st, lookup, grants, net>>

AttemptLocates(n) ==
  /\ att[n].pc = "entered"
  /\ st' = gateway_and_self_ip(st)
  /\ net' = net \union moved_release(st)
  /\ att' = [att EXCEPT ![n].pc = IF lookup = NoGateway THEN "failed" ELSE "located",
                        ![n].gw = lookup]
  /\ UNCHANGED <<run, conn, lookup, grants>>

(* What the state says to do, read in one locked section.  UPnP can only   *)
(* be discovered, so that way ends with no mapping.                        *)
next_move(s) ==
  CASE s.mapping.age = "fresh" -> "reuse"
    [] s.mapping.age # "fresh" /\ \/ disable_pcp /\ disable_pmp
                                  \/ s.last_probe = "recent" /\ ~s.pmp /\ ~s.pcp -> "upnp"
    [] OTHER -> "ask"

prefer_pcp(s) == ~disable_pcp /\ (disable_pmp \/ (~s.pmp /\ s.pcp))

(* The requests one attempt sends: PCP asks once; NAT-PMP asks for the     *)
(* address too when the probe did not leave it.                            *)
requests(m, address_known) ==
  {datagram("map", m)} \union
    (IF m.kind = "pmp" /\ ~address_known THEN {datagram("address?", m)} ELSE {})

AttemptAsks(n) ==
  LET kind == IF prefer_pcp(st) THEN "pcp" ELSE "pmp"
      m    == [n |-> n, gw |-> att[n].gw, kind |-> kind]
  IN  /\ att[n].pc = "located"
      /\ \/ /\ next_move(st) # "ask"
            /\ att' = [att EXCEPT ![n].pc = IF next_move(st) = "reuse" THEN "stored" ELSE "failed"]
            /\ UNCHANGED net
         \/ /\ next_move(st) = "ask"
            /\ att' = [att EXCEPT ![n].pc = "asked", ![n].kind = kind, ![n].address = st.pmp]
            /\ net' = net \union requests(m, st.pmp)
         \/ /\ next_move(st) = "ask"   \* the bind or the send failed
            /\ att' = [att EXCEPT ![n].pc = "failed"]
            /\ UNCHANGED net
      /\ Logs
      /\ UNCHANGED <<run, st, lookup, grants>>

AttemptTimesOut(n) ==
  /\ att[n].pc = "asked"
  /\ att' = [att EXCEPT ![n].pc = "failed"]
  /\ Logs
  /\ UNCHANGED <<run, st, lookup, grants, net>>

mapping_of(n) == [n |-> n, gw |-> att[n].gw, kind |-> att[n].kind, age |-> "fresh"]

(* Mutation: store_mapping drops what it does not keep.                    *)
stored_drops(s, m) == {}

(* store_mapping: keep it, or give it straight back when close came first. *)
stored(s, m) == IF s.closed THEN s ELSE [s EXCEPT !.mapping = m]

stored_release(s, m) == IF s.closed THEN release_mapping(m) ELSE {}

(* One answer: a refusal ends the attempt; a PCP grant, or the second half *)
(* of a NAT-PMP one, completes it.                                         *)
AttemptReceives(n) ==
  \E d \in net :
    LET address == att[n].address \/ d.op = "address"
        port    == att[n].port \/ d.op = "granted"
        whole   == port /\ (address \/ att[n].kind = "pcp")
    IN  /\ att[n].pc = "asked"
        /\ d.n = n /\ d.op \in {"granted", "address", "refused"}
        /\ net' = (net \ {d}) \union
                    (IF d.op # "refused" /\ whole THEN stored_release(st, mapping_of(n)) ELSE {})
        /\ \/ /\ d.op = "refused"
              /\ att' = [att EXCEPT ![n].pc = "failed"]
              /\ UNCHANGED <<conn, st>>
           \/ /\ d.op # "refused" /\ ~whole
              /\ att' = [att EXCEPT ![n].address = address, ![n].port = port]
              /\ UNCHANGED <<conn, st>>
           \/ /\ d.op # "refused" /\ whole
              /\ att' = [att EXCEPT ![n].address = address, ![n].port = port,
                                    ![n].took = TRUE,
                                    ![n].pc = IF st.closed THEN "failed" ELSE "stored"]
              /\ st' = stored(st, mapping_of(n))
              /\ Logs
        /\ UNCHANGED <<run, lookup, grants>>

(* Mutation: a failed attempt keeps the slot.                              *)
AttemptReturnsLeaky(n) ==
  /\ att[n].pc \in {"failed", "stored"}
  /\ st' = [st EXCEPT !.running_create = (att[n].pc = "failed")]
  /\ att' = [att EXCEPT ![n].pc = IF @ = "failed" THEN "done" ELSE "returned"]
  /\ UNCHANGED <<run, conn, lookup, grants, net>>

AttemptReturns(n) ==
  /\ att[n].pc \in {"failed", "stored"}
  /\ st' = [st EXCEPT !.running_create = FALSE]
  /\ att' = [att EXCEPT ![n].pc = IF @ = "failed" THEN "done" ELSE "returned"]
  /\ UNCHANGED <<run, conn, lookup, grants, net>>

(* Clone the hook out of on_change; it is called after the lock is gone.   *)
TakesHook(n) ==
  /\ att[n].pc = "returned"
  /\ att' = [att EXCEPT ![n].pc = IF st.hook THEN "calling" ELSE "done"]
  /\ UNCHANGED <<run, conn, st, lookup, grants, net>>

CallsHook(n) ==
  /\ att[n].pc = "calling"
  /\ starts(st) => Unspawned # {}
  /\ IF starts(st)
       THEN /\ st' = [st EXCEPT !.running_create = TRUE]
            /\ att' = [att EXCEPT ![n].pc = "done", ![NextAttempt].pc = "spawned"]
       ELSE /\ att' = [att EXCEPT ![n].pc = "done"]
            /\ UNCHANGED st
  /\ run' = [run EXCEPT !.done = @ \/ st.mapping.age \in {"fresh", "renew"}]
  /\ Logs
  /\ UNCHANGED <<lookup, grants, net>>

AttemptStep(n) ==
  AttemptEnters(n) \/ AttemptLocates(n) \/ AttemptAsks(n) \/ AttemptTimesOut(n)
    \/ AttemptReceives(n) \/ AttemptReturns(n) \/ TakesHook(n) \/ CallsHook(n)

----------------------------------------------------------------------------
(* The pump, and the operator who may hang up or stop reading.             *)

HangsUp ==
  /\ conn.pump /\ ~conn.gone
  /\ conn' = [conn EXCEPT !.gone = TRUE]
  /\ UNCHANGED <<run, st, att, lookup, grants, net>>

PumpForwards ==
  /\ conn.pump /\ conn.lines
  /\ conn' = IF conn.gone THEN [conn EXCEPT !.pump = FALSE]
                          ELSE [conn EXCEPT !.lines = FALSE]
  /\ UNCHANGED <<run, st, att, lookup, grants, net>>

PumpEnds ==
  /\ conn.pump /\ ~conn.lines /\ run.pc = "over"
  /\ conn' = [conn EXCEPT !.pump = FALSE]
  /\ UNCHANGED <<run, st, att, lookup, grants, net>>

PumpStep == PumpForwards \/ PumpEnds

----------------------------------------------------------------------------
(* The network and the gateways, as RFC 6886 and RFC 6887 have them: a     *)
(* NAT-PMP mapping is the internal port's, so a new request renews it and  *)
(* any release ends it; a PCP mapping is its nonce's, and a request with   *)
(* another nonce is refused while it stands.                               *)

covers(m, g) == m.gw = g.gw /\ m.kind = g.kind /\ (g.kind = "pcp" => m.n = g.n)

grant(d) == [n |-> d.n, gw |-> d.gw, kind |-> d.kind]

answer(op, d) == [d EXCEPT !.op = op]

GatewayMaps ==
  \E d \in net :
    /\ d.op = "map"
    /\ \/ /\ net' = (net \ {d}) \union {answer("refused", d)}
          /\ UNCHANGED grants
       \/ /\ d.kind = "pcp" => \A g \in grants : g.gw = d.gw /\ g.kind = "pcp" => g.n = d.n
          /\ net' = (net \ {d}) \union {answer("granted", d)}
          /\ grants' = {g \in grants : ~covers(d, g)} \union {grant(d)}
    /\ UNCHANGED <<run, conn, st, att, lookup>>

GatewayTells ==
  \E d \in net :
    /\ d.op = "address?"
    /\ net' = (net \ {d}) \union {answer("address", d)}
    /\ UNCHANGED <<run, conn, st, att, lookup, grants>>

GatewayReleases ==
  \E d \in net :
    /\ d.op = "release"
    /\ grants' = {g \in grants : ~covers(d, g)}
    /\ grants' # grants
    /\ UNCHANGED <<run, conn, st, att, lookup, net>>

GatewayForgets ==
  \E g \in grants :
    /\ grants' = grants \ {g}
    /\ UNCHANGED <<run, conn, st, att, lookup, net>>

NetworkMoves ==
  /\ lookup' \in (Gateways \union {NoGateway}) \ {lookup}
  /\ UNCHANGED <<run, conn, st, att, grants, net>>

(* The held lease passes its renewal point, then its end; the probe is no  *)
(* longer "just now".                                                      *)
TimePasses ==
  /\ \/ /\ st.mapping.age = "fresh"
        /\ st' = [st EXCEPT !.mapping.age = "renew"]
     \/ /\ st.mapping.age = "renew"
        /\ st' = [st EXCEPT !.mapping.age = "expired"]
     \/ /\ st.last_probe = "recent"
        /\ st' = [st EXCEPT !.last_probe = "old"]
  /\ UNCHANGED <<run, conn, att, lookup, grants, net>>

Environment == HangsUp \/ GatewayMaps \/ GatewayTells \/ GatewayReleases
                 \/ GatewayForgets \/ NetworkMoves \/ TimePasses

Next == RunStep \/ PumpStep \/ Environment \/ \E n \in Attempts : AttemptStep(n)

(* The runtime polls every task that is ready, and its timers fire; the    *)
(* network and the operator promise nothing.                               *)
Fairness ==
  /\ WF_vars(RunStep)
  /\ WF_vars(PumpStep)
  /\ \A n \in Attempts : WF_vars(AttemptStep(n))

Spec == Init /\ [][Next]_vars /\ Fairness

----------------------------------------------------------------------------
Pcs == {"unspawned", "spawned", "entered", "located", "asked", "failed",
        "stored", "returned", "calling", "done"}

Mapping == [n : Attempts, gw : Gateways, kind : Kinds, age : {"fresh", "renew", "expired"}]

(* The state of the run, the client, its attempts and the gateways is well *)
(* formed; no mapping is ever built without its protocol and its gateway.  *)
TypeOK ==
  /\ run \in [pc : {"start", "probing", "answering", "asking", "waiting", "closing",
                    "dropping_hook", "over"}, ty : Types, done : BOOLEAN]
  /\ conn \in [pump : BOOLEAN, gone : BOOLEAN, lines : BOOLEAN]
  /\ st \in [closed : BOOLEAN, running_create : BOOLEAN, hook : BOOLEAN,
             last_gw : Gateways \union {NoGateway}, last_probe : {"never", "recent", "old"},
             pmp : BOOLEAN, pcp : BOOLEAN, mapping : Mapping \union {NoMapping}]
  /\ att \in [Attempts -> [pc : Pcs, gw : Gateways \union {NoGateway},
                           kind : Kinds \union {"none"}, address : BOOLEAN,
                           port : BOOLEAN, took : BOOLEAN]]
  /\ lookup \in Gateways \union {NoGateway}
  /\ grants \subseteq [n : Attempts, gw : Gateways, kind : Kinds]
  /\ net \subseteq [op : {"map", "address?", "granted", "address", "refused", "release"},
                    n : Attempts, gw : Gateways, kind : Kinds]

(* A mapping the client was granted and that still exists on the gateway   *)
(* is either the one the client holds or one it has sent a release for     *)
(* that the gateway will honour.  So close, a network change and an attempt*)
(* that finishes after the close leave nothing on the router               *)
(* (store_mapping, invalidate_mappings_locked, release_packet).            *)
GrantsAreAccounted ==
  \A g \in grants : att[g.n].took =>
    \/ covers(st.mapping, g)
    \/ \E d \in net : d.op = "release" /\ covers(d, g)

(* The mapping the client holds came from the gateway it last located: "a  *)
(* mapping from the previous network is worse than none" (State::last_gw). *)
HeldIsFromLastGateway ==
  st.mapping # NoMapping => st.mapping.gw = st.last_gw

(* The slot for a background attempt is taken exactly while one runs: it   *)
(* is never leaked by an attempt that failed, so the client can ask again, *)
(* and two attempts never overlap (running_create).                        *)
SlotMatchesAttempt ==
  LET running == {n \in Attempts : att[n].pc \in
                    {"spawned", "entered", "located", "asked", "failed", "stored"}}
  IN  Cardinality(running) = (IF st.running_create THEN 1 ELSE 0)

(* Every run ends and its connection is closed: by the callback, the       *)
(* deadline, an early return, or the operator hanging up.                  *)
RunFinishes == <>[](run.pc = "over" /\ ~conn.pump)

============================================================================
