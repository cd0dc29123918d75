------------------------------ MODULE Daemon -------------------------------
(* The life of the tailnetd process under its packaged unit: boot, the     *)
(* select over the LocalAPI server, the proxies and the SIGHUP loop, the    *)
(* drain, the teardown and the exit status the service manager acts on      *)
(* (bin/tailnetd.rs, server::serve), the host state an engine leaves when   *)
(* it is killed and the reaper that removes it (hostreap.rs), `--cleanup`,  *)
(* and the proxies' connections (socks5.rs, httpproxy.rs, debugserver.rs).  *)
(* What a bring-up does to the backend is Drivers; here it is an engine     *)
(* that is up or not, and its routes and DNS key on the host.               *)
EXTENDS Naturals, FiniteSets, Launch, Proxies

CONSTANTS
  Conns,        \* LocalAPI connections
  Dials,        \* connections to the proxies and to the debug server
  Launches,     \* command lines and machines, as Launch describes them
  ProxySlots,   \* MAX_CONNECTIONS of a proxy
  MaxStarts,    \* bound: processes the unit starts
  MaxKills,     \* bound: SIGKILLs, and early signals that end the process
  MaxHups       \* bound: SIGHUPs

ASSUME BoundsAssumption ==
  {ProxySlots, MaxStarts, MaxKills, MaxHups} \subseteq Nat

VARIABLES
  stage,       \* where the process is in run(), or what the unit does after it
  starts,      \* number of processes started; also the name of the current one
  status,      \* how the last process ended
  result,      \* what the select! returned: the exit status to come
  launch,      \* the unit's command line
  wants,       \* prefs.want_running, as stored
  tun,         \* prefs.tun_enabled, as stored
  engine,      \* Backend::device is there
  routes,      \* processes whose utun routes are in the host's table
  dns,         \* process that wrote the scutil key, 0 when there is none
  missed,      \* processes whose routes or key the reaper, or the shutdown of
               \* their own engine, was to remove and did not
  sock,        \* process whose listener made the socket file, 0 when absent
  ready,       \* READY=1 was sent
  listening,   \* proxies that are bound
  api,         \* state of each LocalAPI connection
  raising,     \* bring-ups in their handshake: connections, reconnect, sighup
  spawned,     \* the reconnect task runs
  dial,        \* state of each proxy connection
  hup,         \* a SIGHUP waits in its stream
  term,        \* select! arms whose signal stream holds a SIGINT or SIGTERM
  caught,      \* shutdown_signal has replaced their default action
  told,        \* such a signal reached this process
  asked,       \* the LocalAPI shutdown verb was acknowledged
  kills, hups

process == <<stage, starts, status, result, launch>>
host == <<wants, tun, engine, routes, dns, missed>>
serving == <<sock, ready, listening, api, raising, spawned>>
signals == <<hup, caught, term, told, asked, kills, hups>>
vars == <<process, host, serving, dial, signals>>

Asked == DOMAIN launch.listen    \* the listeners the command line asks for

Boot == {"flags", "load", "reap", "auto", "notify", "bind"}
Running == {"serve", "drain"}
Ending == {"close", "exit"}
Alive == stage \in Boot \union Running \union Ending

TypeOK ==
  /\ stage \in Boot \union Running \union Ending \union {"post", "off"}
  /\ starts \in 0..MaxStarts /\ sock \in 0..MaxStarts /\ dns \in 0..MaxStarts
  /\ status \in {"none", "ok", "fail", "killed", "signalled"}
  /\ result \in {"none", "ok", "fail"}
  /\ {wants, tun, engine, ready, spawned, hup, caught, told, asked} \subseteq BOOLEAN
  /\ term \subseteq Asked \union {"serve"}
  /\ routes \subseteq 1..MaxStarts /\ missed \subseteq 1..MaxStarts
  /\ listening \subseteq Asked
  /\ api \in [Conns -> {"none", "busy"}]
  /\ raising \subseteq Conns \union {"reconnect", "sighup"}
  /\ dial \in [Dials -> {"none", "head", "dialing", "tunnel"}]
  /\ kills \in 0..MaxKills /\ hups \in 0..MaxHups

Init ==
  /\ stage = "off" /\ starts = 0 /\ status = "none" /\ result = "none"
  /\ launch \in Launches
  /\ wants \in BOOLEAN /\ tun \in BOOLEAN /\ engine = FALSE
  /\ routes = {} /\ dns = 0 /\ missed = {}
  /\ sock = 0 /\ ready = FALSE /\ listening = {}
  /\ api = [c \in Conns |-> "none"] /\ raising = {} /\ spawned = FALSE
  /\ dial = [d \in Dials |-> "none"]
  /\ hup = FALSE /\ caught = FALSE /\ term = {} /\ told = FALSE /\ asked = FALSE
  /\ kills = 0 /\ hups = 0

----------------------------------------------------------------------------
(* The engine and the host.                                                 *)

(* external: bringing the kernel-TUN data path up programs the routes and   *)
(* the one host-global DNS key; the engine's own teardown reverses both.    *)
EngineUp ==
  /\ engine' = TRUE
  /\ routes' = IF tun THEN routes \union {starts} ELSE routes
  /\ dns' = IF tun THEN starts ELSE dns

(* stop_device: the graceful shutdown may fail or time out, and is skipped  *)
(* while another handle is held; the daemon goes on in either case.  What   *)
(* an earlier engine of this process left, a later one does not remove.     *)
EngineDown ==
  /\ engine' = FALSE
  /\ missed' \in {missed} \union IF engine /\ tun THEN {missed \union {starts}} ELSE {}
  /\ routes' \in {routes \ {starts}} \union IF starts \in missed' THEN {routes} ELSE {}
  /\ dns' \in {IF engine /\ tun THEN 0 ELSE dns} \union IF starts \in missed' THEN {dns} ELSE {}

(* external: the last handle of an engine that stop_device let go is        *)
(* dropped, and the engine undoes what it did: its routes, and the one key, *)
(* whoever wrote it last.                                                   *)
HandleDropped ==
  /\ Alive /\ starts \in missed
  /\ dns' = 0
  /\ routes' \in {routes} \union IF engine THEN {} ELSE {routes \ {starts}}
  /\ UNCHANGED <<process, wants, tun, engine, missed, serving, dial, signals>>

(* is_interface_scoped_utun_route and stale_utun_routes: a static utun      *)
(* route whose interface is gone. Only the current process has one.         *)
stale_utun_routes == IF engine THEN routes \ {starts} ELSE routes

(* delete_route and run_scutil may fail; every step is best effort.         *)
reap_stale_host_state ==
  \/ /\ missed' = (routes \union {dns}) \ {0}    \* TAILNETD_NO_REAP, not root
     /\ UNCHANGED <<routes, dns>>
  \/ \E left \in SUBSET stale_utun_routes, key \in {0, dns} :
       /\ routes' = (routes \ stale_utun_routes) \union left
       /\ dns' = key
       /\ missed' = (left \union {key}) \ {0}

----------------------------------------------------------------------------
(* Boot: main and the first half of run.                                    *)

StartProcess ==
  /\ starts < MaxStarts
  /\ stage' = "flags" /\ starts' = starts + 1
  /\ status' = "none" /\ result' = "none" /\ ready' = FALSE
  /\ caught' = FALSE /\ told' = FALSE /\ asked' = FALSE
  /\ UNCHANGED <<launch, host, sock, listening, api, raising, spawned, dial, hup,
                 term, kills, hups>>

(* The process is over and the kernel takes the listeners, the tasks and    *)
(* the connections with it. The socket file and the host state stay.        *)
Ends(how) ==
  /\ stage' = "post" /\ status' = how
  /\ engine' = FALSE /\ listening' = {} /\ raising' = {} /\ spawned' = FALSE
  /\ api' = [c \in Conns |-> "none"] /\ dial' = [d \in Dials |-> "none"]
  /\ hup' = FALSE /\ term' = {}
  /\ UNCHANGED <<launch, starts, result, wants, tun, routes, dns, missed, sock, ready,
                 caught, told, asked>>

Continues(next) ==
  /\ stage' = next
  /\ UNCHANGED <<launch, starts, status, result, dial, signals>>

Fails == Ends("fail") /\ UNCHANGED <<kills, hups>>

(* Launch's first refusals. Bad environment files, a bad policy file and    *)
(* failed hardening are only reported. The last thing set up is the SIGHUP  *)
(* stream.                                                                  *)
CheckFlags ==
  /\ stage = "flags"
  /\ IF RefusedAtOnce(launch) THEN Fails
     ELSE Continues("load") /\ UNCHANGED <<host, serving>>

apply_tun_flag == tun' = IF launch.tun = <<>> THEN tun ELSE resolve_with(launch) = "tun"

(* State directory, listen addresses, Backend::load, PORT, --config, --tun: *)
(* each error is returned from run before the engine exists; a --config     *)
(* document may say whether the node is to be up.                           *)
LoadState ==
  /\ stage = "load"
  /\ \/ Fails
     \/ /\ ~RefusedLater(launch)
        /\ wants' \in IF ConfigFlagLoad(launch) = "alpha0" THEN BOOLEAN ELSE {wants}
        /\ apply_tun_flag
        /\ Continues("reap") /\ UNCHANGED <<engine, routes, dns, missed, serving>>

Reap ==
  /\ stage = "reap"
  /\ reap_stale_host_state
  /\ Continues("auto") /\ UNCHANGED <<wants, tun, engine, serving>>

auto_start_then_reap ==                    \* mutant: the reaper runs too late
  /\ stage = "auto"
  /\ \/ UNCHANGED host
     \/ /\ wants /\ tun /\ engine' = TRUE /\ routes' = {starts} /\ dns' = 0
        /\ UNCHANGED <<wants, tun, missed>>
  /\ Continues("notify") /\ UNCHANGED serving

(* auto_start brings the node up only if the stored intent is up, with the  *)
(* handshake inside the boot; its failure is only logged.                   *)
auto_start ==
  /\ stage = "auto"
  /\ \/ UNCHANGED host
     \/ wants /\ EngineUp /\ UNCHANGED <<wants, tun, missed>>
  /\ Continues("notify") /\ UNCHANGED serving

(* READY=1, then the captive-portal and the reconnect task are spawned.     *)
sd_notify_ready ==
  /\ stage = "notify"
  /\ ready' = TRUE /\ spawned' = TRUE
  /\ Continues("bind")
  /\ UNCHANGED <<host, sock, listening, api, raising>>

----------------------------------------------------------------------------
(* The select!: serve, the proxies and the SIGHUP loop.                     *)

Selecting == stage \in Running \union {"bind"}
Busy == {c \in Conns : api[c] = "busy"}

(* The first arm that returns ends the select!, and the futures of the      *)
(* others are dropped where they are, their connections with them.          *)
SelectEnds(res) ==
  /\ stage' = "close" /\ result' = res
  /\ api' = [c \in Conns |-> "none"] /\ dial' = [d \in Dials |-> "none"]
  /\ raising' = raising \intersect {"reconnect"} /\ listening' = {}
  /\ UNCHANGED <<launch, starts, status, host, ready, spawned, signals>>

(* serve: a stale socket file is removed first, so only the directory or    *)
(* the bind itself can fail.                                                *)
BindSocket ==
  /\ stage = "bind"
  /\ \/ SelectEnds("fail") /\ UNCHANGED sock
     \/ /\ sock' = starts /\ caught' = TRUE /\ stage' = "serve"
        /\ UNCHANGED <<launch, starts, status, result, dial, hup, term, told, asked, kills, hups>>
        /\ UNCHANGED <<host, ready, listening, api, raising, spawned>>

(* A proxy that was asked for and cannot bind ends the daemon.              *)
BindProxy(p) ==
  /\ Selecting /\ p \notin listening
  /\ \/ SelectEnds("fail") /\ UNCHANGED sock
     \/ /\ listening' = listening \union {p} /\ caught' = TRUE
        /\ UNCHANGED <<process, host, sock, ready, api, raising, spawned, dial, hup, term,
                       told, asked, kills, hups>>

ServeStopsQuietly ==                       \* mutant: the verb exits with 0
  /\ stage = "serve"
  /\ "serve" \in term \/ asked
  /\ result' = "ok" /\ stage' = "drain"
  /\ UNCHANGED <<launch, starts, status, host, serving, dial, signals>>

(* The accept loop leaves on its own signal stream or on the verb's notify. *)
ServeStops ==
  /\ stage = "serve"
  /\ \/ "serve" \in term /\ result' = "ok"
     \/ asked /\ result' = "fail"
  /\ stage' = "drain"
  /\ UNCHANGED <<launch, starts, status, host, serving, dial, signals>>

(* A proxy's own stream ends its arm at once, whatever serve is doing.      *)
ProxyStops(p) ==
  /\ Selecting /\ p \in term \intersect listening
  /\ SelectEnds("ok") /\ UNCHANGED sock

DrainEnds ==
  /\ SelectEnds(result)
  /\ sock' = 0

DrainDone == stage = "drain" /\ Busy = {} /\ DrainEnds

DrainWaits == stage = "drain" /\ Busy = {} /\ DrainEnds   \* mutant: no deadline

DrainTimesOut == stage = "drain" /\ Busy # {} /\ DrainEnds

TeardownOnSuccess ==                       \* mutant: the error returns first
  /\ stage = "close" /\ stage' = "exit"
  /\ spawned' = FALSE /\ raising' = {}
  /\ IF result = "ok" THEN EngineDown ELSE UNCHANGED <<engine, routes, dns, missed>>
  /\ UNCHANGED <<launch, starts, status, result, wants, tun, sock, ready, listening, api, dial,
                 signals>>

(* The tasks that can bring the node up are aborted before the backend is   *)
(* shut down, so none of them can undo it.                                  *)
Teardown ==
  /\ stage = "close" /\ stage' = "exit"
  /\ spawned' = FALSE /\ raising' = {}
  /\ EngineDown
  /\ UNCHANGED <<launch, starts, status, result, wants, tun, sock, ready, listening, api, dial,
                 signals>>

(* serve_result?: StoppedByLocalApi and a bind error are a failed exit.     *)
Exit == stage = "exit" /\ Ends(result) /\ UNCHANGED <<kills, hups>>

----------------------------------------------------------------------------
(* What the tasks, the clients and the proxies' users do meanwhile.         *)

Accept(c) ==
  /\ stage = "serve" /\ api[c] = "none"
  /\ api' = [api EXCEPT ![c] = "busy"]
  /\ UNCHANGED <<process, host, sock, ready, listening, raising, spawned, dial, signals>>

(* A handler that answers; a bring-up answers when it has finished.         *)
Handle(c) ==
  /\ stage \in Running /\ c \in Busy \ raising
  /\ api' = [api EXCEPT ![c] = "none"]
  /\ \/ UNCHANGED <<host, asked>>
     \/ asked' = TRUE /\ UNCHANGED host
     \/ wants' = FALSE /\ EngineDown /\ UNCHANGED <<tun, asked>>
  /\ UNCHANGED <<process, sock, ready, listening, raising, spawned, dial, hup, caught,
                 term, told, kills, hups>>

(* begin_up under the lock: the intent is stored and the engine replaced.   *)
RaiseBegins(r) ==
  /\ raising' = raising \union {r}
  /\ wants' = TRUE /\ EngineDown /\ UNCHANGED tun

ClientRaises(c) ==
  /\ stage \in Running /\ c \in Busy \ raising
  /\ RaiseBegins(c)
  /\ UNCHANGED <<process, sock, ready, listening, api, spawned, dial, signals>>

(* reconnect_loop: an armed timer brings a node that is down back up.       *)
ReconnectRaises ==
  /\ spawned /\ ~wants /\ "reconnect" \notin raising
  /\ RaiseBegins("reconnect")
  /\ UNCHANGED <<process, sock, ready, listening, api, spawned, dial, signals>>

(* sighup_reload_loop: one reload at a time; reconcile_on_reload retries    *)
(* the bring-up only for a node that should be up and is not.               *)
HupReload ==
  /\ Selecting /\ hup /\ "sighup" \notin raising
  /\ hup' = FALSE
  /\ \/ UNCHANGED <<host, raising>>
     \/ wants /\ ~engine /\ RaiseBegins("sighup")
  /\ UNCHANGED <<process, sock, ready, listening, api, spawned, dial, caught, term, told,
                 asked, kills, hups>>

(* finish_up: the handshake succeeds, fails, or was superseded by a down.   *)
RaiseFinishes(r) ==
  /\ r \in raising
  /\ raising' = raising \ {r}
  /\ \/ UNCHANGED host
     \/ wants /\ EngineUp /\ UNCHANGED <<wants, tun, missed>>
  /\ UNCHANGED <<process, sock, ready, listening, api, spawned, dial, signals>>

Open == {d \in Dials : dial[d] # "none"}

(* Past the limit a connection is dropped as soon as it is accepted.        *)
DialAccept(d) ==
  /\ Selecting /\ listening # {} /\ dial[d] = "none"
  /\ Cardinality(Open) < ProxySlots
  /\ dial' = [dial EXCEPT ![d] = "head"]
  /\ UNCHANGED <<process, host, serving, signals>>

(* The request head is read: refused, answered, or dialled over the engine. *)
DialHead(d) ==
  /\ dial[d] = "head"
  /\ \E p \in listening : \E reply \in Replies(p, engine) :
       dial' = [dial EXCEPT ![d] = IF reply = "dial" THEN "dialing" ELSE "none"]
  /\ UNCHANGED <<process, host, serving, signals>>

DialConnects(d) ==
  /\ dial[d] = "dialing"
  /\ \E to \in {"none", "tunnel"} : dial' = [dial EXCEPT ![d] = to]
  /\ UNCHANGED <<process, host, serving, signals>>

TunnelCloses(d) ==
  /\ dial[d] = "tunnel"
  /\ dial' = [dial EXCEPT ![d] = "none"]
  /\ UNCHANGED <<process, host, serving, signals>>

(* HANDSHAKE_TIMEOUT, REQUEST_TIMEOUT: head and dial are bounded together,  *)
(* the tunnel is not.                                                       *)
HandshakeTimesOut(d) ==
  /\ dial[d] \in {"head", "dialing"}
  /\ dial' = [dial EXCEPT ![d] = "none"]
  /\ UNCHANGED <<process, host, serving, signals>>

----------------------------------------------------------------------------
(* Signals, the unit and the operator.                                      *)

Kill ==
  /\ Alive /\ kills < MaxKills /\ kills' = kills + 1
  /\ Ends("killed") /\ UNCHANGED hups

(* shutdown_signal installs its handlers when its arm is first polled past  *)
(* the bind: before that SIGINT and SIGTERM end the process where it is.    *)
TermArms == listening \union {a \in {"serve"} : stage = "serve"}

Term ==
  /\ Alive /\ ~told
  /\ \/ /\ caught /\ told' = TRUE
        /\ term' = IF Selecting THEN TermArms ELSE term
        /\ UNCHANGED <<process, host, serving, dial, hup, caught, asked, kills, hups>>
     \/ /\ ~caught /\ kills < MaxKills /\ kills' = kills + 1
        /\ Ends("signalled") /\ UNCHANGED hups

Hup ==
  /\ Alive /\ hups < MaxHups /\ hups' = hups + 1
  /\ \/ /\ stage # "flags" /\ hup' = TRUE
        /\ UNCHANGED <<process, host, serving, dial, caught, term, told, asked, kills>>
     \/ /\ stage = "flags" /\ Ends("signalled") /\ UNCHANGED kills

(* external: ExecStopPost=tailnetd --cleanup, run with no daemon alive;     *)
(* run_cleanup then finds a socket nobody answers and removes it.           *)
PostCleanup ==
  /\ stage = "post"
  /\ stage' = "off" /\ sock' = 0
  /\ UNCHANGED <<launch, starts, status, result, host, ready, listening, api, raising, spawned, dial,
                 signals>>

(* external: Restart=on-failure; death by SIGTERM or SIGHUP is not one.     *)
Restart == stage = "off" /\ status \in {"fail", "killed"} /\ StartProcess

OperatorStarts == stage = "off" /\ status \notin {"fail", "killed"} /\ StartProcess

Daemon ==
  \/ CheckFlags \/ LoadState \/ Reap \/ auto_start \/ sd_notify_ready
  \/ BindSocket \/ ServeStops \/ DrainDone \/ DrainTimesOut \/ Teardown \/ Exit
  \/ \E p \in Asked : BindProxy(p) \/ ProxyStops(p)

Next ==
  \/ Daemon
  \/ \E c \in Conns : Accept(c) \/ Handle(c) \/ ClientRaises(c)
  \/ ReconnectRaises \/ HupReload
  \/ \E r \in Conns \union {"reconnect", "sighup"} : RaiseFinishes(r)
  \/ \E d \in Dials : \/ DialAccept(d) \/ DialHead(d) \/ DialConnects(d)
                      \/ TunnelCloses(d) \/ HandshakeTimesOut(d)
  \/ HandleDropped \/ Kill \/ Term \/ Hup
  \/ PostCleanup \/ Restart \/ OperatorStarts

Spec == Init /\ [][Next]_vars

(* The daemon's own steps and the unit's are taken; clients, signals and    *)
(* the far end of a dial promise nothing.                                   *)
Fairness ==
  /\ WF_vars(Daemon) /\ WF_vars(HupReload)
  /\ WF_vars(RaiseFinishes("sighup"))
  /\ \A d \in Dials : WF_vars(HandshakeTimesOut(d))
  /\ WF_vars(PostCleanup) /\ WF_vars(Restart)

FairSpec == Spec /\ Fairness

----------------------------------------------------------------------------
(* A daemon that exits, with or without an error, leaves no route and no    *)
(* resolver of its own behind, unless a shutdown of its engine failed or    *)
(* was skipped: the teardown comes before the error is returned, and no     *)
(* task can bring the node up again after it (tailnetd.rs:771-789,          *)
(* stop_device).                                                            *)
LeavesNothing ==
  stage \in {"post", "off"} /\ status \in {"ok", "fail"} =>
    \/ starts \notin routes /\ (starts > 0 => dns # starts)
    \/ starts \in missed

(* While the engine runs its routes are on the host, and so is its DNS key  *)
(* unless an engine before it was not shut down; nothing of an earlier      *)
(* process is left but what the reaper failed to remove: it runs before the *)
(* engine is up, since it takes the key without looking whose it is         *)
(* (tailnetd.rs:683, hostreap.rs:264).                                      *)
HostIsOurs ==
  engine => /\ tun => starts \in routes /\ (dns = starts \/ starts \in missed)
            /\ routes \subseteq missed \union {starts}

(* A stop the LocalAPI asked for is a restart: unless a signal says         *)
(* otherwise the unit starts the next process (server.rs:312, tailnetd.rs:  *)
(* 789, Restart=on-failure).                                                *)
VerbRestarts ==
  \A n \in 1..(MaxStarts - 1) : asked /\ starts = n ~> starts > n \/ told

(* SIGTERM stops a serving daemon, wedged handlers or not (DRAIN_TIMEOUT).  *)
TermEnds == told ~> ~Alive
============================================================================
