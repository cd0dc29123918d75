-------------------------------- MODULE Tnet --------------------------------
(***************************************************************************)
(* One invocation of the command-line client (bin/tnet.rs) against a       *)
(* daemon that may refuse, or die before or after it has done what it was  *)
(* asked, run by a user who may only be allowed to read and may interrupt  *)
(* it anywhere.  Steps are those of the scripts; a fact that a step asks   *)
(* for is found out there and stays as it is.                              *)
(***************************************************************************)
EXTENDS Naturals, Responses, NodeCommands, ToolCommands, HostCommands

CONSTANTS
  Invoked,      \* the subcommands that are run
  MaxRounds,    \* bound on the rounds of a loop
  MaxDeaths     \* bound on the daemon's deaths

VARIABLES
  inv,      \* the invocation: its command, arguments, place, what it found out, how it ended
  wire,     \* its round trip
  daemon,   \* what the daemon has done, and whether it lives
  host      \* what the invocation did outside the daemon

vars == <<inv, wire, daemon, host>>

(* One entry of a table, and a table laid over another.                    *)
d :> e == [x \in {d} |-> e]
Overlaid(f, g) == [x \in DOMAIN f \union DOMAIN g |-> IF x \in DOMAIN f THEN f[x] ELSE g[x]]
f @@ g == Overlaid(f, g)

(* main: the subcommands and the flags that change what they do.           *)
NodeTable ==
  "up" :> [script |-> run_up, args |-> UpArguments] @@
  "login" :> [script |-> run_login, args |-> LoginArguments] @@
  "set" :> [script |-> run_set, args |-> SetArguments] @@
  "down" :> [script |-> run_down, args |-> DownArguments] @@
  "logout" :> [script |-> run_logout, args |-> {}] @@
  "reload-config" :> [script |-> run_reload_config, args |-> {}] @@
  "shutdown" :> [script |-> run_shutdown, args |-> {}] @@
  "bugreport" :> [script |-> run_bugreport, args |-> BugreportArguments] @@
  "status" :> [script |-> run_status, args |-> StatusArguments] @@
  "switch" :> [script |-> run_switch, args |-> SwitchArguments] @@
  "version" :> [script |-> run_version, args |-> VersionArguments] @@
  "get" :> [script |-> run_get, args |-> {}] @@
  "appc-routes" :> [script |-> run_appc_routes, args |-> {}] @@
  "whoami" :> [script |-> run_whoami, args |-> {}] @@
  "wait" :> [script |-> run_wait, args |-> {}]

ToolTable ==
  "debug capture" :> [script |-> run_debug_capture, args |-> {}] @@
  "debug prefs" :> [script |-> run_debug_prefs, args |-> {}] @@
  "debug rebind" :> [script |-> run_debug_rebind, args |-> {}] @@
  "debug restun" :> [script |-> run_debug_restun, args |-> {}] @@
  "debug check-ip-forwarding" :> [script |-> run_check_ip_forwarding, args |-> {}] @@
  "debug check-prefs" :> [script |-> run_check_prefs, args |-> {}] @@
  "debug watch-ipn" :> [script |-> run_debug_watch_ipn, args |-> {}] @@
  "debug local" :> [script |-> run_debug_local, args |-> {}] @@
  "debug via" :> [script |-> run_debug_via, args |-> {}] @@
  "debug resolve" :> [script |-> run_debug_resolve, args |-> {}] @@
  "debug portmap" :> [script |-> run_debug_portmap, args |-> {}] @@
  "debug statedir" :> [script |-> run_debug_statedir, args |-> DebugArguments] @@
  "ip" :> [script |-> run_ip, args |-> IpArguments] @@
  "ping" :> [script |-> run_ping, args |-> {}] @@
  "metrics" :> [script |-> run_metrics, args |-> MetricsArguments] @@
  "whois" :> [script |-> run_whois, args |-> {}] @@
  "id-token" :> [script |-> run_id_token, args |-> {}] @@
  "dns status" :> [script |-> run_dns_status, args |-> {}] @@
  "dns query" :> [script |-> run_dns_query, args |-> {}] @@
  "netcheck" :> [script |-> run_netcheck, args |-> NetcheckArguments] @@
  "syspolicy list" :> [script |-> run_syspolicy_list, args |-> {}] @@
  "syspolicy reload" :> [script |-> run_syspolicy_reload, args |-> {}] @@
  "service list" :> [script |-> run_service_list, args |-> {}] @@
  "exit-node list" :> [script |-> run_exit_node_list, args |-> {}] @@
  "exit-node suggest" :> [script |-> run_exit_node_suggest, args |-> {}] @@
  "cert" :> [script |-> run_cert, args |-> CertArguments] @@
  "lock status" :> [script |-> run_lock_status, args |-> {}] @@
  "lock log" :> [script |-> run_lock_log, args |-> {}] @@
  "lock sign" :> [script |-> run_lock_sign, args |-> {}] @@
  "lock disable" :> [script |-> run_lock_disable, args |-> {}] @@
  "lock disablement-kdf" :> [script |-> run_lock_disablement_kdf, args |-> {}] @@
  "lock init" :> [script |-> run_lock_init, args |-> LockArguments]

HostTable ==
  "file list" :> [script |-> run_file_list, args |-> {}] @@
  "file get" :> [script |-> run_file_get, args |-> FileArguments] @@
  "file cp" :> [script |-> run_file_cp, args |-> FileArguments] @@
  "update" :> [script |-> run_update, args |-> UpdateArguments] @@
  "install" :> [script |-> run_install, args |-> {}] @@
  "uninstall" :> [script |-> run_uninstall, args |-> {}] @@
  "web" :> [script |-> run_web, args |-> WebArguments] @@
  "nc" :> [script |-> run_nc, args |-> {}] @@
  "ssh" :> [script |-> run_ssh, args |-> {}] @@
  "serve status" :> [script |-> run_serve_status, args |-> ServeFlags] @@
  "serve reset" :> [script |-> run_serve_reset, args |-> {}] @@
  "serve" :> [script |-> run_serve_v2, args |-> ServeFlags] @@
  "serve verb" :> [script |-> run_serve, args |-> ServeArguments] @@
  "funnel" :> [script |-> run_serve_v2, args |-> ServeFlags] @@
  "funnel toggle" :> [script |-> run_funnel_toggle, args |-> {}] @@
  "configure sysext" :> [script |-> run_configure_sysext, args |-> {}] @@
  "configure mac-vpn" :> [script |-> run_configure_mac_vpn, args |-> {}] @@
  "configure kubeconfig" :> [script |-> run_configure_kubeconfig, args |-> KubeconfigArguments]

Table == NodeTable @@ ToolTable @@ HostTable

ASSUME TnetAssumption == Invoked \subseteq DOMAIN Table

Idle == [req |-> "none", stage |-> "none", reply |-> "none"]

(* logged_in and changed are what the accidental-revert guard looks at.    *)
Init ==
  /\ \E command \in Invoked : \E args \in SUBSET Table[command].args :
       inv = [cmd |-> command, args |-> args, pc |-> 1, known |-> <<>>,
              told |-> FALSE, had_error |-> FALSE, rounds |-> 0, end |-> "running"]
  /\ wire = Idle
  /\ \E access \in {"ReadWrite", "ReadOnly"}, logged_in, changed \in BOOLEAN :
       daemon = [up |-> TRUE, access |-> access, logged_in |-> logged_in,
                 changed |-> changed, applied |-> <<>>, deaths |-> 0]
  /\ host = {}

Script == Table[inv.cmd].script
Current == Script[inv.pc]

(* Facts that the daemon's last answer tells are false without one.        *)
Answered == {"web client is on", "registration failed", "a later frame is an error"}

(* What a fact may turn out to be, here and now.                           *)
Outcomes(fact) ==
  IF fact = "always" THEN {TRUE}
  ELSE IF fact = "funnel" THEN {inv.cmd = "funnel"}
  ELSE IF fact \in Table[inv.cmd].args THEN {(fact \in inv.args)}
  ELSE IF fact = "a file failed" THEN {inv.had_error}
  ELSE IF fact \in DOMAIN inv.known THEN {inv.known[fact]}
  ELSE IF fact \in Answered /\ ~inv.told THEN {FALSE}
  ELSE BOOLEAN

Asked(step) ==
  {guard[1] : guard \in step.when}
    \union (IF step.op \in {"refuse", "return", "fail", "again"} THEN {step.arg} ELSE {})

(* The step is taken with what its facts turn out to be.                   *)
Found(values) ==
  /\ DOMAIN values = Asked(Current)
  /\ \A fact \in DOMAIN values : values[fact] \in Outcomes(fact)

Valuations == [Asked(Current) -> BOOLEAN]
Applies(values) == \A guard \in Current.when : values[guard[1]] = guard[2]

Running == inv.end = "running" /\ wire.stage = "none"
AtStep == Running /\ inv.pc <= Len(Script)

Learns(values) == values @@ inv.known

Goes(pc, values) == inv' = [inv EXCEPT !.pc = pc, !.known = Learns(values)]
Ends(how, values) == inv' = [inv EXCEPT !.end = how, !.known = Learns(values)]

(* A step whose condition does not hold is passed over.                    *)
PassesOver ==
  /\ AtStep
  /\ \E values \in Valuations :
       /\ Found(values)
       /\ ~Applies(values)
       /\ Goes(inv.pc + 1, values)
  /\ UNCHANGED <<wire, daemon, host>>

(* A refusal, a failure or an early end, if the fact holds.                *)
Decides ==
  /\ AtStep
  /\ Current.op \in {"refuse", "return", "fail"}
  /\ \E values \in Valuations :
       /\ Found(values)
       /\ Applies(values)
       /\ IF values[Current.arg]
            THEN Ends(CASE Current.op = "refuse" -> "refused"
                        [] Current.op = "return" -> "ok"
                        [] Current.op = "fail" -> "failed", values)
            ELSE Goes(inv.pc + 1, values)
  /\ UNCHANGED <<wire, daemon, host>>

(* present_risk_to_user: anything but a yes is a no.                       *)
present_risk_to_user ==
  /\ AtStep
  /\ Current.op = "confirm"
  /\ \E values \in Valuations :
       /\ Found(values)
       /\ Applies(values)
       /\ Ends("refused", values) \/ Goes(inv.pc + 1, values)
  /\ UNCHANGED <<wire, daemon, host>>

(* A loop goes round while its fact holds; what its body found out is      *)
(* asked again.                                                            *)
GoesRound ==
  /\ AtStep
  /\ Current.op = "again"
  /\ \E values \in Valuations :
       /\ Found(values)
       /\ Applies(values)
       /\ IF values[Current.arg] /\ inv.rounds < MaxRounds
            THEN LET body == inv.pc - Current.back .. inv.pc
                     forgotten == UNION {Asked(Script[i]) : i \in body}
                                    \ {guard[1] : guard \in Current.when}
                     known == Learns(values)
                 IN inv' = [inv EXCEPT !.pc = @ - Current.back, !.rounds = @ + 1,
                              !.known = [f \in DOMAIN known \ forgotten |-> known[f]]]
            ELSE Goes(inv.pc + 1, values)
  /\ UNCHANGED <<wire, daemon, host>>

(* Something on the host; it may fail.                                     *)
ActsOnHost ==
  /\ AtStep
  /\ Current.op = "effect"
  /\ \E values \in Valuations :
       /\ Found(values)
       /\ Applies(values)
       /\ \/ Ends("failed", values) /\ UNCHANGED host
          \/ Goes(inv.pc + 1, values) /\ host' = host \union {Current.arg}
  /\ UNCHANGED <<wire, daemon>>

(* round_trip: connect, write one line, read one line.                     *)
Sends ==
  /\ AtStep
  /\ Current.op \in {"ask", "try", "tolerate", "stream"}
  /\ \E values \in Valuations :
       /\ Found(values)
       /\ Applies(values)
       /\ Goes(inv.pc, values)
  /\ wire' = [req |-> Current.arg, reply |-> "none",
              stage |-> IF daemon.up THEN "sent" ELSE "unreachable"]
  /\ UNCHANGED <<daemon, host>>

(* up_revert_guard: a login mentions at most its server.                   *)
Reverts ==
  /\ wire.req = "Up"
  /\ daemon.logged_in /\ daemon.changed
  /\ inv.cmd = "login" => "login server named" \in inv.args

(* What the daemon does with a request, and whether it answers or refuses. *)
Handles ==
  /\ wire.stage = "sent"
  /\ daemon.up
  /\ \/ /\ wire' = [wire EXCEPT !.stage = "answered", !.reply = "Error"]
        /\ UNCHANGED daemon
     \/ /\ authorized(wire.req, daemon.access)
        /\ \E reverts \in IF Reverts THEN BOOLEAN ELSE {FALSE} :
             /\ wire' = [wire EXCEPT !.stage = "answered",
                           !.reply = Response(wire.req, reverts, inv.cmd = "debug watch-ipn")]
             /\ daemon' =
                  IF reverts \/ ~requires_write(wire.req) THEN daemon
                  ELSE [daemon EXCEPT
                          !.applied = Append(@, wire.req),
                          !.logged_in = (@ /\ wire.req # "SwitchToEmptyProfile") \/ wire.req = "Up",
                          !.changed = @ /\ wire.req # "SwitchToEmptyProfile"]
  /\ UNCHANGED <<inv, host>>

(* The daemon dies with what it had not answered, or had not yet done.     *)
Dies ==
  /\ daemon.up
  /\ daemon.deaths < MaxDeaths
  /\ daemon' = [daemon EXCEPT !.up = FALSE, !.deaths = @ + 1]
  /\ wire' = IF wire.stage \in {"sent", "answered"} THEN [wire EXCEPT !.stage = "lost"] ELSE wire
  /\ UNCHANGED <<inv, host>>

Restarts ==
  /\ ~daemon.up
  /\ daemon' = [daemon EXCEPT !.up = TRUE]
  /\ UNCHANGED <<inv, wire, host>>

(* The answer arrives.  One of another kind than the command expects is    *)
(* not understood; an error that is survived is remembered.                *)
Receives ==
  /\ inv.end = "running"
  /\ wire.stage = "answered"
  /\ wire' = Idle
  /\ LET understood == wire.reply \in Expects(inv.cmd, wire.req)
         error == wire.reply = "Error"
         moves == inv' = [inv EXCEPT !.pc = @ + 1, !.told = understood,
                            !.had_error = @ \/ (error /\ Current.op = "tolerate")]
     IN CASE wire.reply = "RevertGuard" /\ understood -> Ends("failed", <<>>)
          [] understood /\ wire.reply # "RevertGuard" -> moves
          [] ~understood /\ Current.op = "try" -> moves
          [] error /\ Current.op = "tolerate" -> moves
          [] error /\ Current.op \in {"ask", "stream"} -> Ends("failed", <<>>)
          [] ~understood /\ ~error /\ Current.op = "stream" -> moves
          [] ~understood /\ ~error /\ Current.op \in {"ask", "tolerate"} -> Ends("confused", <<>>)
  /\ UNCHANGED <<daemon, host>>

(* Mutant of Loses: an empty line is taken for an answer.                  *)
LosesQuietly ==
  /\ inv.end = "running"
  /\ wire.stage \in {"lost", "unreachable"}
  /\ wire' = Idle
  /\ inv' = [inv EXCEPT !.pc = @ + 1, !.told = FALSE]
  /\ UNCHANGED <<daemon, host>>

(* Or the connection ends without one, or could not be made.  To a stream  *)
(* that has begun its end is the end of the run, unless it cannot be read. *)
Loses ==
  /\ inv.end = "running"
  /\ wire.stage \in {"lost", "unreachable"}
  /\ wire' = Idle
  /\ \/ /\ Current.op = "try" \/ (Current.op = "stream" /\ wire.stage = "lost")
        /\ inv' = [inv EXCEPT !.pc = @ + 1, !.told = FALSE]
     \/ /\ Current.op # "try"
        /\ Ends("failed", <<>>)
  /\ UNCHANGED <<daemon, host>>

Finishes ==
  /\ Running
  /\ inv.pc > Len(Script)
  /\ Ends("ok", <<>>)
  /\ UNCHANGED <<wire, daemon, host>>

(* The user's interrupt; what is on its way to the daemon stays on it.     *)
Killed ==
  /\ inv.end = "running"
  /\ Ends("killed", <<>>)
  /\ UNCHANGED <<wire, daemon, host>>

Next ==
  \/ PassesOver \/ Decides \/ present_risk_to_user \/ GoesRound \/ ActsOnHost
  \/ Sends \/ Handles \/ Receives \/ Loses \/ Finishes
  \/ Dies \/ Restarts \/ Killed

Spec == Init /\ [][Next]_vars
-----------------------------------------------------------------------------
Writes == {daemon.applied[i] : i \in 1 .. Len(daemon.applied)}

(* A command that the client itself refuses, or that the user declines     *)
(* when a risk is put to them, has changed nothing: not the daemon and not *)
(* the host, whatever it asked before it decided (tnet.rs RISK_ABORTED,    *)
(* "aborted, no changes made", and the refusals of every subcommand).  The *)
(* one command that judges some of its arguments late is cert: by then the *)
(* certificate has been issued and its public half may be in its file, but *)
(* its key is in none (tnet.rs run_cert).                                  *)
RefusedTouchesNothing ==
  inv.end = "refused" =>
    IF inv.cmd = "cert"
      THEN Writes \subseteq {"Cert"} /\ host \subseteq {"cert temp", "cert renamed"}
      ELSE daemon.applied = <<>> /\ host = {}

(* Commands that are several writes by design.                             *)
Several == {"login", "file cp", "web", "serve", "funnel", "cert"}

(* Every other command is one write at most, so that no refusal, death,    *)
(* lost answer or interrupt can leave it half done; and a login that fails *)
(* has not brought the node up under the profile it was to leave           *)
(* (tnet.rs send_ok_or_die, login_profile_requests).                       *)
NothingHalfDone ==
  /\ inv.cmd \notin Several => Len(daemon.applied) <= 1
  /\ inv.cmd = "login" => ("Up" \in Writes => daemon.applied[1] = "SwitchToEmptyProfile")

(* A request that a success stands for, and the facts it takes.            *)
For(request, when) == {[write |-> request, when |-> when]}

(* What a command that succeeded claims to have done: every write there is *)
(* to a command, but for the runs that end in success without: a demo of   *)
(* cert and web, which outlive refusals, and debug portmap, to which a     *)
(* stream that ends before it began is a run without lines.                *)
Promises(command) ==
  CASE command = "up" -> For("Up", {})
    [] command = "login" -> For("SwitchToEmptyProfile", {}) \union For("Up", {})
    [] command = "set" -> For("Set", {})
    [] command = "down" -> For("Down", {<<"already stopped", FALSE>>})
    [] command = "logout" -> For("Logout", {})
    [] command = "reload-config" -> For("ReloadConfig", {})
    [] command = "shutdown" -> For("Shutdown", {})
    [] command = "switch" ->
         For("DeleteProfile", {<<"remove", TRUE>>})
           \union For("CreateProfile", {<<"remove", FALSE>>, <<"list", FALSE>>, <<"new", TRUE>>})
           \union For("SwitchProfile", {<<"remove", FALSE>>, <<"list", FALSE>>, <<"new", FALSE>>})
    [] command = "debug capture" -> For("DebugCapture", {})
    [] command = "debug rebind" -> For("DebugRebind", {})
    [] command = "debug restun" -> For("DebugReStun", {})
    [] command = "debug check-prefs" -> For("CheckPrefs", {})
    [] command = "debug statedir" -> For("DebugStateDir", {<<"local", FALSE>>})
    [] command = "metrics" -> For("Metrics", {})
    [] command = "id-token" -> For("IdToken", {})
    [] command = "cert" -> For("Cert", {<<"serve-demo", FALSE>>})
    [] command = "lock sign" -> For("LockSign", {})
    [] command = "lock disable" -> For("LockDisable", {})
    [] command = "lock init" -> For("LockInit", {<<"confirm", TRUE>>})
    [] command = "file get" ->
         For("FileGet", {<<"one file", TRUE>>}) \union For("FileGetDir", {<<"one file", FALSE>>})
    [] command = "file cp" -> For("FileCp", {<<"targets", FALSE>>})
    [] command = "nc" -> For("Nc", {})
    [] command \in {"serve reset", "funnel toggle"} -> For("SetServeConfig", {})
    [] command = "serve verb" ->
         For("SetServeConfig", {<<"tcp", TRUE>>}) \union For("SetServeConfig", {<<"tcp", FALSE>>})
    [] command \in {"serve", "funnel"} ->
         For("SetServeConfig", {<<"off", FALSE>>})
           \union For("SetServeConfig", {<<"off", TRUE>>, <<"funnel", TRUE>>})
           \union For("SetServeConfig",
                     {<<"off", TRUE>>, <<"funnel", FALSE>>, <<"nothing there", FALSE>>})
    [] OTHER -> {}

Promised ==
  {p.write : p \in {q \in Promises(inv.cmd) :
                       \A guard \in q.when : Outcomes(guard[1]) = {guard[2]}}}

(* Success is never reported for a write that the daemon did not do: not   *)
(* when it refused, died or lost the answer (tnet.rs round_trip, an empty  *)
(* line is no answer), whichever of its writes a command was asked for,    *)
(* and not for files that were refused (tnet.rs run_file_cp, had_error).   *)
(* debug portmap, web and a demo of cert claim none.                       *)
SuccessIsReal == inv.end = "ok" => Promised \subseteq Writes

(* The disablement secret is shown only once the lock it disables exists   *)
(* (tnet.rs run_lock_init).                                                *)
SecretGatesALock == "secret shown" \in host => "LockInit" \in Writes

=============================================================================
