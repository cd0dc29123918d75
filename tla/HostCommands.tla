---------------------------- MODULE HostCommands ----------------------------
(***************************************************************************)
(* The subcommands of tnet that serve, splice, connect and configure       *)
(* (bin/tnet.rs): web, nc, ssh, serve, funnel and configure.               *)
(***************************************************************************)
EXTENDS Scripts

WebArguments == {"readonly", "cgi"}

(* The one page there is; every other request is not found.                *)
route_web_request(page) == When("the page is asked for", page)

(* A page is one status; a status that cannot be had is a page too.  A     *)
(* client that sends no line in time is let go.                            *)
serve_status_connection == Unless("no request", route_web_request(Try("Status")))

(* The web server runs the client once per request.                        *)
run_web_cgi == route_web_request(Try("Status")) \o Effect("page printed")

(* Pages until the user interrupts.                                        *)
run_status_web ==
  Effect("web listener") \o
  Repeat("a client connects", Unless("connection cap reached", serve_status_connection))

(* The daemon's web client is turned on unless it is; the address it is    *)
(* logged with, and the preference, may both be unknown.                   *)
start_tailscaled_web_client ==
  Try("Status") \o Try("GetPrefs") \o
  Unless("web client is on", Ask("Set") \o Effect("web client started"))

(* Only an interrupt turns it back off, and only if this run turned it on. *)
serve_until_interrupt ==
  run_status_web \o
  Unless("readonly", Unless("web client is on",
    Try("Set") \o Effect("web client stopped")))

run_web ==
  Unless("readonly", start_tailscaled_web_client) \o
  When("cgi", run_web_cgi \o Return("always")) \o
  serve_until_interrupt

(* One acknowledgement, then bytes both ways.                              *)
run_nc == Ask("Nc") \o Effect("splices")

split_ssh_target == Refuse("no host") \o Refuse("not a user name")

(* The known hosts of every session are one file, written in place.        *)
write_ssh_known_hosts ==
  FailIf("no configuration directory") \o
  Effect("known hosts truncated") \o Effect("known hosts written")

find_ssh == FailIf("no ssh on PATH")

(* The host's keys are pinned to a file of its own before ssh replaces the *)
(* client; a host whose keys are not known is not connected to.            *)
run_ssh ==
  split_ssh_target \o
  Ask("Status") \o
  Refuse("no such peer") \o
  Refuse("no host keys") \o
  write_ssh_known_hosts \o
  find_ssh \o
  Effect("ssh runs")
-----------------------------------------------------------------------------
(* serve and funnel: every edit reads the whole configuration, changes it  *)
(* here and writes the whole of it back.                                   *)
ServeFlags == {"off", "background", "host needed", "json", "service"}
ServeArguments == {"tcp", "redirect"}

parse_accept_app_caps == Refuse("malformed capability")

clean_url_path == Refuse("mount point not clean")

(* One listener at most, with a port that fits.                            *)
serve_kind_and_port == Refuse("port out of range") \o Refuse("two listeners")

(* The usage first, in the order of the upstream client, then what the     *)
(* engine lacks.                                                           *)
check_serve_flags ==
  parse_accept_app_caps \o
  When("service", When("funnel", Refuse("always")) \o Unless("background", Refuse("always"))) \o
  clean_url_path \o
  serve_kind_and_port \o
  Refuse("proxy protocol usage") \o
  Unless("service", Refuse("tun")) \o
  When("service", Refuse("always")) \o
  Refuse("proxy protocol") \o
  Refuse("capabilities")

(* The target joins the handlers of its host and port.                     *)
build_web_serve == clean_url_path \o Refuse("empty text")

serve_host == Ask("Status") \o Refuse("no name yet")

get_serve_config == Ask("GetServeConfig")

run_serve_status == get_serve_config \o Unless("json", Try("Status"))

run_serve_reset == Ask("SetServeConfig")

(* Holds until a signal, and puts back what it read.                       *)
hold_foreground_serve == Effect("serves in the foreground") \o Ask("SetServeConfig")

serve_off ==
  Refuse("mount with off") \o
  get_serve_config \o
  When("funnel", serve_host \o Ask("SetServeConfig")) \o
  Unless("funnel", Return("nothing there") \o Ask("SetServeConfig")) \o
  Return("always")

run_serve_v2 ==
  check_serve_flags \o
  Refuse("trailing word") \o
  When("off", serve_off) \o
  Refuse("no target, or a mount without a web serve") \o
  When("host needed", serve_host) \o
  get_serve_config \o
  When("host needed", build_web_serve) \o
  Ask("SetServeConfig") \o
  Unless("background", hold_foreground_serve)

serve_redirect_refusals ==
  Refuse("redirect target empty or broken") \o
  Refuse("redirect status") \o
  Refuse("redirect variable")

(* serve tcp, and the web forms that need the node's name.                 *)
run_serve ==
  When("tcp", get_serve_config \o Ask("SetServeConfig") \o Return("always")) \o
  When("redirect", serve_redirect_refusals) \o
  serve_host \o get_serve_config \o
  Unless("redirect", build_web_serve) \o
  Ask("SetServeConfig")

run_funnel_toggle == check_serve_flags \o serve_host \o get_serve_config \o Ask("SetServeConfig")
-----------------------------------------------------------------------------
(* configure.                                                              *)
run_configure_sysext == Refuse("always")
run_configure_mac_vpn == Refuse("always")

KubeconfigArguments == {"output", "force"}

kubeconfig_inputs == Refuse("no host")

(* A peer by name or address; failing that, a service of the tailnet's DNS *)
(* that some peer advertises.                                              *)
service_dns_name_from_arg ==
  Refuse("no such record") \o Refuse("record is no address") \o Refuse("no peer advertises it")

peer_dns_name_from_arg ==
  When("no such peer", Ask("DnsStatus") \o service_dns_name_from_arg)

validate_kube_fqdn == Refuse("not a host name")

(* The last entry of the list, or the first that exists; else the home.    *)
kubeconfig_path_from == Refuse("list names no file") \o Refuse("no home")

(* The nearest directory that exists takes a file and gives it up again.   *)
is_writable == Effect("probe made") \o Effect("probe removed")

check_kubeconfig_writable ==
  When("kubeconfig exists", FailIf("kubeconfig cannot be opened")) \o
  Unless("kubeconfig exists", is_writable)

go_mkdir_all == Unless("directory exists", Effect("directory made"))

decode_kubeconfig_bytes == FailIf("not text")

(* The cluster, the user and the context, by name, into what is there.     *)
update_kubeconfig == FailIf("not a kubeconfig")

(* The user's own file is merged in place: truncated, written, synced.     *)
set_kubeconfig_for_peer ==
  go_mkdir_all \o
  When("kubeconfig exists",
    FailIf("unreadable") \o decode_kubeconfig_bytes \o update_kubeconfig) \o
  Effect("kubeconfig truncated") \o Effect("kubeconfig written")

(* --output makes a file that must not exist, or replaces one by force.    *)
write_kubeconfig_file ==
  Unless("force", Refuse("file exists")) \o
  Effect("output truncated") \o Effect("output written")

run_configure_kubeconfig ==
  kubeconfig_inputs \o
  Ask("Status") \o
  Refuse("not running") \o
  peer_dns_name_from_arg \o
  validate_kube_fqdn \o
  When("output", write_kubeconfig_file \o Return("always")) \o
  kubeconfig_path_from \o
  check_kubeconfig_writable \o
  set_kubeconfig_for_peer
=============================================================================
