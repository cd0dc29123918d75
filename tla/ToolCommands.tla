---------------------------- MODULE ToolCommands ----------------------------
(***************************************************************************)
(* The subcommands of tnet that ask the node questions, probe it, move     *)
(* files, administer Tailnet Lock and fetch certificates (bin/tnet.rs).    *)
(***************************************************************************)
EXTENDS Scripts

(* debug: one request each, or none.                                       *)
run_debug_capture == Ask("DebugCapture")
run_debug_prefs == Ask("GetPrefs")
run_debug_rebind == Ask("DebugRebind")
run_debug_restun == Ask("DebugReStun")
run_check_ip_forwarding == Ask("CheckIpForwarding")
run_check_prefs == Ask("CheckPrefs")
run_debug_watch_ipn == Stream("Watch")

(* env, local-creds, stat and build-info look at the host alone.           *)
run_debug_local == Return("always")
run_debug_via == Refuse("no route, or not a via prefix")
run_debug_resolve == Refuse("usage or network") \o FailIf("no answer in time")

(* The whole run is one stream.                                            *)
run_debug_portmap ==
  Refuse("gateway without self, or a bad duration") \o
  Stream("DebugPortmap")

DebugArguments == {"local"}

run_debug_statedir ==
  Refuse("positional arguments") \o
  When("local", Return("always")) \o
  Ask("DebugStateDir") \o
  FailIf("no state directory")

ip_usage_refusal == Refuse("two selectors")

(* A name is a peer's, in the order of the status, or this node's own.     *)
named_node_from_arg == Refuse("node lacks an address")

resolve_host_ip == Refuse("no address for the name")

(* An address is taken as it is; a name that no node has is the host's     *)
(* resolver's to answer.                                                   *)
ip_address_from_arg ==
  Unless("an address", named_node_from_arg \o Unless("names a node", resolve_host_ip))

(* No node holds the address: a service may.                               *)
service_addrs_matching_ip == Ask("Services") \o Refuse("no service either")

IpArguments == {"assert", "peer named"}

(* The address of this node, of a peer, or whether an address is its own.  *)
run_ip ==
  ip_usage_refusal \o
  When("assert", Refuse("not an address") \o
                 Ask("Ip") \o FailIf("another address") \o Return("always")) \o
  When("peer named", Ask("Status") \o ip_address_from_arg \o
                     When("no node matches", service_addrs_matching_ip) \o
                     Refuse("family not there") \o Return("always")) \o
  Ask("Ip") \o
  When("no address", Ask("Status") \o FailIf("always")) \o
  FailIf("family not there")

ping_probe_refusal == Refuse("probe the engine lacks")

is_running_or_starting == Refuse("neither Running nor Starting")

(* This node's own address, or a name of its own, is answered at once.     *)
ping_target_from_arg ==
  Return("own address") \o
  Unless("an address", named_node_from_arg)

resolve_ping_target ==
  Ask("Status") \o is_running_or_starting \o
  ping_target_from_arg \o
  Unless("an address", Unless("names a node", resolve_host_ip))

ping_verdict == FailIf("no reply") \o When("until direct", FailIf("none went direct"))

(* Probes one at a time until enough have gone or one went direct.  A      *)
(* probe the node fails is a miss; a daemon that is gone is the end.       *)
run_ping ==
  ping_probe_refusal \o
  resolve_ping_target \o
  Repeat("probes left", Tolerate("Ping")) \o
  ping_verdict

MetricsArguments == {"write"}

run_metrics == Ask("Metrics") \o When("write", Effect("metrics file"))

run_whois == Refuse("arguments") \o Ask("Whois")

run_id_token == Ask("IdToken")

run_dns_status == Ask("DnsStatus")
run_dns_query == Refuse("query type") \o Ask("DnsQuery")

NetcheckArguments == {"every"}

(* Once, or at an interval until interrupted.                              *)
run_netcheck == Repeat("every", Ask("Netcheck"))

run_syspolicy_list == Ask("SyspolicyList")
run_syspolicy_reload == Ask("SyspolicyReload")

run_service_list == Ask("Services") \o Ask("Status")

run_exit_node_list == Refuse("positional arguments") \o Ask("Status")
run_exit_node_suggest == Refuse("forced probe") \o Ask("SuggestExitNode")

CertArguments ==
  {"serve-demo", "one argument", "more arguments", "cert to a file", "key to a file"}

(* A demonstration asks for one certificate per name: a name that has been *)
(* asked for, and a budget of the minute that is spent, ask nothing.       *)
cert_demo_lookup(fetch) == Unless("memoized", Unless("budget spent", fetch))

(* Whatever becomes of the round trip, the next client is served.          *)
cert_demo_config_for == cert_demo_lookup(Try("Cert"))

(* A client that stalls, or names no host, is let go.                      *)
serve_cert_demo_connection == When("hello names a host", cert_demo_config_for)

(* Clients over the cap are dropped unserved.                              *)
run_cert_serve_demo ==
  Effect("demo listener") \o
  Repeat("a client connects", Unless("connection cap reached", serve_cert_demo_connection))

(* What the refusal suggests: the domains the node may have, if it says.   *)
cert_domain_hint == Try("DnsStatus")

(* The demonstration takes one argument at most, a certificate exactly one.*)
cert_invocation ==
  When("serve-demo", When("more arguments", Refuse("always")) \o
                     run_cert_serve_demo \o Return("always")) \o
  When("more arguments", cert_domain_hint \o Refuse("always")) \o
  Unless("one argument", cert_domain_hint \o Refuse("always"))

parse_min_validity == Refuse("not a duration")

(* One half goes nowhere, to the terminal, or to a file that is replaced;  *)
(* a path that names no file is refused here.                              *)
emit(to_a_file, unusable, temp, renamed) ==
  When(to_a_file, Refuse(unusable) \o Effect(temp) \o Effect(renamed))

(* The certificate comes before the questions where its halves may go, and *)
(* the key's comes after the other half is written.                        *)
run_cert ==
  parse_min_validity \o
  cert_invocation \o
  Ask("Cert") \o
  Refuse("no safe default path") \o
  emit("cert to a file", "cert path names no file", "cert temp", "cert renamed") \o
  emit("key to a file", "key path names no file", "key temp", "key renamed")
-----------------------------------------------------------------------------
(* Tailnet Lock.                                                           *)
run_lock_status == Ask("LockStatus")
run_lock_log == Refuse("json schema") \o Ask("LockLog")
run_lock_sign == Ask("LockSign")
run_lock_disable == Ask("LockDisable")
run_lock_disablement_kdf == Refuse("not a secret")

LockArguments == {"confirm", "secret supplied"}

(* Keys with their votes, and disablement values, in any order.            *)
parse_lock_args == Refuse("malformed disablement") \o Refuse("malformed key or votes")

(* The lock this engine makes trusts this node alone, with one disablement *)
(* secret that is either supplied or minted.                               *)
lock_init_refusals ==
  Refuse("trusted keys") \o Refuse("disablement values") \o Refuse("for support") \o
  When("secret supplied", Refuse("generation too")) \o
  Unless("secret supplied", Refuse("none, or more than one")) \o
  When("secret supplied", Refuse("not hex"))

(* Everything is decided before anything is asked of the node; without     *)
(* --confirm the plan is all there is.                                     *)
plan_lock_init ==
  Refuse("already enabled") \o
  parse_lock_args \o
  lock_init_refusals \o
  Unless("confirm", Return("always"))

(* Mutant of run_lock_init: the secret is shown as soon as it is minted.   *)
run_lock_init_shows_first ==
  Ask("LockStatus") \o plan_lock_init \o
  Effect("secret shown") \o
  Ask("LockInit")

run_lock_init ==
  Ask("LockStatus") \o plan_lock_init \o
  Ask("LockInit") \o
  Effect("secret shown")
-----------------------------------------------------------------------------
(* Taildrop.                                                               *)
FileArguments == {"targets", "one file"}

run_file_list == Ask("FileList")

run_file_get ==
  Refuse("no destination") \o
  When("one file", Ask("FileGet") \o Return("always")) \o
  Ask("FileGetDir") \o
  FailIf("the last file failed")

run_file_targets == Ask("FileTargets")

(* The peer, with its colon and its brackets.                              *)
parse_cp_target ==
  Refuse("no colon") \o Refuse("no peer") \o
  Refuse("bare IPv6 literal") \o Refuse("brackets around something else")

(* Standard input is not the daemon's to read.                             *)
resolve_cp_file == Unless("several files", Refuse("standard input"))

send_cp_file == resolve_cp_file \o Tolerate("FileCp")

(* Each file is a request of its own, and the rest are still sent when one *)
(* fails.                                                                  *)
run_file_cp ==
  When("targets", Refuse("arguments") \o run_file_targets \o Return("always")) \o
  Refuse("fewer than two arguments") \o
  parse_cp_target \o
  When("several files", Refuse("one name for them") \o Refuse("standard input among them")) \o
  send_cp_file \o
  When("several files", Repeat("files left", send_cp_file)) \o
  FailIf("a file failed")
-----------------------------------------------------------------------------
(* The client itself and the service it belongs to.                        *)

UpdateArguments == {"check only", "yes", "version named", "unstable"}

(* Every answer is read up to a cap.                                       *)
http_get_bytes(missing) == FailIf(missing)

(* One release by its tag, the newest of the recent ones that are no       *)
(* drafts, or the latest stable one.                                       *)
resolve_target_release ==
  When("version named", http_get_bytes("no such release")) \o
  Unless("version named", When("unstable", http_get_bytes("no releases"))) \o
  Unless("version named", Unless("unstable", http_get_bytes("no latest release"))) \o
  FailIf("tag is no version")

(* The two assets of the host's own target, by name.                       *)
download_release ==
  FailIf("no tarball") \o FailIf("no sidecar") \o http_get_bytes("download failed")

verify_sha256 == FailIf("sidecar malformed") \o FailIf("digest differs")

(* The one member that is the client, at the top of the tarball.           *)
extract_tnet_from_tarball ==
  FailIf("no tnet in the tarball") \o FailIf("over the cap, or empty")

(* The running binary is replaced by a rename of a file that was verified, *)
(* unpacked, written and synced beside it.                                 *)
swap_binary_in_place == Effect("update temp") \o Effect("update renamed")

run_update ==
  Refuse("unknown track") \o
  resolve_target_release \o
  Unless("version named", Return("up to date")) \o
  When("check only", Return("always")) \o
  Unless("yes", Return("always")) \o
  Refuse("installed by Homebrew") \o
  Refuse("no build for this target") \o
  download_release \o verify_sha256 \o extract_tnet_from_tarball \o
  swap_binary_in_place

require_root == Refuse("not root")

(* The running executable goes where the unit expects the daemon, and the  *)
(* unit is enabled and started.                                            *)
apply_install ==
  Unless("already there", Effect("tnet at the daemon's path")) \o
  Effect("unit written") \o Effect("unit enabled")

run_install == require_root \o Refuse("no service manager") \o apply_install

(* A step that cannot be undone is reported; the rest still happen.        *)
apply_uninstall ==
  When("unit disables", Effect("unit disabled")) \o
  FailIf("unit cannot be removed") \o
  Effect("unit removed")

run_uninstall == require_root \o Refuse("no service manager") \o apply_uninstall
=============================================================================
