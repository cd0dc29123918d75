---------------------------- MODULE NodeCommands ----------------------------
(***************************************************************************)
(* The subcommands of tnet that bring the node up and down and change its  *)
(* preferences and profiles (bin/tnet.rs).                                 *)
(***************************************************************************)
EXTENDS Scripts

(* The toggle of ssh over a Tailscale ssh session: the two cheap questions *)
(* first, then one look at the preferences.                                *)
refuse_ssh_toggle_risk_if_needed ==
  When("ssh is named", When("over Tailscale ssh", Unless("risk accepted",
    Ask("GetPrefs") \o Refuse("ssh would change"))))

(* The key and its file are the client's to read; the file comes first,    *)
(* then the argument, then the environment.                                *)
resolve_authkey == Refuse("authkey unreadable")

(* Workload identity: a token or an audience, and the two secrets may each *)
(* name a file.                                                            *)
resolve_wif == Refuse("token and audience") \o Refuse("client secret or token unreadable")

check_host_routes == Refuse("host routes")

(* Flags of up that the upstream client does not give it.                  *)
check_ported_up_flags == check_host_routes \o Refuse("nickname on up")

parse_relay_server_port == Refuse("relay port unreadable")
parse_relay_static_endpoints == Refuse("relay endpoints unreadable")

(* Flags of set that nothing here implements: both values are read before  *)
(* any is refused, and what every node does anyway is no refusal.          *)
check_unmodelled_set_flags ==
  parse_relay_server_port \o parse_relay_static_endpoints \o
  Refuse("relay port") \o Refuse("relay endpoints") \o
  Refuse("remote config on") \o Refuse("sync off")

(* Polls for the login URL for a while; a poll that fails is no failure,   *)
(* and nothing found is none either.                                       *)
poll_for_auth_url ==
  Repeat("nothing to show yet", Try("Status"))

(* Polls until the node runs and its address is on the interface.          *)
wait_for_running ==
  Repeat("not Running yet", Try("Status"))

(* The command waits as long as it takes, or as long as it was given.      *)
run_wait == wait_for_running \o FailIf("registration failed or out of time")

(* What the flags of up say that the client acts on; the others are data   *)
(* of the request.                                                         *)
UpArguments ==
  {"authkey given", "timeout given", "json", "force-reauth", "ssh is named", "risk accepted"}

(* The state that a report in JSON carries, if it can be had.              *)
fetch_backend_state == When("json", Try("Status"))

(* What follows an up that was taken: the login it may need, the wait it   *)
(* was asked for, and a last report.                                       *)
UpTaken ==
  Unless("authkey given",
    poll_for_auth_url \o
    When("registration failed", fetch_backend_state \o FailIf("always"))) \o
  When("timeout given",
    wait_for_running \o
    When("registration failed or out of time", fetch_backend_state \o FailIf("always"))) \o
  fetch_backend_state

run_up ==
  resolve_wif \o
  check_ported_up_flags \o
  Refuse("allow-lan without exit node") \o
  When("force-reauth", When("over Tailscale ssh", Unless("risk accepted", Refuse("always")))) \o
  refuse_ssh_toggle_risk_if_needed \o
  resolve_authkey \o
  Ask("Up") \o
  UpTaken

LoginArguments == {"authkey given", "nickname", "login server named"}

(* The profile to log in under is a new one, and may be named.             *)
login_profile_requests == Ask("SwitchToEmptyProfile") \o When("nickname", Ask("Set"))

(* A profile of its own, then an up that re-registers.                     *)
run_login ==
  check_host_routes \o
  When("over Tailscale ssh", Refuse("always")) \o
  resolve_authkey \o
  login_profile_requests \o
  Ask("Up") \o
  Unless("authkey given", poll_for_auth_url \o FailIf("registration failed"))

SetArguments == {"ssh is named", "risk accepted"}

run_set ==
  refuse_ssh_toggle_risk_if_needed \o
  check_unmodelled_set_flags \o
  Ask("Set")

DownArguments == {"risk accepted"}

(* Mutant of run_down: the risk is put to the user after the fact.         *)
run_down_then_asks ==
  Refuse("positional arguments") \o
  Ask("Status") \o
  Return("already stopped") \o
  Ask("Down") \o
  When("over Tailscale ssh", Unless("risk accepted", Confirm("lose-ssh")))

run_down ==
  Refuse("positional arguments") \o
  When("over Tailscale ssh", Unless("risk accepted", Confirm("lose-ssh"))) \o
  Ask("Status") \o
  Return("already stopped") \o
  Ask("Down")

run_logout == Ask("Logout")

run_reload_config == Ask("ReloadConfig") \o FailIf("config mode not in use")

run_shutdown == Ask("Shutdown")

BugreportArguments == {"record"}

(* Two markers when the user reproduces a problem between them.            *)
run_bugreport ==
  Refuse("two notes") \o
  Ask("BugReport") \o
  When("record", Effect("waits for Enter") \o Ask("BugReport"))

StatusArguments == {"web", "watch"}

run_status ==
  When("web", Refuse("address unusable") \o Effect("serves pages") \o
              Repeat("a page is asked for", Try("Status")) \o Return("always")) \o
  When("watch", Stream("Watch") \o Return("always")) \o
  Ask("Status")

SwitchArguments == {"remove", "list", "new"}

(* Mutant of run_switch: a new profile is created and then switched to.    *)
run_switch_twice ==
  Refuse("usage") \o
  When("new", Ask("CreateProfile")) \o
  Ask("SwitchProfile")

(* Removal, listing and switching exclude each other.                      *)
run_switch ==
  Refuse("usage") \o
  When("remove", Ask("DeleteProfile") \o Return("always")) \o
  When("list", Ask("ProfileList") \o Return("always")) \o
  When("new", Ask("CreateProfile") \o Return("always")) \o
  Ask("SwitchProfile")

VersionArguments == {"daemon"}

run_version == When("daemon", Ask("Version"))

run_get == Ask("GetPrefs") \o Refuse("unknown setting")

run_appc_routes == Ask("GetPrefs") \o Return("not a connector") \o Refuse("needs a store")

run_whoami == Ask("Status") \o Refuse("no address") \o Ask("Whois")
=============================================================================
