------------------------------ MODULE Launch -------------------------------
(* What tailnetd's command line and environment decide before any state is *)
(* touched: the refusals, the environment file, the --tun list, the listen  *)
(* addresses and the --config source. A launch is a record of the flags and *)
(* of the machine they meet; the values are the kinds the code tells apart. *)
EXTENDS Naturals, Sequences

(* envknob::parse_key_value_env over the kinds of line: an unquotable value *)
(* stops the file there and keeps what came before; a NUL drops its line.   *)
parse_key_value_env(lines) ==
  LET refused == {i \in DOMAIN lines : lines[i] = "unquotable"}
      read    == {i \in DOMAIN lines : \A j \in refused : i < j}
  IN  {lines[i] : i \in read} \ {"blank", "nul", "unquotable"}

(* A file is the sequence of its lines, or one of these.                    *)
Unreadable == <<"unreadable">>
Absent == <<"absent">>

(* envknob::load_disk_config: a file named by TS_DEBUG_ENV_FILE is the only *)
(* one looked at; otherwise the first of the platform's files that can be   *)
(* read, and what could not be read is a problem that is only reported.     *)
load_disk_config(explicit, files) ==
  LET readable == {i \in DOMAIN files : files[i] \notin {Absent, Unreadable}}
      first    == CHOOSE i \in readable : \A j \in readable : i <= j
  IN  CASE explicit = Unreadable -> {}
        [] explicit \notin {Absent, Unreadable} -> parse_key_value_env(explicit)
        [] explicit = Absent /\ readable # {} -> parse_key_value_env(files[first])
        [] OTHER -> {}

(* The experiment gate, which the environment file may open.                *)
experiment_gate_ok(l) ==
  l.gate \/ "gate" \in load_disk_config(l.env, l.env_files)

bird_socket_refusal(l) == l.bird

(* Only an explicit true is refused; a policy that asks is only noted.      *)
explicit_tpm_flag_refusal(l) == "true" \in {l.encrypt_state, l.hardware_attestation}

darwin_root_refusal(l) ==
  /\ l.goos = "darwin" /\ l.euid # 0
  /\ \A i \in DOMAIN l.tun : l.tun[i] # "userspace-networking"

Refused == "refused"

(* One entry of the --tun list.                                             *)
candidate(name, l) ==
  IF name = "userspace-networking" THEN "netstack"
  ELSE IF name \in {"", "tap"} \/ ~l.tun_feature \/ (l.goos = "darwin" /\ l.euid # 0) THEN Refused
  ELSE "tun"

(* tunflag::resolve_with: the first entry this machine can serve.           *)
resolve_with(l) ==
  LET usable == {i \in DOMAIN l.tun : candidate(l.tun[i], l) # Refused}
  IN  IF darwin_root_refusal(l) \/ usable = {} THEN Refused
      ELSE candidate(l.tun[CHOOSE i \in usable : \A j \in usable : i <= j], l)

(* socks5::normalize_listen_addr, which the other two listeners share.      *)
normalize_listen_addr(addr) ==
  CASE addr = "port" -> "loopback"
    [] addr = "socket address" -> addr
    [] OTHER -> Refused              \* empty, port 0, a host name

(* ConfigFlag::load: `optional:` forgives a document that is not there,     *)
(* never one that cannot be read as alpha0.                                 *)
ConfigFlagLoad(l) ==
  CASE l.config = "none" -> "none"
    [] l.config \in {"no file", "vm user-data"} -> IF l.optional THEN "none" ELSE Refused
    [] l.config = "alpha0" -> "alpha0"
    [] OTHER -> Refused              \* not JSON, no version, another version

(* What stops run before the SIGHUP stream, and after it.                   *)
RefusedAtOnce(l) ==
  \/ bird_socket_refusal(l)
  \/ explicit_tpm_flag_refusal(l)
  \/ l.tun # <<>> /\ resolve_with(l) = Refused
  \/ ~experiment_gate_ok(l)

RefusedLater(l) ==
  \/ \E p \in DOMAIN l.listen : normalize_listen_addr(l.listen[p]) = Refused
  \/ l.port = "bad"
  \/ ConfigFlagLoad(l) = Refused
============================================================================
