----------------------------- MODULE MCDaemon ------------------------------
(* Instances of Daemon for TLC.                                             *)
EXTENDS Daemon, TLC

(* A Linux box that starts: the packaged unit, and one with every decision  *)
(* of Launch at its default.                                                *)
Plain ==
  [gate |-> TRUE, env |-> Absent, env_files |-> <<>>,
   bird |-> FALSE, encrypt_state |-> "unset", hardware_attestation |-> "unset",
   goos |-> "linux", euid |-> 0, tun_feature |-> TRUE, tun |-> <<>>,
   listen |-> <<>>, port |-> "unset", config |-> "none", optional |-> FALSE]

With(proxy) == [Plain EXCEPT !.listen = (proxy :> "port")]

(* The gate opened by the second environment file and shut by the first; a  *)
(* --tun list that falls back; each way to be refused.                      *)
MCLaunches ==
  {[With("http") EXCEPT !.tun = <<"tap", "tailscale0">>, !.gate = FALSE,
                        !.env_files = <<Unreadable, <<"blank", "gate", "unquotable">>>>],
   [With("debug") EXCEPT !.goos = "darwin", !.euid = 501, !.config = "no file", !.optional = TRUE,
                         !.tun = <<"utun", "userspace-networking">>],
   [Plain EXCEPT !.gate = FALSE, !.env_files = <<<<"unquotable", "gate">>, <<"gate">>>>],
   [Plain EXCEPT !.gate = FALSE, !.env = Unreadable, !.env_files = <<<<"gate">>>>],
   [Plain EXCEPT !.gate = FALSE, !.env = <<"nul">>],
   [Plain EXCEPT !.bird = TRUE], [Plain EXCEPT !.encrypt_state = "true"],
   [Plain EXCEPT !.goos = "darwin", !.euid = 501, !.tun = <<"utun">>],
   [Plain EXCEPT !.tun_feature = FALSE, !.tun = <<"tailscale0", "">>],
   [Plain EXCEPT !.config = "no file"], [Plain EXCEPT !.config = "no version"],
   [Plain EXCEPT !.config = "alpha0", !.port = "bad"],
   [Plain EXCEPT !.config = "alpha0", !.listen = ("socks5" :> "host name")],
   [Plain EXCEPT !.config = "alpha0", !.listen = ("socks5" :> "socket address")]}
============================================================================
