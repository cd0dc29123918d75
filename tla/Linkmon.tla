------------------------------ MODULE Linkmon ------------------------------
(***************************************************************************)
(* What the daemon reads of the host's interfaces (ipn/linkmon.rs and the  *)
(* interface filter of ipn/captive.rs).  An interface address is a record  *)
(* of the interface's name and the kind of its address.                    *)
(***************************************************************************)

Loopback == [name |-> "lo", ip |-> "loopback"]
OwnTunnel == [name |-> "tailscale0", ip |-> "tailnet"]

is_path_relevant(addr) == addr.ip \notin {"loopback", "link-local-v6", "tailnet"}

is_tailscale_interface(addr) == addr.name = "tailscale0"
is_usable(addr) == addr.ip \notin {"loopback", "link-local", "link-local-v6", "tailnet-v6"}

(* The addresses a path change is told by, and whether any can be used.    *)
snapshot(addrs) == {a.ip : a \in {b \in addrs : is_path_relevant(b)}}
any_interface_up(addrs) == \E a \in addrs : ~is_tailscale_interface(a) /\ is_usable(a)

(* Tunnels and container bridges are never behind a portal.                *)
interface_name_does_not_need_captive_detection(name) == name \in {"tailscale0", "docker0"}
detection_interfaces(addrs) ==
  {a.name : a \in {b \in addrs : /\ b.ip # "loopback"
                                 /\ ~interface_name_does_not_need_captive_detection(b.name)}}
=============================================================================
