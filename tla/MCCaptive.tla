----------------------------- MODULE MCCaptive -----------------------------
(* A small instance of Captive for TLC: a network, or none but a container *)
(* bridge; times keep the order of the code's 7, 12, 2 and 30 seconds.     *)
EXTENDS Captive

MCNetworks ==
  {{Loopback, [name |-> "wlan0", ip |-> "home"]},
   {Loopback, [name |-> "wlan0", ip |-> "link-local"], [name |-> "docker0", ip |-> "link-local"]}}

MCSettleTime == [w \in Warnables |->
  CASE w = "network-status"    -> 2
    [] w = "no-derp-home"      -> 3
    [] w = "ip-forwarding-off" -> 1]
=============================================================================
