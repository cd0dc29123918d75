--------------------------- MODULE MCDeviceTasks ---------------------------
(* A small instance of DeviceTasks for TLC: two networks, and none.        *)
EXTENDS DeviceTasks

MCNetworks ==
  {{Loopback, [name |-> "wlan0", ip |-> "home"]},
   {Loopback, [name |-> "wlan0", ip |-> "cafe"]},
   {Loopback}}
=============================================================================
