------------------------------- MODULE Node -------------------------------
(***************************************************************************)
(* What the daemon promises about its node, whatever its tasks do: there   *)
(* is at most one engine, it starts only as the current profile's node     *)
(* with the key that is on disk, and neither the profile nor the key       *)
(* changes while it runs.  A running engine is never replaced: it stops    *)
(* first.                                                                  *)
(***************************************************************************)
EXTENDS Naturals

CONSTANTS Profiles, None

VARIABLES
  profile,   \* the current profile
  key,       \* the node key in its directory, 0 when there is none
  engine     \* the running engine: which one, and whose; or None

vars == <<profile, key, engine>>

Init ==
  /\ profile \in Profiles
  /\ key = 0
  /\ engine = None

(* The engine comes up; a profile with no key gets one first.              *)
Start ==
  /\ engine = None
  /\ key' \in Nat \ {0}
  /\ key # 0 => key' = key
  /\ engine' \in [id : Nat, profile : {profile}, key : {key'}]
  /\ UNCHANGED profile

(* With the engine stopped, or stopping, the identity may change: a mint,  *)
(* a logout, a switch, a restart.                                          *)
Stop ==
  /\ engine' = None
  /\ profile' \in Profiles
  /\ key' \in Nat

Next == Start \/ Stop

Spec == Init /\ [][Next]_vars
============================================================================
