----------------------------- MODULE MCDrivers -----------------------------
(* Small instances of Drivers for TLC.  LocalAPI connections are           *)
(* interchangeable, so safety runs use their symmetry.                     *)
EXTENDS Drivers, TLC

ClientSymmetry == Permutations(Clients)
============================================================================
