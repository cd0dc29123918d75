----------------------------- MODULE MCPortmap -----------------------------
(* Small instances of Portmap for TLC.                                     *)
EXTENDS Portmap
============================================================================
