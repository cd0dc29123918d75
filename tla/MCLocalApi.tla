----------------------------- MODULE MCLocalApi -----------------------------
(* Small instances of the LocalAPI server.                                 *)
EXTENDS LocalApi
=============================================================================
