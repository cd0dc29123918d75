------------------------------- MODULE MCTnet -------------------------------
(* Every subcommand.                                                       *)
EXTENDS Tnet
All == DOMAIN Table
=============================================================================
