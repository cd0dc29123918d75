------------------------------ MODULE MCServe ------------------------------
(* A small instance of Serve for TLC: the commands that tell the edits and *)
(* the checks apart, on two ports, and what an older build left on disk.   *)
EXTENDS Serve, TLC

edit(verb, type, port, mount, to, foreground) ==
  [verb |-> verb, type |-> type, port |-> port, mount |-> mount, to |-> to,
   foreground |-> foreground]

ServeEdits ==
  {edit("serve", "https", 443, "/", "a", fg) : fg \in BOOLEAN}
    \union {edit("serve", "https", 443, "/x", "a", FALSE),
            edit("serve", "https", 443, "/", "redirect", FALSE), edit("serve", "tcp", 80, "/", "b", TRUE),
            edit("serve off", "", 443, "/", "", FALSE), edit("funnel on", "", 443, "/", "", FALSE),
            edit("funnel off", "", 443, "/", "", FALSE), edit("reset", "", 0, "/", "", FALSE)}

Legacy == [Empty EXCEPT !.tcp = 443 :> [type |-> "https", to |-> "a"] @@ 80 :> [type |-> "http", to |-> "b"]]
BootConfigs == {Empty, Legacy}
ServeSymmetry == Permutations(Clients) \union Permutations(Profiles)
============================================================================
