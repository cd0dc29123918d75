------------------------------ MODULE MCWatch ------------------------------
(* Small instances of Watch for TLC: the bare watch, and the masked ones   *)
(* that tell its front-loads and feeds apart.                              *)
EXTENDS Watch

watch(state, snapshot, prefs) ==
  [initial_state |-> state, initial_status |-> snapshot, prefs |-> prefs]

StreamMasks == {watch(FALSE, FALSE, FALSE), watch(TRUE, FALSE, FALSE),
                watch(FALSE, FALSE, TRUE), watch(TRUE, TRUE, TRUE)}

============================================================================
