------------------------------ MODULE MCMemory ------------------------------
(***************************************************************************)
(* The cache and the allocator for TLC, in one run: they share no state,   *)
(* and which of the two runs is chosen in the initial state.               *)
(***************************************************************************)
EXTENDS Cache, MyAlloc

VARIABLE program

\* The cache never looks at a byte, so it is enough that few addresses ever hold
\* anything but 0.
Tracked == {<<1, 1>>, <<1, 0>>, <<6, 1>>, <<8, 0>>}

MCInit == program \in {"cache", "allocator"} /\ Init /\ AllocInit

MCNext ==
  /\ UNCHANGED program
  /\ \/ program = "cache" /\ Next /\ UNCHANGED allocVars
     \/ program = "allocator" /\ AllocNext /\ UNCHANGED vars

MCSpec == MCInit /\ [][MCNext]_<<program, vars, allocVars>>
=============================================================================
