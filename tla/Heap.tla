-------------------------------- MODULE Heap --------------------------------
(***************************************************************************)
(* What an allocator promises its client: each request is given an extent  *)
(* of the pool that no live extent overlaps, or is refused; an extent is   *)
(* live until the client frees it.  This is what testalloc.c checks by     *)
(* filling every block with data and reading it back.                      *)
(***************************************************************************)
EXTENDS Integers

CONSTANTS Sizes, Pool     \* the sizes of requests, and the size of the pool

VARIABLE live             \* the live extents, as pairs of start and size

Bytes(x) == x[1] .. x[1] + x[2] - 1

Init == live = {}

Alloc ==
  \E x \in (0 .. Pool) \X Sizes :
    /\ Bytes(x) \subseteq 0 .. Pool - 1
    /\ \A y \in live : y[1] # x[1] /\ Bytes(x) \cap Bytes(y) = {}
    /\ live' = live \cup {x}

Free == \E x \in live : live' = live \ {x}

Next == Alloc \/ Free

Spec == Init /\ [][Next]_live
=============================================================================
