----------------------------- MODULE FlatMemory -----------------------------
(***************************************************************************)
(* The memory of src/week5/cachesim/memory.c, and what membase.h promises  *)
(* of every other level of the simulated memory too: a byte that is read   *)
(* is the last one written to its address, and is 0 before.                *)
(***************************************************************************)
CONSTANTS Address, Byte, Zero

VARIABLES
  bytes,    \* the byte at each address
  result    \* what read_byte returned last

Init == bytes = [a \in Address |-> Zero] /\ result = Zero

Read(a) == result' = bytes[a] /\ UNCHANGED bytes

Write(a, b) == bytes' = [bytes EXCEPT ![a] = b] /\ UNCHANGED result

Next == \E a \in Address : Read(a) \/ \E b \in Byte : Write(a, b)

Spec == Init /\ [][Next]_<<bytes, result>>
=============================================================================
