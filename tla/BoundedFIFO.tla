---------------------------- MODULE BoundedFIFO ----------------------------
(***************************************************************************)
(* What bounded_buffer.c promises: a first-in first-out queue of at most   *)
(* Capacity elements, into which each producer puts its own elements in    *)
(* order and from which an element is got exactly once.                    *)
(***************************************************************************)
EXTENDS Naturals, Sequences

CONSTANTS Producer, Modulus, Capacity

Element == [id : Producer, arg : 0 .. Modulus - 1]

VARIABLES
  fifo,   \* the elements put and not yet got
  turn    \* the argument of each producer's next element

Init == fifo = <<>> /\ turn = [p \in Producer |-> 0]

Put(p) ==
  /\ Len(fifo) < Capacity
  /\ fifo' = Append(fifo, [id |-> p, arg |-> turn[p]])
  /\ turn' = [turn EXCEPT ![p] = (@ + 1) % Modulus]

Get ==
  /\ fifo # <<>>
  /\ fifo' = Tail(fifo)
  /\ UNCHANGED turn

Next == Get \/ \E p \in Producer : Put(p)

Spec == Init /\ [][Next]_<<fifo, turn>>
=============================================================================
