------------------------------ MODULE MCAccum ------------------------------
(* Instances of the accumulator for TLC. *)
EXTENDS Accum

CONSTANTS p1, p2, p3

=============================================================================
