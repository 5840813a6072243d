----------------------------- MODULE MCFibTest -----------------------------
(* Instances of fibtest for TLC: main() creates the producers first. *)
EXTENDS FibTest

CONSTANTS p0, p1, c0, c1

TwoAndOne == <<p0, p1, c0>>
TwoAndTwo == <<p0, p1, c0, c1>>
=============================================================================
