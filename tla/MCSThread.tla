----------------------------- MODULE MCSThread -----------------------------
(* Instances of the thread API for TLC. *)
EXTENDS SThreadClient

CONSTANTS t1, t2, t3, t4, t5

Two == <<t1, t2>>
Three == <<t1, t2, t3>>
Four == <<t1, t2, t3, t4>>
=============================================================================
