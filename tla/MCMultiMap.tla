----------------------------- MODULE MCMultiMap -----------------------------
(***************************************************************************)
(* The programs of week5/multimap that TLC checks: the Makefile links the  *)
(* test with one implementation, which is chosen in the initial state.     *)
(***************************************************************************)
EXTENDS SearchTree

CONSTANTS Impls,               \* the implementations that are checked
          BKeys, BValues, BAddress, MinFactor, Full, ArraySize, Uninit, BMaxPairs

(* FULL follows from MIN_FACTOR; every node has a key of its own.          *)
ASSUME SplitAssumption  == MinFactor \in Nat \ {0, 1} /\ Full = 2 * MinFactor - 1
ASSUME RoomAssumption   == Cardinality(BAddress) >= BMaxPairs
ASSUME UninitAssumption == ArraySize \in Nat \ {0} /\ Uninit \subseteq 0..ArraySize
ASSUME BKeysAssumption  == BKeys \subseteq Int /\ NULL \notin BAddress

VARIABLES impl,                \* "tree" or "btree"
          b_root, b_nodes, b_pc, b_call, b_node, b_stack, b_passed, b_answer, added

bvars == <<b_root, b_nodes, b_pc, b_call, b_node, b_stack, b_passed, b_answer, added>>

B == INSTANCE BTree WITH
        Keys <- BKeys, Values <- BValues, Address <- BAddress, MaxPairs <- BMaxPairs,
        root <- b_root, nodes <- b_nodes, pc <- b_pc, call <- b_call, node <- b_node,
        stack <- b_stack, passed <- b_passed, answer <- b_answer

MCInit == impl \in Impls /\ Init /\ B!Init

MCNext == \/ impl = "tree" /\ Next /\ UNCHANGED <<impl, bvars>>
          \/ impl = "btree" /\ B!Next /\ UNCHANGED <<impl, vars>>

MCSpec == MCInit /\ [][MCNext]_<<impl, vars, bvars>>

(* The properties of BTree, under names that a configuration can use: one  *)
(* tree of nodes in shape, a traversal that passes every pair, and the     *)
(* answers of mm_contains_key().                                           *)
OneTree         == B!OneTree
NodesInShape    == B!NodesInShape
EveryPairPassed == B!EveryPairPassed
AddedKeysFound  == B!AddedKeysFound
=============================================================================
