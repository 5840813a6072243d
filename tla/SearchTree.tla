----------------------------- MODULE SearchTree -----------------------------
(***************************************************************************)
(* The multimap of week5/multimap: a binary search tree of keys, each node *)
(* with a list of the values of its key.  mm_impl.c and opt_mm_impl.c      *)
(* search, add, traverse and clear in the same way and differ in the list  *)
(* alone, which is one of arrays with room for array_size values: 1 in     *)
(* mm_impl.c, ARRAY_SIZE in opt_mm_impl.c.                                 *)
(*                                                                         *)
(* One step of find_mm_node() is one action: it looks at one node.  The    *)
(* recursion of mm_traverse_helper() is kept on a stack of the nodes whose *)
(* left subtree is being walked.  malloc() is assumed to succeed, as the   *)
(* code assumes.                                                           *)
(***************************************************************************)
EXTENDS Integers, FiniteSets, SequencesExt

CONSTANTS Keys,        \* the keys that are used: a set of integers
          Values,      \* the values that are used
          Address,     \* where malloc() can put a node
          ArraySizes,  \* the values an array holds, one for each implementation
          MaxPairs,    \* bound: no more pairs than these are added
          NULL

ASSUME KeysAssumption  == Keys \subseteq Int
ASSUME NullAssumption  == NULL \notin Address /\ NULL \notin BOOLEAN
ASSUME SizesAssumption == ArraySizes \subseteq Nat \ {0}

VARIABLES array_size,  \* ARRAY_SIZE of the implementation that is linked
          root,        \* of the struct multimap
          nodes,       \* the nodes that are allocated, by address
          pc,          \* "idle", "find" or "walk"
          call,        \* the call that runs, or ran last
          node,        \* the local variable node
          stack,       \* nodes whose mm_traverse_helper() is in the left subtree
          passed,      \* the pairs the traversal has passed to its function
          answer       \* what the last contains function returned

vars == <<array_size, root, nodes, pc, call, node, stack, passed, answer>>

Sides == {"left", "right"}

Calls == [op : {"add", "contains_pair"}, key : Keys, value : Values]
           \cup [op : {"contains_key"}, key : Keys]
           \cup [op : {"traverse", "clear"}]

\* Nothing that is called is a null pointer.
ASSUME CallAssumption == NULL \notin Calls

Searches == {"add", "contains_key", "contains_pair"}

(* What bzero() leaves, with the key filled in. *)
alloc_mm_node(k) == [key |-> k, values |-> <<>>, child |-> [s \in Sides |-> NULL]]

Allocated == DOMAIN nodes
Room      == Allocated # Address
Fresh     == CHOOSE a \in Address : a \notin Allocated

(* The pairs that are stored, each named by its place. *)
Places == {p \in Allocated \X (1..MaxPairs) \X (1..MaxPairs) :
             LET arrays == nodes[p[1]].values
             IN  p[2] \in DOMAIN arrays /\ p[3] \in DOMAIN arrays[p[2]]}

Side(n, k)  == IF nodes[n].key > k THEN "left" ELSE "right"
Child(n, k) == nodes[n].child[Side(n, k)]

(* free_multimap_node() reaches what every set closed under the children holds. *)
Closed(S) == \A n \in S : \A s \in Sides : nodes[n].child[s] \in S \cup {NULL}
Reachable == {n \in Allocated :
                 /\ root # NULL
                 /\ \A S \in SUBSET Allocated : root \in S /\ Closed(S) => n \in S}

Init ==
    /\ array_size \in ArraySizes
    /\ root = NULL /\ nodes = <<>>
    /\ pc = "idle" /\ call = NULL /\ node = NULL
    /\ stack = <<>> /\ passed = <<>> /\ answer = NULL

(* A function of multimap.h is called. *)
Invoke(c) ==
    /\ pc = "idle"
    /\ c.op = "add" => Room /\ Cardinality(Places) < MaxPairs
    /\ pc' = CASE c.op \in Searches -> "find"
               [] c.op = "traverse" -> "walk"
               [] OTHER             -> "clear"
    /\ call' = c
    /\ node' = root
    /\ passed' = <<>>
    /\ answer' = NULL
    /\ UNCHANGED <<array_size, root, nodes, stack>>

Return == pc' = "idle" /\ node' = NULL

Finding == pc = "find"
Adding  == Finding /\ call.op = "add"
Found   == node # NULL /\ nodes[node].key = call.key

(* find_mm_node() goes on to the child, which may be NULL. *)
Follow ==
    /\ Finding /\ node # NULL /\ ~Found
    /\ call.op = "add" => Child(node, call.key) # NULL
    /\ node' = Child(node, call.key)
    /\ UNCHANGED <<array_size, root, nodes, pc, call, stack, passed, answer>>

(* find_mm_node() with create_if_not_found, in an empty tree ... *)
CreateRoot ==
    /\ Adding /\ node = NULL
    /\ nodes' = [a \in Allocated \cup {Fresh} |->
                    IF a = Fresh THEN alloc_mm_node(call.key) ELSE nodes[a]]
    /\ root' = Fresh /\ node' = Fresh
    /\ UNCHANGED <<array_size, pc, call, stack, passed, answer>>

(* Mutant: the pointer is always the right one. *)
LinkedRight(n, s, a) == [nodes[n] EXCEPT !.child = [@ EXCEPT !["right"] = a]]

(* ... and below a node that has no child on the side of the key. *)
Linked(n, s, a) == [nodes[n] EXCEPT !.child = [@ EXCEPT ![s] = a]]

CreateChild ==
    /\ Adding /\ node # NULL /\ ~Found /\ Child(node, call.key) = NULL
    /\ nodes' = [a \in Allocated \cup {Fresh} |->
                    IF a = Fresh THEN alloc_mm_node(call.key)
                    ELSE IF a = node THEN Linked(node, Side(node, call.key), Fresh)
                    ELSE nodes[a]]
    /\ node' = Fresh
    /\ UNCHANGED <<array_size, root, pc, call, stack, passed, answer>>

(* Mutant: a value that finds the last array full replaces the last value. *)
WithValueLost(values, v) ==
    IF values = <<>> THEN <<<<v>>>>
    ELSE IF Len(values[Len(values)]) = array_size
    THEN [values EXCEPT ![Len(values)][array_size] = v]
    ELSE [values EXCEPT ![Len(values)] = Append(@, v)]

(* The rest of mm_add_value(): into the last array, or into a new one. *)
WithValue(values, v) ==
    IF values = <<>> \/ Len(values[Len(values)]) = array_size
    THEN Append(values, <<v>>)
    ELSE [values EXCEPT ![Len(values)] = Append(@, v)]

AddValue ==
    /\ Adding /\ Found
    /\ nodes' = [nodes EXCEPT ![node].values = WithValue(@, call.value)]
    /\ Return
    /\ UNCHANGED <<array_size, root, call, stack, passed, answer>>

Holds(n, v) == \E i \in DOMAIN nodes[n].values :
                  \E j \in DOMAIN nodes[n].values[i] : nodes[n].values[i][j] = v

(* mm_contains_key() and mm_contains_pair(), once find_mm_node() has returned *)
ContainsKey ==
    /\ Finding /\ call.op = "contains_key" /\ (node = NULL \/ Found)
    /\ answer' = (node # NULL)
    /\ Return
    /\ UNCHANGED <<array_size, root, nodes, call, stack, passed>>

ContainsPair ==
    /\ Finding /\ call.op = "contains_pair" /\ (node = NULL \/ Found)
    /\ answer' = (node # NULL /\ Holds(node, call.value))
    /\ Return
    /\ UNCHANGED <<array_size, root, nodes, call, stack, passed>>

Walking == pc = "walk"

(* mm_traverse_helper() is called for the left child, and for its left child, *)
Enter ==
    /\ Walking /\ node # NULL
    /\ stack' = <<node>> \o stack
    /\ node' = nodes[node].child["left"]
    /\ UNCHANGED <<array_size, root, nodes, pc, call, passed, answer>>

(* ... returns, passes the values of the node and turns to the right child, *)
Pass ==
    /\ Walking /\ node = NULL /\ stack # <<>>
    /\ LET n == Head(stack)
           values == FlattenSeq(nodes[n].values)
       IN  /\ passed' = passed \o [i \in DOMAIN values |-> <<nodes[n].key, values[i]>>]
           /\ node' = nodes[n].child["right"]
    /\ stack' = Tail(stack)
    /\ UNCHANGED <<array_size, root, nodes, pc, call, answer>>

(* ... until the last one has returned. *)
Finish ==
    /\ Walking /\ node = NULL /\ stack = <<>>
    /\ Return
    /\ UNCHANGED <<array_size, root, nodes, call, stack, passed, answer>>

(* clear_multimap() frees the children of a node before the node. *)
Clear ==
    /\ pc = "clear"
    /\ nodes' = [a \in Allocated \ Reachable |-> nodes[a]]
    /\ root' = NULL
    /\ Return
    /\ UNCHANGED <<array_size, call, stack, passed, answer>>

Next ==
    \/ \E c \in Calls : Invoke(c)
    \/ Follow \/ CreateRoot \/ CreateChild \/ AddValue
    \/ ContainsKey \/ ContainsPair
    \/ Enter \/ Pass \/ Finish
    \/ Clear

Spec == Init /\ [][Next]_vars

-----------------------------------------------------------------------------

(* mm_contains_key() and mm_contains_pair() tell whether any node at all    *)
(* that is allocated has the key, or the pair: the one path that            *)
(* find_mm_node() takes never passes it by.                                 *)
AnswersTrue ==
    pc = "idle" /\ answer # NULL =>
        (answer <=> \E n \in Allocated :
                       /\ nodes[n].key = call.key
                       /\ call.op = "contains_pair" => Holds(n, call.value))

(* Between two calls every node that is allocated hangs below the root, so *)
(* that clear_multimap() leaves nothing allocated, and hangs there once, so *)
(* that it frees nothing twice.                                             *)
HungOnce ==
    /\ Reachable = Allocated
    /\ \A n, m \in Allocated, s, t \in Sides :
          nodes[n].child[s] # NULL =>
             /\ nodes[n].child[s] # root
             /\ nodes[n].child[s] = nodes[m].child[t] => n = m /\ s = t

(* The arrays of a node are full but for the last one and never empty, so  *)
(* that the test currentSize == ARRAY_SIZE of the last array is enough.    *)
ArraysPacked ==
    \A n \in Allocated : \A i \in DOMAIN nodes[n].values :
        /\ Len(nodes[n].values[i]) \in 1..array_size
        /\ i < Len(nodes[n].values) => Len(nodes[n].values[i]) = array_size

-----------------------------------------------------------------------------

(* The multimap.h that the tree implements: a key is present as soon as its *)
(* node has a value.                                                        *)
Valued == {n \in Allocated : nodes[n].values # <<>>}

Promise == INSTANCE MultiMap WITH
    content <- [k \in {nodes[n].key : n \in Valued} |->
                   FlattenSeq(nodes[CHOOSE n \in Valued : nodes[n].key = k].values)],
    call    <- IF pc = "idle" THEN NULL ELSE call

(* Every call does what multimap.h says of it: no value that was added is   *)
(* lost, overwritten or passed twice, whatever arrays the values of its key *)
(* fill (opt_mm_impl.c:238), and the traversal is in the order of the keys. *)
ImplementsMultiMap == Promise!Spec
=============================================================================
