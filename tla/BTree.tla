------------------------------- MODULE BTree -------------------------------
(***************************************************************************)
(* The third multimap of week5/multimap, opt_mm_impl_BT.c: a B-tree of     *)
(* nodes with up to Full keys.  The linked list of a node's keys is a      *)
(* sequence, num_keys its length, and a key holds the pointer to the       *)
(* subtree before it; node_child is the subtree after the last key.        *)
(*                                                                         *)
(* One call of search_tree(), insertHelper() or mm_traverse_helper() is    *)
(* one action (for a traversal: one action per key).  The asserts are      *)
(* compiled out (-DNDEBUG in the Makefile); what they state is part of     *)
(* NodesInShape.                                                           *)
(***************************************************************************)
EXTENDS Integers, FiniteSets, SequencesExt

CONSTANTS Keys,       \* the keys that are used: a set of integers
          Values,     \* the values that are used
          Address,    \* where malloc() can put a node
          MinFactor,  \* MIN_FACTOR
          Full,       \* FULL
          ArraySize,  \* ARRAY_SIZE
          Uninit,     \* what currentSize may be in memory fresh from malloc()
          MaxPairs,   \* bound: no more pairs than these are added
          NULL        \* no node, no call, and a value that nobody stored

VARIABLES root, nodes, pc, call, node, stack, passed, answer,
          added       \* history: how often each pair has been added

vars == <<root, nodes, pc, call, node, stack, passed, answer, added>>

Calls == [op : {"add", "contains_pair"}, key : Keys, value : Values]
           \cup [op : {"contains_key"}, key : Keys]
           \cup [op : {"traverse", "clear"}]

Searches == {"add", "contains_key", "contains_pair"}

Allocated == DOMAIN nodes
Free      == Address \ Allocated
Fresh     == CHOOSE a \in Free : TRUE

WithNode(heap, a, n) == [x \in DOMAIN heap \cup {a} |-> IF x = a THEN n ELSE heap[x]]

KeysOf(n)  == nodes[n].keys
NumKeys(n) == Len(KeysOf(n))

(* The first key of the node that is not below, and the first that is above. *)
At(n, k)    == Cardinality({i \in 1..NumKeys(n) : KeysOf(n)[i].key < k}) + 1
After(n, k) == Cardinality({i \in 1..NumKeys(n) : KeysOf(n)[i].key <= k}) + 1

(* The subtree that search_tree() goes on with. *)
Below(n, k) == IF At(n, k) > NumKeys(n) THEN nodes[n].child ELSE KeysOf(n)[At(n, k)].left

Found == /\ node # NULL
         /\ At(node, call.key) <= NumKeys(node)
         /\ KeysOf(node)[At(node, call.key)].key = call.key

NothingAdded == [p \in Keys \X Values |-> 0]
Pairs        == FoldFunction(+, 0, added)
Counted      == [added EXCEPT ![<<call.key, call.value>>] = @ + 1]

Init ==
    /\ root = NULL /\ nodes = <<>>
    /\ pc = "idle" /\ call = NULL /\ node = NULL
    /\ stack = <<>> /\ passed = <<>> /\ answer = NULL
    /\ added = NothingAdded

(* A function of multimap.h is called. *)
Invoke(c) ==
    /\ pc = "idle"
    /\ c.op = "add" => Pairs < MaxPairs
    /\ pc' = CASE c.op \in Searches -> "search"
               [] c.op = "traverse" -> "walk"
               [] OTHER             -> "clear"
    /\ call' = c /\ node' = root /\ passed' = <<>> /\ answer' = NULL
    /\ UNCHANGED <<root, nodes, stack, added>>

Return == pc' = "idle" /\ node' = NULL

Searching == pc = "search"

(* search_tree() calls itself for a subtree, which may be NULL. *)
Follow ==
    /\ Searching /\ node # NULL /\ ~Found
    /\ node' = Below(node, call.key)
    /\ UNCHANGED <<root, nodes, pc, call, stack, passed, answer, added>>

ContainsKey ==
    /\ Searching /\ call.op = "contains_key" /\ (node = NULL \/ Found)
    /\ answer' = (node # NULL)
    /\ Return
    /\ UNCHANGED <<root, nodes, call, stack, passed, added>>

(* The first currentSize values of an array. *)
Stored(array) == [i \in 1..array.size |-> array.value[i]]

ContainsPair ==
    /\ Searching /\ call.op = "contains_pair" /\ (node = NULL \/ Found)
    /\ answer' = /\ node # NULL
                 /\ LET arrays == KeysOf(node)[At(node, call.key)].values
                    IN  \E a \in DOMAIN arrays : \E i \in 1..arrays[a].size :
                           arrays[a].value[i] = call.value
    /\ Return
    /\ UNCHANGED <<root, nodes, call, stack, passed, added>>

(* A new array with its first value: currentSize is set for a key's first   *)
(* array alone.                                                             *)
NewArray(v, size) ==
    [value |-> [i \in 1..ArraySize |-> IF i = 1 THEN v ELSE NULL], size |-> size]

WithValue(values, v, size) ==
    IF values = <<>> THEN <<NewArray(v, 1)>>
    ELSE LET tail == values[Len(values)]
         IN  IF tail.size = ArraySize
             THEN Append(values, NewArray(v, size))
             ELSE [values EXCEPT ![Len(values)] =
                      [value |-> [@.value EXCEPT ![tail.size + 1] = v],
                       size  |-> tail.size + 1]]

(* mm_add_value() when search_tree() has found the key *)
AddValue ==
    /\ Searching /\ call.op = "add" /\ Found
    /\ \E size \in Uninit :
          nodes' = [nodes EXCEPT ![node].keys[At(node, call.key)].values =
                       WithValue(@, call.value, size)]
    /\ added' = Counted
    /\ Return
    /\ UNCHANGED <<root, call, stack, passed, answer>>

(* It has not: insertKey() starts again at the root. *)
StartInsert ==
    /\ Searching /\ call.op = "add" /\ node = NULL
    /\ pc' = "insert" /\ node' = root
    /\ UNCHANGED <<root, nodes, call, stack, passed, answer, added>>

Inserting == pc = "insert"

NewKey == [key |-> call.key, left |-> NULL,
           values |-> WithValue(<<>>, call.value, 1)]

(* insertKey() in an empty tree; the value follows in mm_add_value(). *)
CreateRoot ==
    /\ Inserting /\ node = NULL /\ Free # {}
    /\ nodes' = WithNode(nodes, Fresh, [keys |-> <<NewKey>>, child |-> NULL])
    /\ root' = Fresh
    /\ added' = Counted
    /\ Return
    /\ UNCHANGED <<call, stack, passed, answer>>

(* splitChild(): the lower keys stay in the child, with the subtree before *)
(* the middle key as their node_child, the upper ones go to a new node, and *)
(* the middle one to the parent, with the child on its left and the new    *)
(* node on its right.                                                      *)
Middle(n) == n.keys[MinFactor]

(* Mutant: node_child moves to the new node and stays in the child. *)
LowerSharing(n) == [keys  |-> SubSeq(n.keys, 1, MinFactor - 1),
                    child |-> IF Middle(n).left = NULL THEN n.child ELSE Middle(n).left]

Lower(n) == [keys |-> SubSeq(n.keys, 1, MinFactor - 1), child |-> Middle(n).left]
Upper(n) == [keys |-> SubSeq(n.keys, MinFactor + 1, Full), child |-> n.child]

Raised(above, key, child, new) ==
    LET place == Cardinality({i \in DOMAIN above.keys : above.keys[i].key <= key.key}) + 1
        wider == InsertAt(above.keys, place, [key EXCEPT !.left = child])
    IN  IF place = Len(wider)
        THEN [keys |-> wider, child |-> new]
        ELSE [keys |-> [wider EXCEPT ![place + 1].left = new], child |-> above.child]

Split(heap, parent, child, new) ==
    [a \in DOMAIN heap \cup {new} |->
        CASE a = child  -> Lower(heap[child])
          [] a = new    -> Upper(heap[child])
          [] a = parent -> Raised(heap[parent], Middle(heap[child]), child, new)
          [] OTHER      -> heap[a]]

(* insertKey() when the root is full: a new root above it. *)
SplitRoot ==
    /\ Inserting /\ node # NULL /\ node = root /\ NumKeys(root) = Full
    /\ \E a, b \in Free : a # b
    /\ LET top == Fresh
           new == CHOOSE a \in Free : a # top
       IN  /\ nodes' = Split(WithNode(nodes, top, [keys |-> <<>>, child |-> root]), top, root, new)
           /\ root' = top /\ node' = top
    /\ UNCHANGED <<pc, call, stack, passed, answer, added>>

InsertingHere == Inserting /\ node # NULL /\ NumKeys(node) # Full

(* insertHelper(): a key above all keys of the node is appended to it,     *)
(* whether the node has subtrees or not ...                                *)
AppendKey ==
    /\ InsertingHere /\ At(node, call.key) > NumKeys(node)
    /\ nodes' = [nodes EXCEPT ![node].keys = Append(@, NewKey)]
    /\ added' = Counted
    /\ Return
    /\ UNCHANGED <<root, call, stack, passed, answer>>

NotBelow(n, k) == KeysOf(n)[At(n, k)]

(* ... another is inserted before the first greater key, if there is no    *)
(* subtree before the first that is not smaller ...                        *)
InsertBefore ==
    /\ InsertingHere /\ At(node, call.key) <= NumKeys(node)
    /\ NotBelow(node, call.key).left = NULL
    /\ nodes' = [nodes EXCEPT ![node].keys =
                    IF After(node, call.key) > Len(@) THEN @
                    ELSE InsertAt(@, After(node, call.key), NewKey)]
    /\ added' = Counted
    /\ Return
    /\ UNCHANGED <<root, call, stack, passed, answer>>

(* Mutant: a full subtree is not split. *)
DescendUnsplit ==
    /\ InsertingHere /\ At(node, call.key) <= NumKeys(node)
    /\ NotBelow(node, call.key).left # NULL
    /\ node' = NotBelow(node, call.key).left
    /\ UNCHANGED <<root, nodes, pc, call, stack, passed, answer, added>>

(* ... or else goes to that subtree, which is split first if it is full.   *)
Descend ==
    /\ InsertingHere /\ At(node, call.key) <= NumKeys(node)
    /\ LET child == NotBelow(node, call.key).left
       IN  /\ child # NULL
           /\ NumKeys(child) = Full => Free # {}
           /\ nodes' = IF NumKeys(child) = Full THEN Split(nodes, node, child, Fresh)
                       ELSE nodes
           /\ node' = child
    /\ UNCHANGED <<root, pc, call, stack, passed, answer, added>>

Walking == pc = "walk"

(* Mutant: node_child is not walked. *)
EnterKeys ==
    /\ Walking /\ node # NULL
    /\ stack' = <<[node |-> node, next |-> 1]>> \o stack
    /\ node' = NULL
    /\ UNCHANGED <<root, nodes, pc, call, passed, answer, added>>

(* mm_traverse_helper() walks node_child first, then for each key passes   *)
(* its values and walks the subtree before it.                             *)
Enter ==
    /\ Walking /\ node # NULL
    /\ stack' = <<[node |-> node, next |-> 1]>> \o stack
    /\ node' = nodes[node].child
    /\ UNCHANGED <<root, nodes, pc, call, passed, answer, added>>

Pass ==
    /\ Walking /\ node = NULL /\ stack # <<>>
    /\ LET top == Head(stack)
       IN  /\ top.next <= NumKeys(top.node)
           /\ LET key    == KeysOf(top.node)[top.next]
                  values == FlattenSeq([a \in DOMAIN key.values |-> Stored(key.values[a])])
              IN  /\ passed' = passed \o [i \in DOMAIN values |-> <<key.key, values[i]>>]
                  /\ node' = key.left
    /\ stack' = [stack EXCEPT ![1].next = @ + 1]
    /\ UNCHANGED <<root, nodes, pc, call, answer, added>>

Leave ==
    /\ Walking /\ node = NULL /\ stack # <<>>
    /\ Head(stack).next > NumKeys(Head(stack).node)
    /\ stack' = Tail(stack)
    /\ UNCHANGED <<root, nodes, pc, call, node, passed, answer, added>>

Finish ==
    /\ Walking /\ node = NULL /\ stack = <<>>
    /\ Return
    /\ UNCHANGED <<root, nodes, call, stack, passed, answer, added>>

(* free_multimap_node() and free_multimap_keys() free what hangs below a   *)
(* node: every set that holds the root and the subtrees of its nodes.      *)
Subtrees(n) == {nodes[n].child} \cup {KeysOf(n)[i].left : i \in 1..NumKeys(n)}
Closed(S)   == \A n \in S : Subtrees(n) \subseteq S \cup {NULL}
Reachable   == {n \in Allocated :
                  /\ root # NULL
                  /\ \A S \in SUBSET Allocated : root \in S /\ Closed(S) => n \in S}

Clear ==
    /\ pc = "clear"
    /\ nodes' = [a \in Allocated \ Reachable |-> nodes[a]]
    /\ root' = NULL
    /\ added' = NothingAdded
    /\ Return
    /\ UNCHANGED <<call, stack, passed, answer>>

Next ==
    \/ \E c \in Calls : Invoke(c)
    \/ Follow \/ ContainsKey \/ ContainsPair \/ AddValue
    \/ StartInsert \/ CreateRoot \/ SplitRoot \/ AppendKey \/ InsertBefore \/ Descend
    \/ Enter \/ Pass \/ Leave \/ Finish
    \/ Clear

Spec == Init /\ [][Next]_vars

-----------------------------------------------------------------------------

(* The nodes form one tree below the root, whatever was split and in which *)
(* order: clear_multimap() frees every node, and none of them twice.       *)
Target(p) == IF p[2] = 0 THEN nodes[p[1]].child ELSE KeysOf(p[1])[p[2]].left
Pointers  == {p \in Allocated \X (0..Full) : p[2] <= NumKeys(p[1]) /\ Target(p) # NULL}

OneTree ==
    /\ Reachable = Allocated
    /\ \A p, q \in Pointers : Target(p) # root /\ (Target(p) = Target(q) => p = q)

(* The asserts of splitChild() and insertHelper() hold: no node is given a *)
(* key too many, and the keys within a node ascend.                        *)
NodesInShape ==
    \A n \in Allocated :
        /\ NumKeys(n) \in 1..Full
        /\ \A i, j \in 1..NumKeys(n) : i < j => KeysOf(n)[i].key < KeysOf(n)[j].key
        /\ Inserting /\ node = n /\ n # root => NumKeys(n) # Full

(* A traversal passes every pair that was added, as often as it was added, *)
(* as long as no key has needed a second array.                            *)
OneArrayEach == \A n \in Allocated : \A i \in 1..NumKeys(n) : Len(KeysOf(n)[i].values) = 1

EveryPairPassed ==
    pc = "idle" /\ call # NULL /\ call.op = "traverse" /\ OneArrayEach =>
        \A p \in Keys \X Values :
            Cardinality({i \in DOMAIN passed : passed[i] = p}) = added[p]

(* multimap.h: mm_contains_key() tells whether a key was added.            *)
AddedKeysFound ==
    pc = "idle" /\ answer # NULL /\ call.op = "contains_key" =>
        (answer <=> \E v \in Values : added[<<call.key, v>>] > 0)
=============================================================================
