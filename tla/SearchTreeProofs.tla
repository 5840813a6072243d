-------------------------- MODULE SearchTreeProofs --------------------------
(* The binary search tree of mm_impl.c and opt_mm_impl.c, for any keys, any
   number of nodes and any size of the arrays: the answers are true, clearing
   frees everything once, and the arrays are packed.

   What makes the one path of find_mm_node() enough is where a node may hang:
   every node has a span, the keys that are searched through it, the spans of
   two nodes are disjoint unless one of them hangs below the other, and what
   hangs below a node is on the side of a child that is not NULL.

   The next part shows that the tree implements MultiMap.  The spans say of the
   traversal which keys it has ahead of it, and of a node's arrays the invariant
   keeps that they can be joined, one after the other.

   The last part is about the B-tree of opt_mm_impl_BT.c: its nodes form one
   tree and stay in shape, and a traversal passes every pair. *)
EXTENDS MCMultiMap, FiniteSetTheorems, WellFoundedInduction, TLAPS

Node == [key : Keys, values : Seq(Seq(Values)), child : [Sides -> Allocated \cup {NULL}]]

Types ==
    /\ array_size \in Nat \ {0}
    /\ Allocated \subseteq Address
    /\ nodes \in [Allocated -> Node]
    /\ root \in Allocated \cup {NULL} /\ (root = NULL => Allocated = {})
    /\ pc \in {"idle", "find", "walk", "clear"}
    /\ pc = "find" => call \in Calls /\ call.op \in Searches
    /\ node \in Allocated \cup {NULL}
    /\ stack \in Seq(Allocated) /\ (pc # "walk" => stack = <<>>)
    /\ answer \in BOOLEAN \cup {NULL} /\ (pc # "idle" => answer = NULL)

\* There is room for the node that is about to be created, and a root is
\* created in an empty tree only.
HasRoom == Adding => /\ node = NULL => root = NULL
                     /\ ~Found => Room

\* The keys that are searched below n on side s.
Part(span, n, s) == {k \in span[n] : k # nodes[n].key /\ Side(n, k) = s}

\* m hangs below n.
Under(span, n, m) == \E s \in Sides : /\ nodes[n].child[s] # NULL
                                      /\ span[m] \subseteq Part(span, n, s)

SpansFit(span) ==
    /\ span \in [Allocated -> SUBSET Keys]
    /\ root # NULL => span[root] = Keys
    /\ \A n \in Allocated : nodes[n].key \in span[n]
    /\ \A n \in Allocated, s \in Sides :
          nodes[n].child[s] # NULL => span[nodes[n].child[s]] = Part(span, n, s)
    /\ \A n, m \in Allocated :
          \/ n = m
          \/ span[n] \cap span[m] = {}
          \/ Under(span, n, m)
          \/ Under(span, m, n)

\* While find_mm_node() looks at a node, the key is in the node's span; once
\* it is NULL, no node has the key.
OnPath(span) ==
    pc = "find" => /\ node # NULL => call.key \in span[node]
                   /\ node = NULL => \A n \in Allocated : nodes[n].key # call.key

Placed == \E span \in [Allocated -> SUBSET Keys] : SpansFit(span) /\ OnPath(span)

\* Every set that holds the root and is closed under the children is all there is.
Hung == \A S \in SUBSET Allocated : root \in S /\ Closed(S) => S = Allocated

IInv == Types /\ HasRoom /\ Placed /\ Hung /\ AnswersTrue

-----------------------------------------------------------------------------

LEMMA FreshNode ==
  ASSUME Room, Allocated \subseteq Address
  PROVE  Fresh \in Address \ Allocated
BY DEF Room, Fresh

\* Where a search leaves the tree, no node has the key.
LEMMA NoOther ==
  ASSUME Types, NEW span, SpansFit(span),
         NEW n \in Allocated, NEW k \in span[n], nodes[n].key # k,
         Child(n, k) = NULL
  PROVE  \A m \in Allocated : nodes[m].key # k
<1> SUFFICES ASSUME NEW m \in Allocated, nodes[m].key = k
             PROVE  FALSE
  OBVIOUS
<1>1. k \in span[m] /\ n # m
  BY DEF SpansFit
<1>2. ASSUME Under(span, n, m) PROVE FALSE
  <2>1. PICK s \in Sides : nodes[n].child[s] # NULL /\ span[m] \subseteq Part(span, n, s)
    BY <1>2 DEF Under
  <2>2. Side(n, k) = s
    BY <1>1, <2>1 DEF Part
  <2> QED
    BY <2>1, <2>2 DEF Child
<1>3. ASSUME Under(span, m, n) PROVE FALSE
  BY <1>3 DEF Under, Part
<1>4. span[n] \cap span[m] # {}
  BY <1>1
<1> QED
  BY <1>1, <1>2, <1>3, <1>4 DEF SpansFit

LEMMA InitIInv == Init => IInv
<1> SUFFICES ASSUME Init PROVE IInv
  OBVIOUS
<1>1. Allocated = {}
  BY DEF Init, Allocated
<1>2. Types
  BY <1>1, SizesAssumption DEF Init, Types, Node
<1>3. HasRoom /\ AnswersTrue
  BY DEF Init, HasRoom, AnswersTrue, Adding, Finding
<1>4. Placed
  <2> DEFINE span == [n \in Allocated |-> Keys]
  <2>1. span \in [Allocated -> SUBSET Keys]
    OBVIOUS
  <2>2. SpansFit(span) /\ OnPath(span)
    BY <1>1 DEF Init, SpansFit, OnPath
  <2> QED
    BY <2>1, <2>2 DEF Placed
<1>5. Hung
  BY <1>1 DEF Hung
<1> QED
  BY <1>2, <1>3, <1>4, <1>5 DEF IInv

-----------------------------------------------------------------------------

LEMMA KeysDistinct ==
  ASSUME NEW span, SpansFit(span),
         NEW n \in Allocated, NEW m \in Allocated, nodes[n].key = nodes[m].key
  PROVE  n = m
<1>1. nodes[n].key \in span[n] /\ nodes[n].key \in span[m]
  BY DEF SpansFit
<1>2. ~Under(span, n, m) /\ ~Under(span, m, n)
  BY <1>1 DEF Under, Part
<1> QED
  BY <1>1, <1>2 DEF SpansFit

\* Steps that leave the tree alone.
LEMMA SameTree ==
  ASSUME UNCHANGED <<root, nodes>>, NEW span, SpansFit(span)
  PROVE  SpansFit(span)'
BY DEF SpansFit, Allocated, Under, Part, Side

LEMMA StillHung ==
  ASSUME Hung, UNCHANGED <<root, nodes>>
  PROVE  Hung'
BY DEF Hung, Closed, Allocated

LEMMA SearchKeys ==
  ASSUME Types, pc = "find"
  PROVE  call.key \in Keys
BY DEF Types, Calls, Searches

LEMMA InvokeKeeps ==
  ASSUME IInv, NEW c \in Calls, Invoke(c)
  PROVE  IInv'
<1>1. Types'
  BY DEF IInv, Types, Invoke, Allocated, Node, Searches
<1>2. HasRoom'
  BY DEF Invoke, HasRoom, Adding, Finding, Room, Allocated
<1>3. AnswersTrue'
  BY DEF Invoke, AnswersTrue
<1>4. Placed'
  <2>1. PICK span \in [Allocated -> SUBSET Keys] : SpansFit(span) /\ OnPath(span)
    BY DEF IInv, Placed
  <2>2. SpansFit(span)'
    BY <2>1, SameTree DEF Invoke
  <2>3. OnPath(span)'
    <3> SUFFICES ASSUME pc' = "find"
                 PROVE  /\ node' # NULL => call'.key \in span[node']
                        /\ node' = NULL => \A n \in Allocated' : nodes'[n].key # call'.key
      BY DEF OnPath
    <3>1. c.key \in Keys
      BY DEF Invoke, Calls, Searches
    <3> QED
      BY <2>1, <3>1 DEF Invoke, SpansFit, IInv, Types, Allocated
  <2> QED
    BY <2>1, <2>2, <2>3 DEF Placed, Invoke, Allocated
<1>5. Hung'
  BY StillHung DEF IInv, Invoke
<1> QED
  BY <1>1, <1>2, <1>3, <1>4, <1>5 DEF IInv

LEMMA FollowKeeps ==
  ASSUME IInv, Follow
  PROVE  IInv'
<1>1. node \in Allocated /\ Child(node, call.key) \in Allocated \cup {NULL}
  BY DEF Follow, IInv, Types, Node, Child, Side, Sides
<1>2. Types'
  BY <1>1 DEF Follow, IInv, Types, Allocated, Node, Finding
<1>3. HasRoom'
  BY DEF Follow, IInv, HasRoom, Adding, Finding, Room, Allocated, Found
<1>4. AnswersTrue'
  BY DEF Follow, AnswersTrue, Finding
<1>5. Placed'
  <2>1. PICK span \in [Allocated -> SUBSET Keys] : SpansFit(span) /\ OnPath(span)
    BY DEF IInv, Placed
  <2>2. SpansFit(span)'
    BY <2>1, SameTree DEF Follow
  <2>3. call.key \in span[node] /\ nodes[node].key # call.key
    BY <2>1, <1>1 DEF Follow, OnPath, Finding, Found
  <2>4. CASE Child(node, call.key) = NULL
    <3>1. \A m \in Allocated : nodes[m].key # call.key
      BY <1>1, <2>1, <2>3, <2>4, NoOther DEF IInv
    <3>2. OnPath(span)'
      BY <2>4, <3>1 DEF Follow, OnPath, Allocated
    <3> QED
      BY <2>1, <2>2, <3>2 DEF Placed, Follow, Allocated
  <2>5. CASE Child(node, call.key) # NULL
    <3>1. span[Child(node, call.key)] = Part(span, node, Side(node, call.key))
      BY <1>1, <2>1, <2>5 DEF SpansFit, Child, Side, Sides
    <3>2. call.key \in span[Child(node, call.key)]
      BY <2>3, <3>1 DEF Part
    <3>3. OnPath(span)'
      BY <2>5, <3>2 DEF Follow, OnPath
    <3> QED
      BY <2>1, <2>2, <3>3 DEF Placed, Follow, Allocated
  <2> QED
    BY <2>4, <2>5
<1>6. Hung'
  BY StillHung DEF IInv, Follow
<1> QED
  BY <1>2, <1>3, <1>4, <1>5, <1>6 DEF IInv

\* The steps that return or walk and leave the tree alone.
LEMMA StillPlaced ==
  ASSUME IInv, UNCHANGED <<root, nodes>>, pc' # "find"
  PROVE  Placed'
<1>1. PICK span \in [Allocated -> SUBSET Keys] : SpansFit(span) /\ OnPath(span)
  BY DEF IInv, Placed
<1>2. SpansFit(span)' /\ OnPath(span)'
  BY <1>1, SameTree DEF OnPath
<1> QED
  BY <1>1, <1>2 DEF Placed, Allocated

LEMMA ContainsKeyKeeps ==
  ASSUME IInv, ContainsKey
  PROVE  IInv'
<1>1. Types' /\ HasRoom'
  BY DEF ContainsKey, Return, IInv, Types, Allocated, Node, HasRoom, Adding, Finding
<1>2. Placed'
  BY StillPlaced DEF ContainsKey, Return
<1>3. AnswersTrue'
  <2>1. (node # NULL) <=> \E n \in Allocated : nodes[n].key = call.key
    BY DEF ContainsKey, IInv, Placed, OnPath, Finding, Found, Types
  <2> QED
    BY <2>1 DEF ContainsKey, AnswersTrue, Allocated
<1>4. Hung'
  BY StillHung DEF IInv, ContainsKey
<1> QED
  BY <1>1, <1>2, <1>3, <1>4 DEF IInv

LEMMA ContainsPairKeeps ==
  ASSUME IInv, ContainsPair
  PROVE  IInv'
<1>1. Types' /\ HasRoom'
  BY DEF ContainsPair, Return, IInv, Types, Allocated, Node, HasRoom, Adding, Finding
<1>2. Placed'
  BY StillPlaced DEF ContainsPair, Return
<1>3. AnswersTrue'
  <2>1. (node # NULL /\ Holds(node, call.value)) <=>
           \E n \in Allocated : nodes[n].key = call.key /\ Holds(n, call.value)
    <3>1. CASE node = NULL
      BY <3>1 DEF ContainsPair, IInv, Placed, OnPath, Finding
    <3>2. CASE node # NULL
      <4>1. node \in Allocated /\ nodes[node].key = call.key
        BY <3>2 DEF ContainsPair, IInv, Types, Found
      <4>2. \A n \in Allocated : nodes[n].key = call.key => n = node
        BY <4>1, KeysDistinct DEF IInv, Placed
      <4> QED
        BY <3>2, <4>1, <4>2
    <3> QED
      BY <3>1, <3>2
  <2>2. \A n, v : Holds(n, v)' = Holds(n, v)
    BY DEF Holds, ContainsPair
  <2> QED
    BY <2>1, <2>2 DEF ContainsPair, AnswersTrue, Allocated
<1>4. Hung'
  BY StillHung DEF IInv, ContainsPair
<1> QED
  BY <1>1, <1>2, <1>3, <1>4 DEF IInv

LEMMA WalkKeeps ==
  ASSUME IInv, Enter \/ Pass \/ Finish
  PROVE  IInv'
<1>1. Types'
  <2>1. CASE Enter
    BY <2>1 DEF Enter, Walking, IInv, Types, Allocated, Node, Sides
  <2>2. CASE Pass
    <3>1. pc = "walk" /\ pc' = "walk" /\ UNCHANGED <<array_size, root, nodes, call, answer>>
      BY <2>2 DEF Pass, Walking
    <3>2. Head(stack) \in Allocated /\ stack' \in Seq(Allocated)
      BY <2>2 DEF Pass, IInv, Types
    <3>3. node' \in Allocated \cup {NULL}
      BY <2>2, <3>2 DEF Pass, IInv, Types, Node, Sides
    <3> QED
      BY <3>1, <3>2, <3>3 DEF IInv, Types, Allocated, Node
  <2>3. CASE Finish
    BY <2>3 DEF Finish, Return, IInv, Types, Allocated, Node
  <2> QED
    BY <2>1, <2>2, <2>3
<1>2. UNCHANGED <<root, nodes, answer, call>> /\ pc' # "find" /\ answer = NULL
  BY DEF Enter, Pass, Finish, Return, Walking, IInv, Types
<1>3. HasRoom' /\ AnswersTrue' /\ Placed'
  BY <1>2, StillPlaced DEF HasRoom, Adding, Finding, AnswersTrue
<1>4. Hung'
  BY StillHung DEF IInv, Enter, Pass, Finish
<1> QED
  BY <1>1, <1>3, <1>4 DEF IInv

LEMMA AllReached ==
  ASSUME Types, Hung
  PROVE  Reachable = Allocated
<1>1. CASE root = NULL
  BY <1>1 DEF Types, Reachable
<1>2. CASE root # NULL
  BY <1>2 DEF Hung, Reachable
<1> QED
  BY <1>1, <1>2

LEMMA ClearKeeps ==
  ASSUME IInv, Clear
  PROVE  IInv'
<1>1. Allocated' = {} /\ root' = NULL /\ pc' = "idle"
  BY AllReached DEF Clear, Return, IInv, Allocated
<1>2. answer' = NULL
  BY DEF Clear, IInv, Types
<1>3. Types'
  <2>1. nodes' \in [Allocated' -> Node']
    BY <1>1, AllReached DEF Clear, IInv, Allocated
  <2> QED
    BY <1>1, <1>2, <2>1 DEF Clear, Return, IInv, Types
<1>4. HasRoom' /\ AnswersTrue' /\ Hung'
  BY <1>1, <1>2 DEF HasRoom, Adding, Finding, AnswersTrue, Hung
<1>5. Placed'
  <2>0. [n \in {} |-> Keys] \in [{} -> SUBSET Keys]
    OBVIOUS
  <2>1. PICK span \in [{} -> SUBSET Keys] : TRUE
    BY <2>0
  <2>2. SpansFit(span)' /\ OnPath(span)'
    BY <1>1, <2>1 DEF SpansFit, OnPath
  <2> QED
    BY <1>1, <2>1, <2>2 DEF Placed
<1> QED
  BY <1>3, <1>4, <1>5 DEF IInv

LEMMA AddValueKeeps ==
  ASSUME IInv, AddValue
  PROVE  IInv'
<1>1. /\ Allocated' = Allocated
      /\ \A n \in Allocated : nodes'[n].key = nodes[n].key /\ nodes'[n].child = nodes[n].child
  BY DEF AddValue, Adding, Finding, Found, IInv, Types, Node, Allocated
<1>2. Types'
  <2>1. WithValue(nodes[node].values, call.value) \in Seq(Seq(Values))
    <3>1. nodes[node].values \in Seq(Seq(Values)) /\ call.value \in Values
      BY DEF AddValue, Adding, Finding, Found, IInv, Types, Node, Calls
    <3> QED
      BY <3>1 DEF WithValue
  <2>2. node \in Allocated /\ nodes \in [Allocated -> Node]
    BY DEF AddValue, Found, IInv, Types
  <2>3. nodes' \in [Allocated -> Node]
    BY <2>1, <2>2 DEF AddValue, Node
  <2>4. /\ pc' = "idle" /\ node' = NULL /\ UNCHANGED <<array_size, root, stack, answer>>
        /\ stack = <<>>
    BY DEF AddValue, Adding, Finding, Return, IInv, Types
  <2> QED
    BY <1>1, <2>3, <2>4 DEF IInv, Types, Node
<1>3. HasRoom' /\ AnswersTrue'
  BY DEF AddValue, Adding, Finding, Return, IInv, Types, HasRoom, AnswersTrue
<1>4. Hung'
  BY <1>1 DEF AddValue, IInv, Hung, Closed
<1>5. Placed'
  <2>1. PICK span \in [Allocated -> SUBSET Keys] : SpansFit(span)
    BY DEF IInv, Placed
  <2>2. SpansFit(span)'
    <3>1. \A n \in Allocated, s \in Sides : Part(span, n, s)' = Part(span, n, s)
      BY <1>1 DEF Part, Side
    <3>2. \A n, m \in Allocated : Under(span, n, m)' <=> Under(span, n, m)
      BY <1>1, <3>1 DEF Under
    <3> QED
      BY <1>1, <2>1, <3>1, <3>2 DEF SpansFit, AddValue
  <2>3. OnPath(span)'
    BY DEF OnPath, AddValue, Return
  <2> QED
    BY <1>1, <2>1, <2>2, <2>3 DEF Placed
<1> QED
  BY <1>2, <1>3, <1>4, <1>5 DEF IInv

\* Both ways to create a node: Allocated grows by Fresh, which has the key
\* that is sought and no children, and find_mm_node() returns it.
LEMMA CreateFacts ==
  ASSUME IInv, CreateRoot \/ CreateChild
  PROVE  /\ Fresh \in Address \ Allocated /\ Fresh # NULL
         /\ call.key \in Keys /\ call \in Calls /\ call.op = "add"
         /\ pc = "find" /\ pc' = "find" /\ answer' = NULL /\ stack = <<>>
         /\ Allocated' = Allocated \cup {Fresh}
         /\ nodes'[Fresh] = alloc_mm_node(call.key)
         /\ node' = Fresh /\ UNCHANGED <<array_size, call, stack, answer>>
<1>1. pc = "find" /\ call.op = "add" /\ ~Found
  BY DEF CreateRoot, CreateChild, Adding, Finding, Found
<1>2. Fresh \in Address \ Allocated
  BY <1>1, FreshNode DEF IInv, Types, HasRoom, Adding, Finding
<1>3. Allocated' = Allocated \cup {Fresh} /\ nodes'[Fresh] = alloc_mm_node(call.key)
  BY <1>2 DEF CreateRoot, CreateChild, Allocated
<1> QED
  BY <1>1, <1>2, <1>3, SearchKeys, NullAssumption
     DEF IInv, Types, CreateRoot, CreateChild

LEMMA CreateRootKeeps ==
  ASSUME IInv, CreateRoot
  PROVE  IInv'
<1>1. root = NULL /\ Allocated = {} /\ root' = Fresh /\ Allocated' = {Fresh}
  BY CreateFacts DEF IInv, Types, HasRoom, CreateRoot
<1>2. alloc_mm_node(call.key) \in Node'
  BY <1>1, CreateFacts DEF Node, alloc_mm_node
<1>3. Types'
  BY <1>1, <1>2, CreateFacts DEF IInv, Types, CreateRoot, Allocated
<1>4. HasRoom' /\ AnswersTrue'
  BY <1>1, CreateFacts DEF HasRoom, AnswersTrue, Adding, Finding, Found, alloc_mm_node
<1>5. Hung'
  BY <1>1, CreateFacts DEF Hung
<1>6. Placed'
  <2>1. PICK span \in [{Fresh} -> SUBSET Keys] : span[Fresh] = Keys
    <3>1. [n \in {Fresh} |-> Keys] \in [{Fresh} -> SUBSET Keys]
      OBVIOUS
    <3> QED
      BY <3>1
  <2>2. SpansFit(span)'
    BY <1>1, <2>1, CreateFacts DEF SpansFit, alloc_mm_node
  <2>3. OnPath(span)'
    BY <2>1, CreateFacts DEF OnPath
  <2> QED
    BY <1>1, <2>1, <2>2, <2>3 DEF Placed
<1> QED
  BY <1>3, <1>4, <1>5, <1>6 DEF IInv

LEMMA CreateChildKeeps ==
  ASSUME IInv, CreateChild
  PROVE  IInv'
<1> DEFINE side == Side(node, call.key)
<1>1. /\ node \in Allocated /\ side \in Sides
      /\ nodes[node].child[side] = NULL /\ nodes[node].key # call.key
      /\ root \in Allocated /\ root' = root
  BY DEF CreateChild, Found, Child, Side, Sides, IInv, Types
<1>2. /\ \A n \in Allocated : nodes'[n].key = nodes[n].key /\ nodes'[n].values = nodes[n].values
      /\ \A n \in Allocated : n # node => nodes'[n] = nodes[n]
      /\ \A s \in Sides : nodes'[node].child[s] = IF s = side THEN Fresh ELSE nodes[node].child[s]
  BY <1>1, CreateFacts DEF CreateChild, Linked, IInv, Types, Node
<1> HIDE DEF side
<1>3. Types'
  <2>1. \A n \in Allocated' : nodes'[n] \in Node'
    <3>1. nodes'[Fresh] \in Node'
      <4>1. alloc_mm_node(call.key) \in Node'
        BY CreateFacts DEF Node, alloc_mm_node
      <4> QED
        BY <4>1, CreateFacts
    <3>2. \A n \in Allocated \ {node} : nodes'[n] \in Node'
      BY <1>2, CreateFacts DEF IInv, Types, Node
    <3>3. nodes'[node] \in Node'
      <4>1. nodes'[node] = Linked(node, side, Fresh)
        BY <1>1, CreateFacts DEF CreateChild, side
      <4>2. /\ nodes[node] \in Node /\ Fresh \in Allocated'
            /\ Allocated \cup {NULL} \subseteq Allocated' \cup {NULL}
        BY <1>1, CreateFacts DEF IInv, Types
      <4>3. Linked(node, side, Fresh).child \in [Sides -> Allocated' \cup {NULL}]
        BY <1>1, <4>2 DEF Linked, Node
      <4> QED
        BY <4>1, <4>2, <4>3 DEF Linked, Node
        <3> QED
      BY <3>1, <3>2, <3>3, CreateFacts
  <2>2. nodes' \in [Allocated' -> Node']
    BY <2>1, CreateFacts DEF CreateChild, Allocated
  <2> QED
    BY <1>1, <2>2, CreateFacts DEF IInv, Types
<1>4. HasRoom' /\ AnswersTrue'
  BY CreateFacts DEF HasRoom, AnswersTrue, Adding, Finding, Found, alloc_mm_node, IInv, Types
<1>5. Hung'
  <2> SUFFICES ASSUME NEW S \in SUBSET Allocated', root \in S, Closed(S)'
               PROVE  S = Allocated'
    BY <1>1 DEF Hung
  <2>1. S \ {Fresh} \in SUBSET Allocated /\ root \in S \ {Fresh}
    BY <1>1, CreateFacts
  <2>2. Closed(S \ {Fresh})
    <3> SUFFICES ASSUME NEW n \in S \ {Fresh}, NEW s \in Sides, nodes[n].child[s] # NULL
                 PROVE  nodes[n].child[s] \in S \ {Fresh}
      BY DEF Closed
    <3>1. n \in Allocated /\ nodes[n].child[s] \in Allocated
      BY <2>1 DEF IInv, Types, Node
    <3>2. nodes'[n].child[s] = nodes[n].child[s]
      BY <1>1, <1>2, <3>1
    <3>3. nodes'[n].child[s] \in S \cup {NULL}
      BY DEF Closed
    <3> QED
      BY <3>1, <3>2, <3>3, CreateFacts
  <2>3. S \ {Fresh} = Allocated
    BY <2>1, <2>2 DEF IInv, Hung
  <2>4. Fresh \in S
    BY <1>1, <1>2, <2>3, CreateFacts DEF Closed
  <2> QED
    BY <2>3, <2>4, CreateFacts
\* Names for what the step fixes: node and Fresh differ in the next state.
<1>6. PICK parent \in Allocated, fresh \in Address, on \in Sides :
         parent = node /\ fresh = Fresh /\ on = side
  BY <1>1, CreateFacts
<1>7. Placed'
  <2>1. PICK old \in [Allocated -> SUBSET Keys] : SpansFit(old) /\ OnPath(old)
    BY DEF IInv, Placed
  <2> DEFINE new == [n \in Allocated \cup {fresh} |->
                       IF n = fresh THEN Part(old, parent, on) ELSE old[n]]
  <2>2. PICK span \in [Allocated \cup {fresh} -> SUBSET Keys] : span = new
    <3>1. new \in [Allocated \cup {fresh} -> SUBSET Keys]
      BY <1>1, <1>6, <2>1 DEF Part
    <3> QED
      BY <3>1
  <2>3. /\ span[fresh] = Part(old, parent, on)
        /\ \A n \in Allocated : span[n] = old[n]
    BY <2>2, <1>6, CreateFacts
  <2> HIDE DEF new
  <2>4. call.key \in Part(old, parent, on)
    BY <1>1, <2>1, <1>6, CreateFacts, NullAssumption DEF OnPath, Part, side, IInv, Types
  <2>5. \A n \in Allocated, s \in Sides : Part(span, n, s)' = Part(old, n, s)
    BY <1>2, <1>6, <2>3 DEF Part, Side
  <2>6. \A n, m \in Allocated : Under(old, n, m) => Under(span, n, m)'
    <3> SUFFICES ASSUME NEW n \in Allocated, NEW m \in Allocated, Under(old, n, m)
                 PROVE  Under(span, n, m)'
      OBVIOUS
    <3>1. PICK s \in Sides : nodes[n].child[s] # NULL /\ old[m] \subseteq Part(old, n, s)
      BY DEF Under
    <3>2. nodes'[n].child[s] # NULL
      BY <1>1, <1>2, <1>6, <3>1
    <3> QED
      BY <2>3, <2>5, <3>1, <3>2 DEF Under
  <2>7. Under(span, parent, fresh)'
    BY <1>1, <1>2, <2>3, <2>5, <1>6, CreateFacts DEF Under
  <2>8. ASSUME NEW m \in Allocated, m # parent
        PROVE  span[m] \cap span[fresh] = {} \/ Under(span, m, fresh)'
    <3>1. CASE old[m] \cap old[parent] = {}
      BY <2>3, <3>1 DEF Part
    <3>2. CASE Under(old, parent, m)
      <4>1. PICK s \in Sides : nodes[parent].child[s] # NULL /\ old[m] \subseteq Part(old, parent, s)
        BY <3>2 DEF Under
      <4> QED
        BY <1>1, <1>6, <2>3, <4>1 DEF Part
    <3>3. CASE Under(old, m, parent)
      <4>1. PICK s \in Sides : nodes[m].child[s] # NULL /\ old[parent] \subseteq Part(old, m, s)
        BY <3>3 DEF Under
      <4>2. span[fresh] \subseteq Part(span, m, s)'
        BY <2>3, <2>5, <4>1 DEF Part
      <4>3. nodes'[m].child[s] # NULL
        BY <1>2, <1>6, <2>8, <4>1
      <4> QED
        BY <4>2, <4>3 DEF Under
    <3> QED
      BY <1>1, <1>6, <2>1, <2>8, <3>1, <3>2, <3>3 DEF SpansFit
  <2>9. ASSUME NEW n \in Allocated', NEW s \in Sides, nodes'[n].child[s] # NULL
        PROVE  span[nodes'[n].child[s]] = Part(span, n, s)'
    <3>1. n # fresh
      BY <2>9, <1>6, CreateFacts DEF alloc_mm_node
    <3>2. CASE n = parent /\ s = on
      BY <1>1, <1>2, <1>6, <2>3, <2>5, <3>2
    <3>3. CASE ~(n = parent /\ s = on)
      <4>1. n \in Allocated /\ nodes'[n].child[s] = nodes[n].child[s]
        BY <1>1, <1>2, <3>1, <3>3, <1>6, CreateFacts
      <4>2. nodes[n].child[s] \in Allocated
        BY <2>9, <4>1 DEF IInv, Types, Node
      <4> QED
        BY <2>1, <2>3, <2>5, <2>9, <4>1, <4>2 DEF SpansFit
    <3> QED
      BY <3>2, <3>3
  <2>10. ASSUME NEW n \in Allocated', NEW m \in Allocated', n # m
         PROVE  \/ span[n] \cap span[m] = {}
                \/ Under(span, n, m)'
                \/ Under(span, m, n)'
    <3>1. CASE n \in Allocated /\ m \in Allocated
      BY <2>1, <2>3, <2>6, <2>10, <3>1 DEF SpansFit
    <3>2. CASE n = fresh
      BY <2>7, <2>8, <2>10, <3>2, <1>6, CreateFacts
    <3>3. CASE m = fresh
      BY <2>7, <2>8, <2>10, <3>3, <1>6, CreateFacts
    <3> QED
      BY <3>1, <3>2, <3>3, <1>6, CreateFacts
  <2>11. \A n \in Allocated' : nodes'[n].key \in span[n]
    BY <1>2, <2>1, <2>3, <2>4, <1>6, CreateFacts DEF SpansFit, alloc_mm_node
  <2>12. SpansFit(span)'
    <3>1. span \in [Allocated' -> SUBSET Keys]
      BY <2>2, <1>6, CreateFacts
    <3>2. root' # NULL => span[root'] = Keys
      BY <1>1, <1>6, <2>1, <2>3 DEF SpansFit, IInv, Types
    <3> QED
      BY <2>9, <2>10, <2>11, <3>1, <3>2 DEF SpansFit
  <2>13. OnPath(span)'
    BY <2>3, <2>4, <1>6, CreateFacts DEF OnPath
  <2> QED
    BY <2>2, <2>12, <2>13, <1>6, CreateFacts DEF Placed
<1> QED
  BY <1>3, <1>4, <1>5, <1>7 DEF IInv

LEMMA NextKeeps == IInv /\ [Next]_vars => IInv'
<1> SUFFICES ASSUME IInv, [Next]_vars
             PROVE  IInv'
  OBVIOUS
<1>1. CASE UNCHANGED vars
  <2>1. Types' /\ HasRoom' /\ Hung'
    BY <1>1 DEF vars, IInv, Types, Allocated, Node, HasRoom, Adding, Finding, Found, Room,
                Hung, Closed
  <2>2. AnswersTrue'
    BY <1>1 DEF vars, IInv, AnswersTrue, Allocated, Holds
  <2>3. Placed'
    <3>1. PICK span \in [Allocated -> SUBSET Keys] : SpansFit(span) /\ OnPath(span)
      BY DEF IInv, Placed
    <3>2. SpansFit(span)' /\ OnPath(span)'
      BY <1>1, <3>1, SameTree DEF vars, OnPath, Allocated
    <3> QED
      BY <1>1, <3>1, <3>2 DEF vars, Placed, Allocated
  <2> QED
    BY <2>1, <2>2, <2>3 DEF IInv
<1> QED
  BY <1>1, InvokeKeeps, FollowKeeps, CreateRootKeeps, CreateChildKeeps, AddValueKeeps,
     ContainsKeyKeeps, ContainsPairKeeps, WalkKeeps, ClearKeeps
     DEF Next

LEMMA Invariance == Spec => []IInv
BY InitIInv, NextKeeps, PTL DEF Spec

-----------------------------------------------------------------------------

(* mm_contains_key() and mm_contains_pair() never miss what is in the tree,
   for any keys and any order of the calls. *)
THEOREM AnswersAreTrue == Spec => []AnswersTrue
<1>1. IInv => AnswersTrue
  BY DEF IInv
<1> QED
  BY <1>1, Invariance, PTL

(* clear_multimap() reaches every node, by one pointer each. *)
THEOREM NodesHangOnce == Spec => []HungOnce
<1>1. IInv => HungOnce
  <2> SUFFICES ASSUME IInv,
                      NEW n \in Allocated, NEW m \in Allocated,
                      NEW s \in Sides, NEW t \in Sides,
                      nodes[n].child[s] # NULL
               PROVE  /\ nodes[n].child[s] # root
                      /\ nodes[n].child[s] = nodes[m].child[t] => n = m /\ s = t
    BY AllReached DEF IInv, HungOnce
  <2> DEFINE c == nodes[n].child[s]
  <2>1. PICK span : SpansFit(span)
    BY DEF IInv, Placed
  <2>2. /\ c \in Allocated
        /\ span[c] = Part(span, n, s)
        /\ nodes[c].key \in span[c] /\ nodes[n].key \in span[n] /\ nodes[m].key \in span[m]
        /\ span[n] \subseteq Keys
    BY <2>1 DEF SpansFit, IInv, Types, Node
  <2>3. c # root
    BY <2>1, <2>2 DEF SpansFit, Part
  <2>4. ASSUME c = nodes[m].child[t] PROVE n = m /\ s = t
    <3>1. span[c] = Part(span, m, t)
      BY <2>1, <2>4 DEF SpansFit
    <3>2. ~Under(span, n, m) /\ ~Under(span, m, n)
      BY <2>2, <3>1 DEF Under, Part
    <3>3. n = m
      BY <2>1, <2>2, <3>1, <3>2 DEF SpansFit, Part
    <3> QED
      BY <2>2, <3>1, <3>3 DEF Part
  <2> QED
    BY <2>3, <2>4
<1> QED
  BY <1>1, Invariance, PTL

\* The arrays of one node.
Packed(values) ==
    \A i \in DOMAIN values : /\ Len(values[i]) \in 1..array_size
                             /\ i < Len(values) => Len(values[i]) = array_size

LEMMA BelowLast ==
  ASSUME NEW last \in Nat, NEW i \in 1..last, i # last
  PROVE  i < last
OBVIOUS

LEMMA WithValuePacked ==
  ASSUME NEW values \in Seq(Seq(Values)), NEW v \in Values,
         array_size \in Nat \ {0}, Packed(values)
  PROVE  Packed(WithValue(values, v))
<1>1. CASE values = <<>> \/ Len(values[Len(values)]) = array_size
  <2> DEFINE w == Append(values, <<v>>)
  <2>1. /\ Len(w) = Len(values) + 1 /\ w[Len(w)] = <<v>> /\ Len(<<v>>) = 1
        /\ \A i \in 1..Len(values) : w[i] = values[i]
    OBVIOUS
  <2>2. \A i \in 1..Len(values) : Len(values[i]) = array_size
    BY <1>1 DEF Packed
  <2>3. Packed(w)
    <3> SUFFICES ASSUME NEW i \in 1..Len(w)
                 PROVE  Len(w[i]) \in 1..array_size /\ (i < Len(w) => Len(w[i]) = array_size)
      BY DEF Packed
    <3> QED
      BY <2>1, <2>2
  <2> QED
    BY <1>1, <2>3 DEF WithValue
<1>2. CASE ~(values = <<>> \/ Len(values[Len(values)]) = array_size)
  <2> DEFINE n == Len(values)
             w == [values EXCEPT ![n] = Append(@, v)]
  <2>1. n \in 1..Len(values) /\ values[n] \in Seq(Values)
    BY <1>2
  <2>2. Len(values[n]) \in 1..array_size /\ Len(values[n]) # array_size
    BY <1>2, <2>1 DEF Packed
  <2>3. /\ DOMAIN w = 1..n /\ Len(w) = n /\ n \in Nat
        /\ w[n] = Append(values[n], v) /\ Len(w[n]) = Len(values[n]) + 1
        /\ \A i \in 1..n : i # n => w[i] = values[i]
        /\ DOMAIN values = 1..n
    BY <2>1
  <2>4. \A i \in 1..n : i # n => Len(values[i]) = array_size
    <3> SUFFICES ASSUME NEW i \in 1..Len(values), i # Len(values)
                 PROVE  Len(values[i]) = array_size
      OBVIOUS
    <3>1. Len(values) \in Nat /\ DOMAIN values = 1..Len(values)
      OBVIOUS
    <3>2. i < Len(values)
      BY <3>1, BelowLast
    <3> QED
      BY <3>1, <3>2 DEF Packed
  <2> HIDE DEF w, n
  <2>5. Packed(w)
    <3> SUFFICES ASSUME NEW i \in 1..n
                 PROVE  Len(w[i]) \in 1..array_size /\ (i < n => Len(w[i]) = array_size)
      BY <2>3 DEF Packed
    <3>1. CASE i = n
      <4>1. Len(values[n]) \in 1..array_size /\ Len(values[n]) # array_size
        BY <2>2 DEF n
      <4> QED
        BY <2>3, <3>1, <4>1
    <3>2. CASE i # n
      BY <2>2, <2>3, <2>4, <3>2
    <3> QED
      BY <3>1, <3>2
  <2> QED
    BY <1>2, <2>5 DEF WithValue, w, n
<1> QED
  BY <1>1, <1>2

(* No array is left partly filled behind another one, and none overflows. *)
THEOREM ArraysArePacked == Spec => []ArraysPacked
<1>1. Init => ArraysPacked
  BY DEF Init, ArraysPacked, Allocated
<1>2. IInv /\ ArraysPacked /\ [Next]_vars => ArraysPacked'
  <2> SUFFICES ASSUME IInv, ArraysPacked, [Next]_vars
               PROVE  ArraysPacked'
    OBVIOUS
  <2>1. CASE UNCHANGED <<array_size, nodes>>
    BY <2>1 DEF ArraysPacked, Allocated
  <2>2. CASE CreateRoot \/ CreateChild
    <3>1. \A n \in Allocated : nodes'[n].values = nodes[n].values
      <4>1. CASE CreateRoot
        BY <4>1, CreateFacts DEF CreateRoot
      <4>2. CASE CreateChild
        BY <4>2, CreateFacts DEF CreateChild, Linked, IInv, Types, Node
      <4> QED
        BY <2>2, <4>1, <4>2
    <3>2. nodes'[Fresh].values = <<>>
      BY <2>2, CreateFacts DEF alloc_mm_node
    <3> QED
      BY <2>2, <3>1, <3>2, CreateFacts DEF ArraysPacked
  <2>3. CASE AddValue
    <3>1. /\ node \in Allocated /\ call.value \in Values
          /\ nodes[node].values \in Seq(Seq(Values))
      BY <2>3 DEF AddValue, Adding, Finding, Found, IInv, Types, Node, Calls
    <3>2. Packed(WithValue(nodes[node].values, call.value))
      BY <3>1, WithValuePacked DEF ArraysPacked, Packed, IInv, Types
    <3>3. /\ Allocated' = Allocated /\ array_size' = array_size
          /\ nodes'[node].values = WithValue(nodes[node].values, call.value)
          /\ \A n \in Allocated : n # node => nodes'[n] = nodes[n]
      BY <2>3, <3>1 DEF AddValue, IInv, Types, Node, Allocated
    <3> QED
      BY <3>1, <3>2, <3>3 DEF ArraysPacked, Packed
  <2>4. CASE Clear
    BY <2>4, AllReached DEF Clear, ArraysPacked, Allocated, IInv
  <2> QED
    BY <2>1, <2>2, <2>3, <2>4
       DEF Next, vars, Invoke, Follow, ContainsKey, ContainsPair, Enter, Pass, Finish
<1> QED
  BY <1>1, <1>2, Invariance, PTL DEF Spec

-----------------------------------------------------------------------------
(* What multimap.h promises: the tree implements MultiMap. *)

\* A set of natural numbers that is not empty has a least one.
LEMMA LeastNat ==
  ASSUME NEW D \in SUBSET Nat, D # {}
  PROVE  \E n \in D : \A m \in D : n <= m
<1>1. IsWellFoundedOn(OpToRel(<, Nat), Nat)
  BY NatLessThanWellFounded
<1>2. PICK n \in D : \A m \in D : ~(<<m, n>> \in OpToRel(<, Nat))
  BY <1>1, WFMin
<1>3. \A m \in D : ~(m < n)
  BY <1>2 DEF OpToRel
<1> QED
  BY <1>3

\* w[i] is the first i of the arrays vs in one.
Joined(vs, w) ==
    /\ w \in [1 .. Len(vs) -> Seq(Values)]
    /\ \A i \in 1 .. Len(vs) : w[i] = IF i = 1 THEN vs[i] ELSE w[i - 1] \o vs[i]

\* s has the values of the arrays, and some.
Gathers(vs, s) ==
    /\ s # <<>>
    /\ \A v \in Values : (\E k \in 1 .. Len(s) : s[k] = v) <=>
          \E i \in 1 .. Len(vs) : \E j \in 1 .. Len(vs[i]) : vs[i][j] = v

\* The arrays can be joined: there is no induction to show that any can.
Joinable(vs) == \E w \in [1 .. Len(vs) -> Seq(Values)] :
                   Joined(vs, w) /\ (vs # <<>> => Gathers(vs, w[Len(vs)]))

LEMMA JoinedIsFlat ==
  ASSUME NEW vs \in Seq(Seq(Values)), vs # <<>>, NEW w, Joined(vs, w)
  PROVE  FlattenSeq(vs) = w[Len(vs)]
<1> DEFINE n == Len(vs)
           Rec(g) == g = [i \in 1 .. n |-> IF i = 1 THEN vs[i] ELSE g[i - 1] \o vs[i]]
<1>1. n \in Nat /\ n # 0
  OBVIOUS
<1>2. Rec(w)
  BY DEF Joined
<1>3. ASSUME NEW g, Rec(g) PROVE g = w
  <2> DEFINE T == {i \in 1 .. n : g[i] # w[i]}
  <2>1. T \in SUBSET Nat
    BY <1>1
  <2>2. ASSUME T # {} PROVE FALSE
    <3>1. PICK i \in T : \A m \in T : i <= m
      BY <2>1, <2>2, LeastNat
    <3>2. i \in 1 .. n /\ g[i] # w[i]
      BY <3>1
    <3>3. g[i] = IF i = 1 THEN vs[i] ELSE g[i - 1] \o vs[i]
      BY <1>3, <3>2
    <3>4. w[i] = IF i = 1 THEN vs[i] ELSE w[i - 1] \o vs[i]
      BY <1>2, <3>2
    <3>5. i # 1
      BY <3>2, <3>3, <3>4
    <3>6. i - 1 \in 1 .. n /\ ~(i <= i - 1)
      BY <1>1, <3>2, <3>5
    <3>7. g[i - 1] = w[i - 1]
      BY <3>1, <3>6
    <3> QED
      BY <3>2, <3>3, <3>4, <3>5, <3>7
  <2>3. \A i \in 1 .. n : g[i] = w[i]
    BY <2>2
  <2>4. /\ g = [i \in 1 .. n |-> g[i]]
        /\ w = [i \in 1 .. n |-> w[i]]
    BY <1>2, <1>3
  <2> QED
    BY <2>3, <2>4
<1>4. (CHOOSE g : Rec(g)) = w
  BY <1>2, <1>3
<1> QED
  BY <1>1, <1>4 DEF FlattenSeq

LEMMA FlatFacts ==
  ASSUME NEW vs \in Seq(Seq(Values)), Joinable(vs)
  PROVE  /\ FlattenSeq(vs) \in Seq(Values)
         /\ vs = <<>> => FlattenSeq(vs) = <<>>
         /\ vs # <<>> => Gathers(vs, FlattenSeq(vs))
<1>1. CASE vs = <<>>
  BY <1>1 DEF FlattenSeq
<1>2. CASE vs # <<>>
  <2>1. PICK w \in [1 .. Len(vs) -> Seq(Values)] : Joined(vs, w) /\ Gathers(vs, w[Len(vs)])
    BY <1>2 DEF Joinable
  <2>2. Len(vs) \in 1 .. Len(vs)
    BY <1>2
  <2> QED
    BY <1>2, <2>1, <2>2, JoinedIsFlat
<1> QED
  BY <1>1, <1>2

LEMMA AppendToSecond ==
  ASSUME NEW a \in Seq(Values), NEW b \in Seq(Values), NEW v \in Values
  PROVE  Append(a \o b, v) = a \o Append(b, v)
<1> DEFINE s == Append(a \o b, v)
           t == a \o Append(b, v)
<1>1. /\ Len(a) \in Nat /\ Len(b) \in Nat
      /\ s \in Seq(Values) /\ Len(s) = Len(a) + Len(b) + 1
      /\ t \in Seq(Values) /\ Len(t) = Len(a) + Len(b) + 1
  OBVIOUS
<1>2. ASSUME NEW k \in 1 .. Len(s) PROVE s[k] = t[k]
  <2>1. CASE k <= Len(a)
    BY <1>1, <2>1
  <2>2. CASE ~(k <= Len(a)) /\ k # Len(s)
    <3>1. k - Len(a) \in 1 .. Len(b) /\ k \in 1 .. Len(a \o b)
      BY <1>1, <2>2
    <3>2. s[k] = (a \o b)[k]
      BY <1>1, <3>1
    <3>3. (a \o b)[k] = b[k - Len(a)]
      BY <1>1, <2>2, <3>1
    <3>4. t[k] = Append(b, v)[k - Len(a)]
      BY <1>1, <2>2, <3>1
    <3> QED
      BY <1>1, <3>1, <3>2, <3>3, <3>4
  <2>3. CASE k = Len(s)
    <3>1. s[k] = v
      BY <1>1, <2>3
    <3>2. k - Len(a) = Len(b) + 1
      BY <1>1, <2>3
    <3>3. t[k] = Append(b, v)[k - Len(a)]
      BY <1>1, <2>3, <3>2
    <3> QED
      BY <1>1, <3>1, <3>2, <3>3
  <2> QED
    BY <2>1, <2>2, <2>3
<1> HIDE DEF s, t
<1>3. /\ s = [k \in 1 .. Len(s) |-> s[k]]
      /\ t = [k \in 1 .. Len(t) |-> t[k]]
  BY <1>1
<1>4. s = t
  BY <1>1, <1>2, <1>3
<1> QED
  BY <1>4 DEF s, t

\* One value more, in the last array or in a new one, is one more at the end.
LEMMA FlatGrows ==
  ASSUME NEW vs \in Seq(Seq(Values)), Joinable(vs), NEW v \in Values
  PROVE  LET us == WithValue(vs, v)
         IN  us # <<>> /\ Joinable(us) /\ FlattenSeq(us) = Append(FlattenSeq(vs), v)
<1> DEFINE n  == Len(vs)
           f  == FlattenSeq(vs)
           us == WithValue(vs, v)
           l  == Len(us)
           g  == Append(f, v)
<1>1. f \in Seq(Values) /\ (vs = <<>> => f = <<>>) /\ (vs # <<>> => Gathers(vs, f))
  BY FlatFacts
<1>2. PICK w \in [1 .. Len(vs) -> Seq(Values)] : Joined(vs, w)
  BY DEF Joinable
<1>3. n \in Nat /\ (vs # <<>> => n \in 1 .. n /\ f = w[n])
  BY <1>2, JoinedIsFlat
<1> HIDE DEF f
<1>4. g \in Seq(Values) /\ g # <<>> /\ Len(g) = Len(f) + 1 /\ g[Len(f) + 1] = v
      /\ \A k \in 1 .. Len(f) : g[k] = f[k]
  <2>1. f \in Seq(Values)
    BY <1>1
  <2>2. g \in Seq(Values) /\ Len(f) \in Nat /\ Len(g) = Len(f) + 1
    BY <2>1
  <2>3. g[Len(f) + 1] = v
    BY <2>1
  <2>4. \A k \in 1 .. Len(f) : g[k] = f[k]
    BY <2>1
  <2> HIDE DEF g
  <2>5. g # <<>>
    BY <2>2
  <2> QED
    BY <2>2, <2>3, <2>4, <2>5
<1> DEFINE t == [i \in 1 .. l |-> IF i = l THEN g ELSE w[i]]
<1>5. /\ us \in Seq(Seq(Values)) /\ us # <<>> /\ Joined(us, t)
      /\ \A x \in Values : (\E i \in 1 .. l : \E j \in 1 .. Len(us[i]) : us[i][j] = x) <=>
            x = v \/ \E i \in 1 .. n : \E j \in 1 .. Len(vs[i]) : vs[i][j] = x
  <2>1. CASE vs = <<>> \/ Len(vs[Len(vs)]) = array_size
    <3>1. us = Append(vs, <<v>>)
      BY <2>1 DEF WithValue
    <3>2. /\ us \in Seq(Seq(Values)) /\ us # <<>> /\ l = n + 1 /\ us[n + 1] = <<v>>
          /\ \A i \in 1 .. n : us[i] = vs[i]
      BY <3>1
    <3> HIDE DEF us, l
    <3>3. Joined(us, t)
      <4>1. t \in [1 .. Len(us) -> Seq(Values)]
        BY <1>2, <1>3, <1>4, <3>2 DEF l
      <4>2. t[1] = us[1]
        <5>1. CASE vs = <<>>
          <6>1. n = 0
            BY <5>1
          <6>2. g = <<v>>
            BY <1>1, <5>1
          <6> QED
            BY <3>2, <6>1, <6>2
        <5>2. CASE vs # <<>>
          <6>1. 1 \in 1 .. n /\ 1 \in 1 .. l /\ 1 # l
            BY <1>3, <3>2, <5>2
          <6>2. w[1] = vs[1]
            BY <1>2, <6>1 DEF Joined
          <6> QED
            BY <3>2, <6>1, <6>2
        <5> QED
          BY <5>1, <5>2
      <4>3. ASSUME NEW i \in 2 .. n PROVE t[i] = t[i - 1] \o us[i]
        <5>1. i \in 1 .. n /\ i - 1 \in 1 .. n /\ i # 1 /\ i # l /\ i - 1 # l /\ i \in 1 .. l /\ i - 1 \in 1 .. l
          BY <1>3, <3>2
        <5> QED
          BY <1>2, <3>2, <5>1 DEF Joined
      <4>4. n # 0 => t[n + 1] = t[n] \o us[n + 1]
        <5>1. ASSUME n # 0 PROVE t[n + 1] = g /\ t[n] = f
          BY <1>3, <3>2, <5>1
        <5>2. g = f \o <<v>>
          BY <1>1
        <5> QED
          BY <3>2, <5>1, <5>2
      <4>5. \A i \in 1 .. n + 1 : i = 1 \/ i \in 2 .. n \/ (i = n + 1 /\ n # 0)
        BY <1>3
      <4> HIDE DEF t
      <4>6. \A i \in 1 .. n + 1 : t[i] = IF i = 1 THEN us[i] ELSE t[i - 1] \o us[i]
        <5> TAKE i \in 1 .. n + 1
        <5>1. CASE i = 1
          BY <4>2, <5>1
        <5>2. CASE i # 1
          <6>1. CASE i \in 2 .. n
            BY <4>3, <5>2, <6>1
          <6>2. CASE i = n + 1 /\ n # 0
            <7>1. i - 1 = n
              BY <1>3, <6>2
            <7> QED
              BY <4>4, <5>2, <6>2, <7>1
          <6> QED
            BY <4>5, <5>2, <6>1, <6>2
        <5> QED
          BY <5>1, <5>2
      <4> QED
        BY <3>2, <4>1, <4>6 DEF Joined, l
    <3>4. ASSUME NEW x \in Values
          PROVE  (\E i \in 1 .. l : \E j \in 1 .. Len(us[i]) : us[i][j] = x) <=>
                    x = v \/ \E i \in 1 .. n : \E j \in 1 .. Len(vs[i]) : vs[i][j] = x
      <4>1. \A i \in 1 .. l : i \in 1 .. n \/ i = n + 1
        BY <1>3, <3>2
      <4>2. n + 1 \in 1 .. l /\ \A i \in 1 .. n : i \in 1 .. l
        BY <1>3, <3>2
      <4>3. (\E j \in 1 .. Len(us[n + 1]) : us[n + 1][j] = x) <=> x = v
        BY <3>2
      <4> QED
        BY <3>2, <4>1, <4>2, <4>3
    <3> QED
      BY <3>2, <3>3, <3>4
  <2>2. CASE ~(vs = <<>> \/ Len(vs[Len(vs)]) = array_size)
    <3>1. us = [vs EXCEPT ![n] = Append(@, v)] /\ vs # <<>>
      BY <2>2 DEF WithValue
    <3> DEFINE a == vs[n]
               b == Append(a, v)
    <3>2. n \in 1 .. n /\ a \in Seq(Values) /\ DOMAIN vs = 1 .. n
      BY <1>3, <3>1
    <3>3. /\ us \in Seq(Seq(Values)) /\ l = n /\ us # <<>>
          /\ us[n] = b /\ \A i \in 1 .. n : i # n => us[i] = vs[i]
      <4>1. b \in Seq(Values) /\ \A i \in 1 .. n : vs[i] \in Seq(Values)
        BY <3>2
      <4>2. us = [vs EXCEPT ![n] = b]
        BY <3>1
      <4>3. us = [i \in 1 .. n |-> IF i = n THEN b ELSE vs[i]]
        BY <3>2, <4>2
      <4> HIDE DEF us, b
      <4>4. us \in [1 .. n -> Seq(Values)]
        BY <4>1, <4>3
      <4> HIDE DEF n
      <4>5. us \in Seq(Seq(Values)) /\ Len(us) = n
        BY <1>3, <4>4
      <4>6. us # <<>>
        BY <3>2, <4>5
      <4> QED
        BY <3>2, <4>3, <4>5, <4>6
    <3>4. /\ b \in Seq(Values) /\ Len(b) = Len(a) + 1 /\ b[Len(a) + 1] = v
          /\ \A k \in 1 .. Len(a) : b[k] = a[k]
      BY <3>2
    <3> HIDE DEF us, l
    <3>5. Joined(us, t)
      <4>1. t \in [1 .. Len(us) -> Seq(Values)]
        BY <1>2, <1>3, <1>4, <3>3 DEF l
      <4>2. t[n] = g /\ \A i \in 1 .. n : i # n => t[i] = w[i]
        BY <3>2, <3>3
      <4>3. f = w[n]
        BY <1>3, <3>1
      <4>4. ASSUME NEW i \in 1 .. n PROVE t[i] = IF i = 1 THEN us[i] ELSE t[i - 1] \o us[i]
        <5>1. w[i] = IF i = 1 THEN vs[i] ELSE w[i - 1] \o vs[i]
          BY <1>2 DEF Joined
        <5>2. i # 1 => i - 1 \in 1 .. n /\ i - 1 # n
          BY <1>3
        <5>3. CASE i # n
          BY <3>3, <4>2, <5>1, <5>2, <5>3
        <5>4. CASE i = n
          <6>1. CASE n = 1
            BY <3>3, <4>2, <4>3, <5>1, <5>4, <6>1
          <6>2. CASE n # 1
            <7> DEFINE c == w[n - 1]
            <7>1. c \in Seq(Values) /\ f = c \o a
              BY <1>2, <4>3, <5>1, <5>2, <5>4, <6>2
            <7>2. Append(c \o a, v) = c \o b
              BY <3>2, <7>1, AppendToSecond
            <7>3. t[n - 1] = c
              BY <4>2, <5>2, <5>4, <6>2
            <7> QED
              BY <3>3, <4>2, <5>4, <6>2, <7>1, <7>2, <7>3
          <6> QED
            BY <6>1, <6>2
        <5> QED
          BY <5>3, <5>4
      <4> HIDE DEF t
      <4> QED
        BY <3>3, <4>1, <4>4 DEF Joined, l
    <3>6. ASSUME NEW x \in Values
          PROVE  (\E i \in 1 .. l : \E j \in 1 .. Len(us[i]) : us[i][j] = x) <=>
                    x = v \/ \E i \in 1 .. n : \E j \in 1 .. Len(vs[i]) : vs[i][j] = x
      <4>1. (\E j \in 1 .. Len(b) : b[j] = x) <=> x = v \/ \E j \in 1 .. Len(a) : a[j] = x
        <5>1. Len(a) \in Nat /\ \A j \in 1 .. Len(b) : j \in 1 .. Len(a) \/ j = Len(a) + 1
          BY <3>2, <3>4
        <5>2. Len(a) + 1 \in 1 .. Len(b) /\ \A j \in 1 .. Len(a) : j \in 1 .. Len(b)
          BY <3>2, <3>4
        <5> HIDE DEF a, b
        <5> QED
          BY <3>4, <5>1, <5>2
      <4> HIDE DEF b
      <4> QED
        BY <3>2, <3>3, <4>1
    <3> QED
      BY <3>3, <3>5, <3>6
  <2> QED
    BY <2>1, <2>2
<1>6. t \in [1 .. l -> Seq(Values)] /\ l \in 1 .. l /\ t[l] = g
  <2>1. l \in 1 .. l
    BY <1>5
  <2> QED
    BY <1>5, <2>1 DEF Joined
<1>7. Gathers(us, g)
  <2>1. ASSUME NEW x \in Values
        PROVE  (\E k \in 1 .. Len(g) : g[k] = x) <=> x = v \/ \E k \in 1 .. Len(f) : f[k] = x
    <3>1. Len(f) \in Nat
      BY <1>1
    <3>2. /\ Len(f) + 1 \in 1 .. Len(g)
          /\ \A k \in 1 .. Len(f) : k \in 1 .. Len(g)
          /\ \A k \in 1 .. Len(g) : k \in 1 .. Len(f) \/ k = Len(f) + 1
      BY <1>4, <3>1
    <3> HIDE DEF f, g
    <3> QED
      BY <1>4, <3>2
  <2>2. ASSUME NEW x \in Values
        PROVE  (\E k \in 1 .. Len(f) : f[k] = x) <=>
                  \E i \in 1 .. n : \E j \in 1 .. Len(vs[i]) : vs[i][j] = x
    <3>1. CASE vs = <<>>
      <4>1. n = 0 /\ Len(f) = 0
        BY <1>1, <3>1
      <4> QED
        BY <4>1
    <3>2. CASE vs # <<>>
      BY <1>1, <3>2 DEF Gathers
    <3> QED
      BY <3>1, <3>2
  <2> HIDE DEF us, f, g
  <2> QED
    BY <1>4, <1>5, <2>1, <2>2 DEF Gathers, l
<1> HIDE DEF us, t, g
<1>8. FlattenSeq(us) = g
  BY <1>5, <1>6, JoinedIsFlat DEF l
<1>9. Joinable(us)
  BY <1>5, <1>6, <1>7 DEF Joinable, l
<1> QED
  BY <1>5, <1>8, <1>9 DEF us, g, f

\* What the nodes t of a tree stand for, each key once: the expression that SearchTree
\* puts for the content of the abstract multimap.
ValuedOf(t) == {n \in DOMAIN t : t[n].values # <<>>}

Content(t) == [k \in {t[n].key : n \in ValuedOf(t)} |->
                 FlattenSeq(t[CHOOSE n \in ValuedOf(t) : t[n].key = k].values)]

KeysOnce(t) == \A n, m \in DOMAIN t : t[n].key = t[m].key => n = m

LEMMA ContentOf ==
  ASSUME NEW t, KeysOnce(t)
  PROVE  /\ DOMAIN Content(t) = {t[n].key : n \in ValuedOf(t)}
         /\ Content(t) = [k \in DOMAIN Content(t) |-> Content(t)[k]]
         /\ \A n \in ValuedOf(t) : Content(t)[t[n].key] = FlattenSeq(t[n].values)
<1>1. /\ DOMAIN Content(t) = {t[n].key : n \in ValuedOf(t)}
      /\ Content(t) = [k \in DOMAIN Content(t) |-> Content(t)[k]]
  BY DEF Content
<1>2. ASSUME NEW n \in ValuedOf(t)
      PROVE  Content(t)[t[n].key] = FlattenSeq(t[n].values)
  <2> DEFINE m == CHOOSE j \in ValuedOf(t) : t[j].key = t[n].key
  <2>1. m \in ValuedOf(t) /\ t[m].key = t[n].key
    OBVIOUS
  <2>2. m = n
    BY <2>1 DEF KeysOnce, ValuedOf
  <2>3. Content(t)[t[n].key] = FlattenSeq(t[m].values)
    BY DEF Content
  <2> QED
    BY <2>2, <2>3
<1> QED
  BY <1>1, <1>2

\* It depends on the keys and values of the nodes that have values.
LEMMA SameContent ==
  ASSUME NEW t, NEW u, KeysOnce(t), KeysOnce(u), ValuedOf(u) = ValuedOf(t),
         \A n \in ValuedOf(t) : u[n].key = t[n].key /\ u[n].values = t[n].values
  PROVE  Content(u) = Content(t)
<1> DEFINE a == Content(t)
           b == Content(u)
<1>1. /\ DOMAIN a = {t[n].key : n \in ValuedOf(t)} /\ a = [k \in DOMAIN a |-> a[k]]
      /\ \A n \in ValuedOf(t) : a[t[n].key] = FlattenSeq(t[n].values)
  BY ContentOf
<1>2. /\ DOMAIN b = {u[n].key : n \in ValuedOf(u)} /\ b = [k \in DOMAIN b |-> b[k]]
      /\ \A n \in ValuedOf(u) : b[u[n].key] = FlattenSeq(u[n].values)
  BY ContentOf
<1> HIDE DEF a, b
<1>3. DOMAIN a = DOMAIN b
  BY <1>1, <1>2
<1>4. ASSUME NEW k \in DOMAIN a PROVE a[k] = b[k]
  <2>1. PICK n \in ValuedOf(t) : t[n].key = k
    BY <1>1
  <2> QED
    BY <1>1, <1>2, <2>1
<1>5. a = b
  BY <1>1, <1>2, <1>3, <1>4
<1> QED
  BY <1>5 DEF a, b

\* Where the traversal stands: the keys that it has still ahead of it are those searched
\* through node, and for each node on the stack its own and those on its right.
Ahead(span, k) ==
    \/ node # NULL /\ k \in span[node]
    \/ \E i \in 1 .. Len(stack) : \/ k = nodes[stack[i]].key
                                  \/ k \in Part(span, stack[i], "right")

HasPassed(k) == \E i \in 1 .. Len(passed) : passed[i][1] = k

WalkedBy(span) ==
    /\ passed \in Seq(Keys \X Values)
    /\ node # NULL => \A i \in 1 .. Len(stack) : span[node] \subseteq Part(span, stack[i], "left")
    /\ \A i, j \in 1 .. Len(stack) :
          i < j => span[stack[i]] \subseteq Part(span, stack[j], "left")
    /\ \A n \in Allocated : HasPassed(nodes[n].key) <=> ~Ahead(span, nodes[n].key)

Walked == Walking => \E span \in [Allocated -> SUBSET Keys] : SpansFit(span) /\ WalkedBy(span)

CallKnown ==
    pc # "idle" => /\ call \in Calls
                   /\ pc = "walk" => call.op = "traverse"
                   /\ pc = "clear" => call.op = "clear"

\* Only the node that mm_add_value() has just created is without a value.
Filled == \A n \in Allocated : nodes[n].values = <<>> => Adding /\ node = n /\ Found

AllJoinable == \A n \in Allocated : Joinable(nodes[n].values)

RefInv == IInv /\ CallKnown /\ Filled /\ AllJoinable /\ Walked

LEMMA AddFacts ==
  ASSUME IInv, AddValue
  PROVE  /\ node \in Allocated /\ call.value \in Values /\ nodes[node].key = call.key
         /\ call \in Calls /\ call.op = "add" /\ pc = "find" /\ pc' = "idle"
         /\ nodes[node].values \in Seq(Seq(Values))
         /\ Allocated' = Allocated
         /\ nodes'[node].values = WithValue(nodes[node].values, call.value)
         /\ \A n \in Allocated : nodes'[n].key = nodes[n].key
         /\ \A n \in Allocated : n # node => nodes'[n] = nodes[n]
<1>1. /\ node \in Allocated /\ nodes[node].key = call.key
      /\ call \in Calls /\ call.op = "add" /\ pc = "find" /\ pc' = "idle"
  BY DEF AddValue, Adding, Finding, Found, Return, IInv, Types
<1>2. call.value \in Values
  BY <1>1 DEF Calls
<1>3. nodes \in [Allocated -> Node]
  BY DEF IInv, Types
<1> QED
  BY <1>1, <1>2, <1>3 DEF AddValue, Node, Allocated

LEMMA CreateKeepsOthers ==
  ASSUME IInv, CreateRoot \/ CreateChild
  PROVE  \A n \in Allocated : nodes'[n].values = nodes[n].values /\ nodes'[n].key = nodes[n].key
<1>1. CASE CreateRoot
  BY <1>1, CreateFacts DEF CreateRoot
<1>2. CASE CreateChild
  BY <1>2, CreateFacts DEF CreateChild, Linked, IInv, Types, Node
<1> QED
  BY <1>1, <1>2

\* A call in progress stays what it is, until it returns.
LEMMA CallStaysKnown == IInv /\ CallKnown /\ [Next]_vars => CallKnown'
<1> SUFFICES ASSUME IInv, CallKnown, [Next]_vars PROVE CallKnown'
  OBVIOUS
<1>1. ASSUME NEW c \in Calls, Invoke(c) PROVE CallKnown'
  <2>1. c.op \in Searches \cup {"traverse", "clear"}
    BY DEF Calls, Searches
  <2> QED
    BY <1>1, <2>1 DEF Invoke, CallKnown, Searches
<1>2. CASE \/ Follow \/ CreateRoot \/ CreateChild \/ AddValue \/ ContainsKey \/ ContainsPair
           \/ Enter \/ Pass \/ Finish \/ Clear \/ UNCHANGED vars
  <2>1. UNCHANGED call /\ pc' \in {pc, "idle"}
    BY <1>2 DEF Follow, CreateRoot, CreateChild, AddValue, ContainsKey, ContainsPair,
                Enter, Pass, Finish, Clear, Return, vars
  <2> QED
    BY <2>1 DEF CallKnown
<1> QED
  BY <1>1, <1>2 DEF Next

\* Between two calls, and during one that is not about to add a value, each node has one.
LEMMA StaysFilled == IInv /\ Filled /\ AllJoinable /\ [Next]_vars => Filled'
<1> SUFFICES ASSUME IInv, Filled, AllJoinable, [Next]_vars PROVE Filled'
  OBVIOUS
<1>1. ASSUME \A n \in Allocated : nodes[n].values # <<>>, UNCHANGED nodes PROVE Filled'
  BY <1>1 DEF Filled, Allocated
<1>2. ASSUME ~(Adding /\ Found), UNCHANGED nodes PROVE Filled'
  BY <1>1, <1>2 DEF Filled
<1>3. ASSUME NEW c \in Calls, Invoke(c) PROVE Filled'
  BY <1>2, <1>3 DEF Invoke, Adding, Finding
<1>4. CASE Follow
  BY <1>2, <1>4 DEF Follow
<1>5. CASE CreateRoot \/ CreateChild
  <2>1. ~Found
    BY <1>5 DEF CreateRoot, CreateChild, Found
  <2>2. \A n \in Allocated : nodes'[n].values # <<>>
    BY <1>5, <2>1, CreateKeepsOthers DEF Filled
  <2>3. (Adding /\ Found)'
    BY <1>5, CreateFacts DEF Adding, Finding, Found, alloc_mm_node
  <2> QED
    BY <1>5, <2>2, <2>3, CreateFacts DEF Filled
<1>6. CASE AddValue
  <2>1. Joinable(nodes[node].values)
    BY <1>6, AddFacts DEF AllJoinable
  <2>2. nodes'[node].values # <<>>
    BY <1>6, <2>1, AddFacts, FlatGrows
  <2>3. \A n \in Allocated : n # node => nodes[n].values # <<>>
    BY DEF Filled
  <2> QED
    BY <1>6, <2>2, <2>3, AddFacts DEF Filled
<1>7. CASE ContainsKey \/ ContainsPair
  BY <1>2, <1>7 DEF ContainsKey, ContainsPair, Adding
<1>8. CASE Enter \/ Pass \/ Finish
  BY <1>2, <1>8 DEF Enter, Pass, Finish, Walking, Adding, Finding
<1>9. CASE Clear
  BY <1>9, AllReached DEF Clear, Filled, Allocated, IInv
<1>10. CASE UNCHANGED vars
  BY <1>10 DEF vars, Filled, Allocated, Adding, Finding, Found
<1> QED
  BY <1>3, <1>4, <1>5, <1>6, <1>7, <1>8, <1>9, <1>10 DEF Next

LEMMA StayJoinable == IInv /\ AllJoinable /\ [Next]_vars => AllJoinable'
<1> SUFFICES ASSUME IInv, AllJoinable, [Next]_vars PROVE AllJoinable'
  OBVIOUS
<1>1. CASE UNCHANGED nodes
  BY <1>1 DEF AllJoinable, Allocated
<1>2. CASE CreateRoot \/ CreateChild
  <2>1. nodes'[Fresh].values = <<>>
    BY <1>2, CreateFacts DEF alloc_mm_node
  <2>2. Joinable(<<>>)
    <3> DEFINE none == <<>>
               w == [i \in 1 .. Len(none) |-> <<>>]
    <3>1. none = <<>> /\ 1 .. Len(none) = {}
      OBVIOUS
    <3> HIDE DEF none
    <3>2. w \in [1 .. Len(none) -> Seq(Values)]
      BY <3>1
    <3>3. Joined(none, w)
      BY <3>1, <3>2 DEF Joined
    <3>4. Joinable(none)
      BY <3>1, <3>2, <3>3 DEF Joinable
    <3> QED
      BY <3>1, <3>4
  <2>3. \A n \in Allocated : Joinable(nodes'[n].values)
    BY <1>2, CreateKeepsOthers DEF AllJoinable
  <2> QED
    BY <1>2, <2>1, <2>2, <2>3, CreateFacts DEF AllJoinable
<1>3. CASE AddValue
  <2>1. Joinable(nodes[node].values)
    BY <1>3, AddFacts DEF AllJoinable
  <2>2. Joinable(nodes'[node].values)
    BY <1>3, <2>1, AddFacts, FlatGrows
  <2>3. \A n \in Allocated : n # node => Joinable(nodes'[n].values)
    BY <1>3, AddFacts DEF AllJoinable
  <2> QED
    BY <1>3, <2>2, <2>3, AddFacts DEF AllJoinable
<1>4. CASE Clear
  BY <1>4, AllReached DEF Clear, AllJoinable, Allocated, IInv
<1> QED
  BY <1>1, <1>2, <1>3, <1>4
     DEF Next, vars, Invoke, Follow, ContainsKey, ContainsPair, Enter, Pass, Finish

\* The parts of a span on the two sides of a node are all of it but the key.
LEMMA PartsOf ==
  ASSUME Types, NEW span, SpansFit(span), NEW n \in Allocated
  PROVE  /\ nodes[n].key \in span[n] /\ nodes[n].key \in Int /\ span[n] \subseteq Int
         /\ \A k \in span[n] : \/ k = nodes[n].key
                               \/ k \in Part(span, n, "left")
                               \/ k \in Part(span, n, "right")
         /\ \A k \in Part(span, n, "left") : k \in span[n] /\ k < nodes[n].key
         /\ \A k \in Part(span, n, "right") : k \in span[n] /\ k > nodes[n].key
<1>1. nodes[n].key \in span[n] /\ span[n] \subseteq Keys
  BY DEF SpansFit
<1>2. nodes[n].key \in Int /\ span[n] \subseteq Int
  BY <1>1, KeysAssumption
<1> QED
  BY <1>1, <1>2 DEF Part, Side

\* What hangs on a side is the part of the span on that side, and it is empty of nodes
\* if nothing does.
LEMMA BelowSide ==
  ASSUME Types, NEW span, SpansFit(span), NEW n \in Allocated, NEW s \in Sides,
         NEW m \in Allocated
  PROVE  LET c == nodes[n].child[s]
         IN  /\ c \in Allocated \cup {NULL}
             /\ nodes[m].key \in Part(span, n, s) <=> c # NULL /\ nodes[m].key \in span[c]
<1> DEFINE c == nodes[n].child[s]
<1>1. c \in Allocated \cup {NULL}
  BY DEF Types, Node
<1>2. CASE c # NULL
  BY <1>1, <1>2 DEF SpansFit
<1>3. ASSUME c = NULL, nodes[m].key \in Part(span, n, s) PROVE FALSE
  <2>1. PICK k \in span[n] : k = nodes[m].key
    BY <1>3 DEF Part
  <2>2. nodes[n].key # k /\ Child(n, k) = NULL
    BY <1>3, <2>1 DEF Part, Child
  <2> QED
    BY <2>1, <2>2, NoOther
<1> QED
  BY <1>1, <1>2, <1>3

\* The node on the top of the stack has the least key of those that are ahead.
LEMMA TopIsLeast ==
  ASSUME RefInv, Walking, NEW span \in [Allocated -> SUBSET Keys],
         SpansFit(span), WalkedBy(span), node = NULL, stack # <<>>
  PROVE  /\ Head(stack) \in Allocated /\ Head(stack) = stack[1] /\ 1 \in 1 .. Len(stack)
         /\ \A i \in 2 .. Len(stack) :
               /\ stack[i] \in Allocated
               /\ \A k \in span[Head(stack)] : /\ k < nodes[stack[i]].key
                                               /\ k \notin Part(span, stack[i], "right")
         /\ \A m \in Allocated :
               Ahead(span, nodes[m].key) => nodes[Head(stack)].key <= nodes[m].key
<1> DEFINE n == Head(stack)
<1>1. Types /\ stack \in Seq(Allocated)
  BY DEF RefInv, IInv, Types
<1>2. n \in Allocated /\ n = stack[1] /\ Len(stack) \in Nat /\ 1 \in 1 .. Len(stack)
  BY <1>1
<1>3. ASSUME NEW i \in 2 .. Len(stack)
      PROVE  /\ stack[i] \in Allocated /\ i \in 1 .. Len(stack)
             /\ \A k \in span[n] : /\ k < nodes[stack[i]].key
                                   /\ k \notin Part(span, stack[i], "right")
  <2>1. i \in 1 .. Len(stack) /\ 1 < i /\ stack[i] \in Allocated
    BY <1>1, <1>2
  <2>2. span[n] \subseteq Part(span, stack[i], "left")
    BY <1>2, <2>1 DEF WalkedBy
  <2>3. \A k \in Part(span, stack[i], "left") : k < nodes[stack[i]].key
    BY <1>1, <2>1, PartsOf
  <2>4. \A k \in Part(span, stack[i], "left") : k \notin Part(span, stack[i], "right")
    BY DEF Part
  <2> QED
    BY <2>1, <2>2, <2>3, <2>4
<1>4. ASSUME NEW m \in Allocated, Ahead(span, nodes[m].key)
      PROVE  nodes[n].key <= nodes[m].key
  <2> DEFINE k == nodes[m].key
             l == nodes[n].key
  <2>1. k \in Int /\ l \in Int /\ l \in span[n]
    BY <1>1, <1>2, PartsOf
  <2>2. PICK i \in 1 .. Len(stack) : k = nodes[stack[i]].key \/ k \in Part(span, stack[i], "right")
    BY <1>4 DEF Ahead
  <2>3. CASE i = 1
    <3>1. \A x \in Part(span, n, "right") : x > l
      BY <1>1, <1>2, PartsOf
    <3> HIDE DEF k, l
    <3> QED
      BY <1>2, <2>1, <2>2, <2>3, <3>1 DEF k, l
  <2>4. CASE i # 1
    <3>1. i \in 2 .. Len(stack)
      BY <1>2, <2>4
    <3>2. stack[i] \in Allocated /\ l < nodes[stack[i]].key
      BY <1>3, <2>1, <3>1
    <3>3. /\ nodes[stack[i]].key \in Int
          /\ \A x \in Part(span, stack[i], "right") : x > nodes[stack[i]].key
      BY <1>1, <3>2, PartsOf
    <3>4. k >= nodes[stack[i]].key
      BY <2>1, <2>2, <3>3
    <3> QED
      BY <2>1, <3>2, <3>3, <3>4
  <2> QED
    BY <2>3, <2>4
<1> QED
  BY <1>2, <1>3, <1>4

LEMMA PassedMore ==
  ASSUME NEW p \in Seq(Keys \X Values), NEW q \in Seq(Values), q # <<>>, NEW l \in Keys
  PROVE  LET r == p \o [i \in DOMAIN q |-> <<l, q[i]>>]
         IN  /\ r \in Seq(Keys \X Values)
             /\ \A k : (\E i \in 1 .. Len(r) : r[i][1] = k) <=>
                          k = l \/ \E i \in 1 .. Len(p) : p[i][1] = k
<1> DEFINE t == [i \in DOMAIN q |-> <<l, q[i]>>]
           r == p \o t
<1>1. /\ Len(q) \in Nat /\ 1 \in 1 .. Len(q) /\ DOMAIN q = 1 .. Len(q)
      /\ \A i \in 1 .. Len(q) : q[i] \in Values
  OBVIOUS
<1>2. t \in [1 .. Len(q) -> Keys \X Values]
  BY <1>1
<1>3. t \in Seq(Keys \X Values) /\ Len(t) = Len(q)
  <2> HIDE DEF t
  <2> QED
    BY <1>1, <1>2
<1>4. \A i \in 1 .. Len(q) : t[i][1] = l
  BY <1>1
<1> HIDE DEF t
<1>5. /\ r \in Seq(Keys \X Values) /\ Len(p) \in Nat /\ Len(r) = Len(p) + Len(q)
      /\ \A i \in 1 .. Len(p) : r[i] = p[i]
      /\ \A i \in 1 .. Len(r) : ~(i <= Len(p)) => r[i] = t[i - Len(p)]
  <2> DEFINE Pair == Keys \X Values
  <2>0. p \in Seq(Pair) /\ t \in Seq(Pair)
    BY <1>3
  <2> HIDE DEF Pair
  <2>1. Len(p) \in Nat /\ Len(t) \in Nat
    BY <2>0
  <2>2. r \in Seq(Pair) /\ Len(r) = Len(p) + Len(t)
    BY <2>0
  <2>3. \A i \in 1 .. Len(p) : r[i] = p[i]
    BY <2>0, <2>1
  <2>4. \A i \in 1 .. Len(r) : ~(i <= Len(p)) => r[i] = t[i - Len(p)]
    BY <2>0, <2>1, <2>2
  <2> QED
    BY <1>3, <2>1, <2>2, <2>3, <2>4 DEF Pair
<1> HIDE DEF r
<1>6. \A i \in 1 .. Len(r) : i \in 1 .. Len(p) \/ r[i][1] = l
  <2> TAKE i \in 1 .. Len(r)
  <2>1. CASE i <= Len(p)
    BY <1>5, <2>1
  <2>2. CASE ~(i <= Len(p))
    <3>1. i - Len(p) \in 1 .. Len(q) /\ r[i] = t[i - Len(p)]
      BY <1>1, <1>5, <2>2
    <3> QED
      BY <1>4, <3>1
  <2> QED
    BY <2>1, <2>2
<1>7. /\ \A i \in 1 .. Len(p) : i \in 1 .. Len(r)
      /\ Len(p) + 1 \in 1 .. Len(r) /\ ~(Len(p) + 1 <= Len(p)) /\ (Len(p) + 1) - Len(p) = 1
  BY <1>1, <1>5
<1>8. r[Len(p) + 1][1] = l
  BY <1>1, <1>4, <1>5, <1>7
<1>9. ASSUME NEW k
      PROVE  (\E i \in 1 .. Len(r) : r[i][1] = k) <=> k = l \/ \E i \in 1 .. Len(p) : p[i][1] = k
  BY <1>5, <1>6, <1>7, <1>8
<1> QED
  BY <1>5, <1>9 DEF r, t

LEMMA EnterWalks ==
  ASSUME RefInv, Enter
  PROVE  Walked'
<1>1. PICK span \in [Allocated -> SUBSET Keys] : SpansFit(span) /\ WalkedBy(span)
  BY DEF RefInv, Walked, Enter
<1>2. /\ Types /\ node \in Allocated /\ stack \in Seq(Allocated)
      /\ UNCHANGED <<root, nodes, passed>> /\ stack' = <<node>> \o stack
      /\ Allocated' = Allocated
  BY DEF RefInv, IInv, Types, Enter, Allocated
<1>3. PICK n \in Allocated : n = node
  BY <1>2
<1> DEFINE c == nodes[n].child["left"]
<1>4. node' = c /\ c \in Allocated \cup {NULL} /\ n # NULL
  BY <1>2, <1>3 DEF Enter, Types, Node, Sides
<1>5. /\ Len(stack) \in Nat /\ Len(stack') = Len(stack) + 1 /\ stack'[1] = n
      /\ \A i \in 1 .. Len(stack) : stack[i] \in Allocated /\ stack'[i + 1] = stack[i]
  BY <1>2, <1>3
<1>6. \A x, s : Part(span, x, s)' = Part(span, x, s)
  BY <1>2 DEF Part, Side
<1>7. /\ \A i \in 1 .. Len(stack) : span[n] \subseteq Part(span, stack[i], "left")
      /\ \A i, j \in 1 .. Len(stack) :
            i < j => span[stack[i]] \subseteq Part(span, stack[j], "left")
  BY <1>1, <1>3, <1>4 DEF WalkedBy
<1>8. Part(span, n, "left") \subseteq span[n] /\ (c # NULL => span[c] = Part(span, n, "left"))
  BY <1>1 DEF Part, SpansFit, Sides
<1> HIDE DEF c
<1>9. \A i \in 1 .. Len(stack') : i = 1 \/ (i - 1 \in 1 .. Len(stack) /\ stack'[i] = stack[i - 1])
  <2> SUFFICES ASSUME NEW i \in 1 .. Len(stack'), i # 1
               PROVE  i - 1 \in 1 .. Len(stack) /\ stack'[i] = stack[i - 1]
    OBVIOUS
  <2>1. i - 1 \in 1 .. Len(stack) /\ (i - 1) + 1 = i
    BY <1>5
  <2> QED
    BY <1>5, <2>1
<1>10. c # NULL => \A i \in 1 .. Len(stack') : span[c] \subseteq Part(span, stack'[i], "left")
  BY <1>5, <1>7, <1>8, <1>9
<1>11. ASSUME NEW i \in 1 .. Len(stack'), NEW j \in 1 .. Len(stack'), i < j
       PROVE  span[stack'[i]] \subseteq Part(span, stack'[j], "left")
  <2>1. j # 1 /\ j - 1 \in 1 .. Len(stack) /\ stack'[j] = stack[j - 1]
    <3>1. j # 1
      BY <1>5, <1>11
    <3> QED
      BY <1>9, <3>1
  <2>2. CASE i = 1
    BY <1>5, <1>7, <2>1, <2>2
  <2>3. CASE i # 1
    <3>1. i - 1 \in 1 .. Len(stack) /\ stack'[i] = stack[i - 1]
      BY <1>9, <2>3
    <3>2. i - 1 < j - 1
      BY <1>5, <1>11
    <3> QED
      BY <1>7, <2>1, <3>1, <3>2
  <2> QED
    BY <2>2, <2>3
<1>12. ASSUME NEW m \in Allocated
       PROVE  Ahead(span, nodes[m].key)' <=> Ahead(span, nodes[m].key)
  <2>1. PICK k : k = nodes[m].key
    OBVIOUS
  <2>2. k \in Part(span, n, "left") <=> c # NULL /\ k \in span[c]
    BY <1>1, <1>2, <2>1, BelowSide DEF c, Sides
  <2>3. k \in span[n] <=> \/ k = nodes[n].key
                          \/ k \in Part(span, n, "left")
                          \/ k \in Part(span, n, "right")
    BY <1>1, <1>2, PartsOf
  <2> DEFINE On(i)  == k = nodes[stack[i]].key \/ k \in Part(span, stack[i], "right")
             On2(i) == k = nodes[stack'[i]].key \/ k \in Part(span, stack'[i], "right")
  <2>4. Ahead(span, k) <=> k \in span[n] \/ \E i \in 1 .. Len(stack) : On(i)
    BY <1>3, <1>4 DEF Ahead
  <2>5. Ahead(span, k)' <=> (c # NULL /\ k \in span[c]) \/ \E i \in 1 .. Len(stack') : On2(i)
    BY <1>2, <1>4, <1>6 DEF Ahead
  <2>6. On2(1) <=> k = nodes[n].key \/ k \in Part(span, n, "right")
    BY <1>5
  <2>7. \A i \in 1 .. Len(stack) : i + 1 \in 1 .. Len(stack') /\ (On2(i + 1) <=> On(i))
    BY <1>5
  <2>8. 1 \in 1 .. Len(stack')
    BY <1>5
  <2>9. \A i \in 1 .. Len(stack') : i = 1 \/ (i - 1 \in 1 .. Len(stack) /\ (On2(i) <=> On(i - 1)))
    BY <1>9
  <2> HIDE DEF On, On2
  <2>10. (\E i \in 1 .. Len(stack') : On2(i)) <=> On2(1) \/ \E i \in 1 .. Len(stack) : On(i)
    BY <2>7, <2>8, <2>9
  <2>11. Ahead(span, k)' <=> Ahead(span, k)
    BY <2>2, <2>3, <2>4, <2>5, <2>6, <2>10
  <2> QED
    BY <1>2, <2>1, <2>11 DEF Ahead
<1>13. WalkedBy(span)'
  <2>1. passed' \in Seq(Keys \X Values)
    BY <1>1, <1>2 DEF WalkedBy
  <2>2. \A m \in Allocated : HasPassed(nodes[m].key)' <=> ~Ahead(span, nodes[m].key)'
    BY <1>1, <1>2, <1>12 DEF WalkedBy, HasPassed
  <2>3. (node # NULL => \A i \in 1 .. Len(stack) : span[node] \subseteq Part(span, stack[i], "left"))'
    BY <1>2, <1>4, <1>10 DEF Part, Side
  <2>4. (\A i, j \in 1 .. Len(stack) :
            i < j => span[stack[i]] \subseteq Part(span, stack[j], "left"))'
    <3>1. \A i, j \in 1 .. Len(stack') :
             i < j => span[stack'[i]] \subseteq Part(span, stack'[j], "left")
      BY <1>11
    <3>2. ASSUME NEW j \in 1 .. Len(stack')
          PROVE  Part(span, stack[j], "left")' = Part(span, stack'[j], "left")
      BY <1>2 DEF Part, Side
    <3> QED
      BY <3>1, <3>2
  <2> QED
    BY <1>2, <2>1, <2>2, <2>3, <2>4 DEF WalkedBy
<1>14. SpansFit(span)'
  BY <1>1, <1>2, SameTree
<1> QED
  BY <1>1, <1>2, <1>13, <1>14 DEF Walked

\* What Pass passes to the function: the values of the top of the stack, at least one.
LEMMA PassFacts ==
  ASSUME RefInv, Pass
  PROVE  LET n == Head(stack)
             q == FlattenSeq(nodes[n].values)
         IN  /\ n \in Allocated /\ nodes[n].key \in Keys /\ n \in ValuedOf(nodes)
             /\ q \in Seq(Values) /\ q # <<>>
             /\ passed' = passed \o [i \in DOMAIN q |-> <<nodes[n].key, q[i]>>]
             /\ node' = nodes[n].child["right"]
             /\ Len(stack') = Len(stack) - 1
             /\ \A i \in 1 .. Len(stack') : stack'[i] = stack[i + 1]
<1> DEFINE n == Head(stack)
           vs == nodes[n].values
<1>1. Types /\ stack \in Seq(Allocated) /\ stack # <<>> /\ Walking
  BY DEF RefInv, IInv, Types, Pass
<1>2. n \in Allocated /\ stack' = Tail(stack)
  BY <1>1 DEF Pass
<1>3. Len(stack') = Len(stack) - 1 /\ \A i \in 1 .. Len(stack') : stack'[i] = stack[i + 1]
  BY <1>1, <1>2
<1>4. nodes[n].key \in Keys /\ vs \in Seq(Seq(Values))
  BY <1>1, <1>2 DEF Types, Node
<1>5. Joinable(vs) /\ vs # <<>>
  BY <1>1, <1>2 DEF RefInv, AllJoinable, Filled, Adding, Finding, Walking
<1>6. FlattenSeq(vs) \in Seq(Values) /\ FlattenSeq(vs) # <<>>
  BY <1>4, <1>5, FlatFacts DEF Gathers
<1>7. n \in ValuedOf(nodes)
  BY <1>2, <1>5 DEF ValuedOf, Allocated
<1> QED
  BY <1>2, <1>3, <1>4, <1>6, <1>7 DEF Pass

LEMMA PassWalks ==
  ASSUME RefInv, Pass
  PROVE  Walked'
<1>1. PICK span \in [Allocated -> SUBSET Keys] : SpansFit(span) /\ WalkedBy(span)
  BY DEF RefInv, Walked, Pass
<1>2. /\ Types /\ stack \in Seq(Allocated) /\ stack # <<>> /\ node = NULL /\ Walking
      /\ UNCHANGED <<root, nodes>> /\ Allocated' = Allocated
  BY DEF RefInv, IInv, Types, Pass, Allocated
<1>3. PICK n \in Allocated : n = Head(stack)
  BY <1>2
<1> DEFINE c == nodes[n].child["right"]
           q == FlattenSeq(nodes[n].values)
<1>4. /\ node' = c /\ c \in Allocated \cup {NULL} /\ nodes[n].key \in Keys
      /\ q \in Seq(Values) /\ q # <<>>
      /\ passed' = passed \o [i \in DOMAIN q |-> <<nodes[n].key, q[i]>>]
      /\ Len(stack') = Len(stack) - 1 /\ \A i \in 1 .. Len(stack') : stack'[i] = stack[i + 1]
  <2>1. c \in Allocated \cup {NULL}
    BY <1>2 DEF Types, Node, Sides
  <2> QED
    BY <1>3, <2>1, PassFacts
<1> HIDE DEF q
<1>5. /\ n = stack[1] /\ Len(stack) \in Nat /\ 1 \in 1 .. Len(stack)
      /\ \A i \in 2 .. Len(stack) :
            \A k \in span[n] : k # nodes[stack[i]].key /\ k \notin Part(span, stack[i], "right")
  <2>1. \A i \in 2 .. Len(stack) : stack[i] \in Allocated
    BY <1>2
  <2>2. /\ span[n] \subseteq Int
        /\ \A i \in 2 .. Len(stack) : nodes[stack[i]].key \in Int
    BY <1>1, <1>2, <2>1, PartsOf
  <2>3. /\ n = stack[1] /\ Len(stack) \in Nat /\ 1 \in 1 .. Len(stack)
        /\ \A i \in 2 .. Len(stack) :
              \A k \in span[n] : k < nodes[stack[i]].key /\ k \notin Part(span, stack[i], "right")
    BY <1>1, <1>2, <1>3, TopIsLeast
  <2> QED
    BY <2>2, <2>3
<1>6. \A i \in 1 .. Len(stack') : /\ i + 1 \in 2 .. Len(stack) /\ i + 1 \in 1 .. Len(stack)
                                  /\ stack'[i] = stack[i + 1]
  BY <1>4, <1>5
<1>7. \A i \in 2 .. Len(stack) : i - 1 \in 1 .. Len(stack') /\ stack'[i - 1] = stack[i]
  <2> TAKE i \in 2 .. Len(stack)
  <2>1. i - 1 \in 1 .. Len(stack') /\ (i - 1) + 1 = i
    BY <1>4, <1>5
  <2> QED
    BY <1>4, <2>1
<1>8. \A i, j \in 1 .. Len(stack) :
            i < j => span[stack[i]] \subseteq Part(span, stack[j], "left")
  BY <1>1 DEF WalkedBy
<1>9. c # NULL => span[c] = Part(span, n, "right") /\ span[c] \subseteq span[n]
  BY <1>1 DEF Part, SpansFit, Sides
<1> HIDE DEF c
<1>10. c # NULL => \A i \in 1 .. Len(stack') : span[c] \subseteq Part(span, stack'[i], "left")
  <2> SUFFICES ASSUME c # NULL, NEW i \in 1 .. Len(stack')
               PROVE  span[c] \subseteq Part(span, stack'[i], "left")
    OBVIOUS
  <2>1. i + 1 \in 1 .. Len(stack) /\ 1 < i + 1 /\ stack'[i] = stack[i + 1]
    BY <1>6
  <2>2. span[n] \subseteq Part(span, stack[i + 1], "left")
    BY <1>5, <1>8, <2>1
  <2> QED
    BY <1>9, <2>1, <2>2
<1>11. ASSUME NEW i \in 1 .. Len(stack'), NEW j \in 1 .. Len(stack'), i < j
       PROVE  span[stack'[i]] \subseteq Part(span, stack'[j], "left")
  <2>1. /\ i + 1 \in 1 .. Len(stack) /\ stack'[i] = stack[i + 1]
        /\ j + 1 \in 1 .. Len(stack) /\ stack'[j] = stack[j + 1]
        /\ i + 1 < j + 1
    BY <1>6, <1>11
  <2> QED
    BY <1>8, <2>1
<1>12. ASSUME NEW m \in Allocated
       PROVE  HasPassed(nodes[m].key)' <=> ~Ahead(span, nodes[m].key)'
  <2>1. PICK k : k = nodes[m].key
    OBVIOUS
  <2>2. k \in Part(span, n, "right") <=> c # NULL /\ k \in span[c]
    BY <1>1, <1>2, <2>1, BelowSide DEF c, Sides
  <2>3. /\ nodes[n].key \in span[n] /\ nodes[n].key \notin Part(span, n, "right")
        /\ Part(span, n, "right") \subseteq span[n]
    BY <1>1, <1>2, PartsOf DEF Part
  <2> DEFINE On(i)  == k = nodes[stack[i]].key \/ k \in Part(span, stack[i], "right")
             On2(i) == k = nodes[stack'[i]].key \/ k \in Part(span, stack'[i], "right")
  <2>4. Ahead(span, k) <=> \E i \in 1 .. Len(stack) : On(i)
    BY <1>2 DEF Ahead
  <2>5. Ahead(span, k)' <=> (c # NULL /\ k \in span[c]) \/ \E i \in 1 .. Len(stack') : On2(i)
    <3>1. \A i \in 1 .. Len(stack') : Part(span, stack[i], "right")' = Part(span, stack'[i], "right")
      BY <1>2 DEF Part, Side
    <3> QED
      BY <1>2, <1>4, <3>1 DEF Ahead
  <2>6. On(1) <=> k = nodes[n].key \/ k \in Part(span, n, "right")
    BY <1>5
  <2>7. \A i \in 2 .. Len(stack) : On(i) => k # nodes[n].key /\ k \notin Part(span, n, "right")
    BY <1>5, <2>3
  <2>8. \A i \in 1 .. Len(stack') : i + 1 \in 2 .. Len(stack) /\ (On2(i) <=> On(i + 1))
    BY <1>6
  <2>9. \A i \in 2 .. Len(stack) : i - 1 \in 1 .. Len(stack') /\ (On2(i - 1) <=> On(i))
    BY <1>7
  <2>10. /\ \A i \in 1 .. Len(stack) : i = 1 \/ i \in 2 .. Len(stack)
         /\ \A i \in 2 .. Len(stack) : i \in 1 .. Len(stack)
         /\ 1 \in 1 .. Len(stack)
    BY <1>5
  <2> HIDE DEF On, On2
  <2>11. (\E i \in 1 .. Len(stack) : On(i)) <=> On(1) \/ \E i \in 1 .. Len(stack') : On2(i)
    BY <2>8, <2>9, <2>10
  <2>12. (\E i \in 1 .. Len(stack') : On2(i)) => k # nodes[n].key
    BY <2>7, <2>8
  <2>13. Ahead(span, k)' <=> Ahead(span, k) /\ k # nodes[n].key
    BY <2>2, <2>3, <2>4, <2>5, <2>6, <2>11, <2>12
  <2>14. HasPassed(k)' <=> HasPassed(k) \/ k = nodes[n].key
    <3>1. passed \in Seq(Keys \X Values)
      BY <1>1 DEF WalkedBy
    <3>2. PICK l \in Keys : l = nodes[n].key
      BY <1>4
    <3> DEFINE r == passed \o [i \in DOMAIN q |-> <<l, q[i]>>]
    <3>3. \A x : (\E i \in 1 .. Len(r) : r[i][1] = x) <=>
                    x = l \/ \E i \in 1 .. Len(passed) : passed[i][1] = x
      BY <1>4, <3>1, PassedMore
    <3>4. passed' = r
      BY <1>4, <3>2
    <3> HIDE DEF r
    <3> QED
      BY <3>2, <3>3, <3>4 DEF HasPassed
  <2>15. HasPassed(k) <=> ~Ahead(span, k)
    BY <1>1, <2>1 DEF WalkedBy
  <2>16. HasPassed(k)' <=> ~Ahead(span, k)'
    BY <2>13, <2>14, <2>15
  <2> QED
    BY <1>2, <2>1, <2>16 DEF Ahead, HasPassed
<1>13. WalkedBy(span)'
  <2>1. passed' \in Seq(Keys \X Values)
    BY <1>1, <1>4, PassedMore DEF WalkedBy
  <2>2. \A j \in 1 .. Len(stack') : Part(span, stack[j], "left")' = Part(span, stack'[j], "left")
    BY <1>2 DEF Part, Side
  <2>3. (node # NULL => \A i \in 1 .. Len(stack) : span[node] \subseteq Part(span, stack[i], "left"))'
    BY <1>4, <1>10, <2>2
  <2>4. (\A i, j \in 1 .. Len(stack) :
            i < j => span[stack[i]] \subseteq Part(span, stack[j], "left"))'
    BY <1>11, <2>2
  <2> QED
    BY <1>2, <1>12, <2>1, <2>3, <2>4 DEF WalkedBy
<1>14. SpansFit(span)'
  BY <1>1, <1>2, SameTree
<1> QED
  BY <1>1, <1>2, <1>13, <1>14 DEF Walked

LEMMA InvokeWalks ==
  ASSUME RefInv, NEW c \in Calls, Invoke(c)
  PROVE  Walked'
<1> SUFFICES ASSUME Walking' PROVE Walked'
  BY DEF Walked
<1>1. PICK span \in [Allocated -> SUBSET Keys] : SpansFit(span)
  BY DEF RefInv, IInv, Placed
<1>2. /\ Types /\ UNCHANGED <<root, nodes, stack>> /\ Allocated' = Allocated
      /\ node' = root /\ passed' = <<>> /\ stack = <<>>
  BY DEF RefInv, IInv, Types, Invoke, Allocated
<1>3. SpansFit(span)'
  BY <1>1, <1>2, SameTree
<1>4. \A n \in Allocated : nodes[n].key \in span[root] /\ root # NULL
  BY <1>1, <1>2 DEF SpansFit, Types
<1>5. /\ passed' \in Seq(Keys \X Values) /\ 1 .. Len(stack') = {} /\ 1 .. Len(passed') = {}
  BY <1>2
<1>6. WalkedBy(span)'
  BY <1>2, <1>4, <1>5 DEF WalkedBy, Ahead, HasPassed
<1> QED
  BY <1>1, <1>2, <1>3, <1>6 DEF Walked

LEMMA RefStep == RefInv /\ [Next]_vars => RefInv'
<1> SUFFICES ASSUME RefInv, [Next]_vars PROVE RefInv'
  OBVIOUS
<1>1. IInv' /\ CallKnown' /\ Filled' /\ AllJoinable'
  BY NextKeeps, CallStaysKnown, StaysFilled, StayJoinable DEF RefInv
<1>2. Walked'
  <2>1. CASE UNCHANGED vars
    <3> SUFFICES ASSUME Walking PROVE Walked'
      BY <2>1 DEF Walked, Walking, vars
    <3>1. PICK span \in [Allocated -> SUBSET Keys] : SpansFit(span) /\ WalkedBy(span)
      BY DEF RefInv, Walked
    <3>2. SpansFit(span)'
      BY <2>1, <3>1, SameTree DEF vars
    <3>3. UNCHANGED <<nodes, node, stack, passed>> /\ Allocated' = Allocated
      BY <2>1 DEF vars, Allocated
    <3>4. WalkedBy(span)'
      BY <3>1, <3>3 DEF WalkedBy, Ahead, HasPassed, Part, Side
    <3> QED
      BY <3>1, <3>2, <3>3, <3>4 DEF Walked
  <2>2. CASE \/ Follow \/ CreateRoot \/ CreateChild \/ AddValue \/ ContainsKey \/ ContainsPair
             \/ Finish \/ Clear
    BY <2>2 DEF Follow, CreateRoot, CreateChild, AddValue, ContainsKey, ContainsPair, Finish, Clear,
                Adding, Finding, Return, Walked, Walking
  <2> QED
    BY <2>1, <2>2, InvokeWalks, EnterWalks, PassWalks DEF Next
<1> QED
  BY <1>1, <1>2 DEF RefInv

LEMMA RefInit == Init => RefInv
<1> SUFFICES ASSUME Init PROVE RefInv
  OBVIOUS
<1>1. Allocated = {} /\ pc = "idle"
  BY DEF Init, Allocated
<1> QED
  BY <1>1, InitIInv DEF RefInv, CallKnown, Filled, AllJoinable, Walked, Walking

LEMMA NodesKeysOnce == IInv => KeysOnce(nodes)
BY KeysDistinct DEF IInv, Placed, KeysOnce, Allocated

LEMMA NodesKeysOnceNext == (IInv => KeysOnce(nodes))'
BY NodesKeysOnce, PTL

\* The content of the abstract multimap, in the words of the lemmas above.
LEMMA ContentMeant ==
  /\ Content(nodes) =
       [k \in {nodes[n].key : n \in Valued} |->
          FlattenSeq(nodes[CHOOSE n \in Valued : nodes[n].key = k].values)]
  /\ Content(nodes') =
       [k \in {nodes'[n].key : n \in Valued'} |->
          FlattenSeq(nodes'[CHOOSE n \in Valued' : nodes'[n].key = k].values)]
BY DEF Content, ValuedOf, Valued, Allocated

LEMMA StutterMeant ==
  ASSUME Content(nodes') = Content(nodes), UNCHANGED <<answer, passed>>,
         (IF pc = "idle" THEN NULL ELSE call)' = IF pc = "idle" THEN NULL ELSE call
  PROVE  UNCHANGED Promise!vars
BY ContentMeant DEF Promise!vars

LEMMA CallIs ==
  ASSUME RefInv, pc # "idle"
  PROVE  call \in Calls /\ call # NULL
BY CallAssumption DEF RefInv, CallKnown

LEMMA InvokeMeant ==
  ASSUME RefInv, NEW c \in Calls, Invoke(c)
  PROVE  Promise!Invoke(c)
<1>1. pc = "idle" /\ pc' # "idle" /\ call' = c /\ answer' = NULL /\ passed' = <<>>
  BY DEF Invoke
<1>2. Content(nodes') = Content(nodes)
  BY DEF Invoke
<1> QED
  BY <1>1, <1>2, ContentMeant DEF Promise!Invoke

LEMMA CreateMeant ==
  ASSUME RefInv, IInv', CreateRoot \/ CreateChild
  PROVE  UNCHANGED Promise!vars
<1>1. \A n \in Allocated : nodes'[n].values = nodes[n].values /\ nodes'[n].key = nodes[n].key
  BY CreateKeepsOthers DEF RefInv
<1>2. Allocated' = Allocated \cup {Fresh} /\ nodes'[Fresh].values = <<>> /\ Fresh \notin Allocated
  BY CreateFacts DEF RefInv, alloc_mm_node
<1>3. ValuedOf(nodes') = ValuedOf(nodes)
  BY <1>1, <1>2 DEF ValuedOf, Allocated
<1>4. \A n \in ValuedOf(nodes) :
         nodes'[n].key = nodes[n].key /\ nodes'[n].values = nodes[n].values
  BY <1>1 DEF ValuedOf, Allocated
<1>5. Content(nodes') = Content(nodes)
  BY <1>3, <1>4, NodesKeysOnce, NodesKeysOnceNext, SameContent DEF RefInv
<1>6. UNCHANGED <<answer, passed, pc, call>>
  BY DEF CreateRoot, CreateChild
<1> QED
  BY <1>5, <1>6, StutterMeant

\* Both programs put a value behind the others, which is one of the places it may have.
LEMMA AtTheEnd ==
  ASSUME NEW S, NEW s \in Seq(S), NEW e \in S
  PROVE  Promise!InsertAt(s, Len(s) + 1, e) = Append(s, e)
<1>1. SubSeq(s, 1, (Len(s) + 1) - 1) = s
  OBVIOUS
<1>2. SubSeq(s, Len(s) + 1, Len(s)) = << >>
  OBVIOUS
<1>3. (s \o <<e>>) \o << >> = Append(s, e)
  OBVIOUS
<1> QED
  BY <1>1, <1>2, <1>3 DEF Promise!InsertAt

LEMMA AddMeant ==
  ASSUME RefInv, IInv', AddValue
  PROVE  Promise!Add
<1> DEFINE C == Content(nodes)
           D == Content(nodes')
           vs == nodes[node].values
           us == nodes'[node].values
           old == IF call.key \in DOMAIN C THEN C[call.key] ELSE <<>>
<1>1. /\ node \in Allocated /\ call.value \in Values /\ nodes[node].key = call.key
      /\ call.op = "add" /\ pc = "find" /\ pc' = "idle"
      /\ vs \in Seq(Seq(Values)) /\ us = WithValue(vs, call.value)
      /\ Allocated' = Allocated
      /\ \A n \in Allocated : nodes'[n].key = nodes[n].key
      /\ \A n \in Allocated : n # node => nodes'[n] = nodes[n]
  BY AddFacts DEF RefInv
<1>2. /\ us # <<>> /\ FlattenSeq(us) = Append(FlattenSeq(vs), call.value)
      /\ FlattenSeq(vs) \in Seq(Values) /\ (vs = <<>> => FlattenSeq(vs) = <<>>)
  BY <1>1, FlatGrows, FlatFacts DEF RefInv, AllJoinable
<1> HIDE DEF us
<1>3. KeysOnce(nodes) /\ KeysOnce(nodes')
  BY NodesKeysOnce, NodesKeysOnceNext DEF RefInv
<1>4. /\ DOMAIN C = {nodes[n].key : n \in ValuedOf(nodes)}
      /\ \A n \in ValuedOf(nodes) : C[nodes[n].key] = FlattenSeq(nodes[n].values)
  BY <1>3, ContentOf
<1>5. /\ DOMAIN D = {nodes'[n].key : n \in ValuedOf(nodes')} /\ D = [k \in DOMAIN D |-> D[k]]
      /\ \A n \in ValuedOf(nodes') : D[nodes'[n].key] = FlattenSeq(nodes'[n].values)
  BY <1>3, ContentOf
<1> HIDE DEF C, D
<1>6. /\ ValuedOf(nodes') = ValuedOf(nodes) \cup {node}
      /\ ValuedOf(nodes) \subseteq Allocated
      /\ node \in ValuedOf(nodes) <=> vs # <<>>
  BY <1>1, <1>2 DEF ValuedOf, Allocated, us
<1>7. DOMAIN D = DOMAIN C \cup {call.key}
  BY <1>1, <1>4, <1>5, <1>6
<1>8. ASSUME NEW n \in ValuedOf(nodes), n # node
      PROVE  nodes[n].key # call.key /\ D[nodes[n].key] = C[nodes[n].key]
  <2>1. n \in Allocated /\ n \in ValuedOf(nodes') /\ nodes'[n] = nodes[n]
    BY <1>1, <1>6, <1>8
  <2>2. nodes[n].key # call.key
    BY <1>1, <1>3, <1>8, <2>1 DEF KeysOnce, Allocated
  <2> QED
    BY <1>4, <1>5, <2>1, <2>2
<1>9. FlattenSeq(vs) = old
  <2>1. call.key \in DOMAIN C <=> node \in ValuedOf(nodes)
    BY <1>1, <1>4, <1>8
  <2> QED
    BY <1>1, <1>2, <1>4, <1>6, <2>1
<1>10. D[call.key] = Append(FlattenSeq(vs), call.value)
  BY <1>1, <1>2, <1>5, <1>6 DEF us
<1>11. \A l \in DOMAIN C : l # call.key => D[l] = C[l]
  BY <1>1, <1>4, <1>8
<1> HIDE DEF vs
<1> HIDE DEF old
<1>12. \E i \in 1 .. Len(old) + 1 :
         D = [l \in DOMAIN C \cup {call.key} |->
                IF l = call.key THEN Promise!InsertAt(old, i, call.value) ELSE C[l]]
  <2>1. /\ Promise!InsertAt(old, Len(old) + 1, call.value) = Append(old, call.value)
        /\ Len(old) + 1 \in 1 .. Len(old) + 1
    BY <1>1, <1>2, <1>9, AtTheEnd
  <2> DEFINE new == Promise!InsertAt(old, Len(old) + 1, call.value)
  <2>2. D[call.key] = new
    BY <1>9, <1>10, <2>1
  <2> HIDE DEF new
  <2>3. \A l \in DOMAIN D : D[l] = IF l = call.key THEN new ELSE C[l]
    BY <1>7, <1>11, <2>2
  <2>4. D = [l \in DOMAIN C \cup {call.key} |-> IF l = call.key THEN new ELSE C[l]]
    BY <1>5, <1>7, <2>3
  <2> QED
    BY <2>1, <2>4, Zenon DEF new
<1>13. call # NULL /\ UNCHANGED <<answer, passed>>
  BY <1>1, CallIs DEF AddValue
<1>14. Promise!Running("add") /\ Promise!Return
  BY <1>1, <1>13 DEF Promise!Running, Promise!Return
<1> HIDE DEF Promise!Running, Promise!Return
<1> DEFINE cl == IF pc = "idle" THEN NULL ELSE call
<1>15. \E i \in 1 .. Len(IF cl.key \in DOMAIN C THEN C[cl.key] ELSE <<>>) + 1 :
         D = [l \in DOMAIN C \cup {cl.key} |->
                IF l = cl.key
                THEN Promise!InsertAt(IF cl.key \in DOMAIN C THEN C[cl.key] ELSE <<>>, i, cl.value)
                ELSE C[l]]
  <2>1. cl = call
    BY <1>1
  <2> HIDE DEF cl
  <2> QED
    BY <1>12, <2>1, Zenon DEF old
<1> HIDE DEF cl
<1>16. Promise!Running("add") /\ Promise!Return /\ UNCHANGED <<answer, passed>>
  BY <1>13, <1>14
<1> QED
  BY <1>15, <1>16, ZenonT(30)
     DEF Promise!Add, Promise!Present, C, D, cl, Content, ValuedOf, Valued, Allocated

\* No call but mm_add_value() is in progress: the keys that are present are those of the nodes.
LEMMA PresentKeys ==
  ASSUME RefInv, ~Adding
  PROVE  /\ ValuedOf(nodes) = Allocated
         /\ DOMAIN Content(nodes) = {nodes[n].key : n \in Allocated}
         /\ \A n \in Allocated :
               /\ Content(nodes)[nodes[n].key] = FlattenSeq(nodes[n].values)
               /\ FlattenSeq(nodes[n].values) \in Seq(Values)
               /\ Gathers(nodes[n].values, FlattenSeq(nodes[n].values))
<1>1. ValuedOf(nodes) = Allocated
  BY DEF RefInv, Filled, ValuedOf, Allocated
<1>2. KeysOnce(nodes)
  BY NodesKeysOnce DEF RefInv
<1>3. ASSUME NEW n \in Allocated
      PROVE  /\ FlattenSeq(nodes[n].values) \in Seq(Values)
             /\ Gathers(nodes[n].values, FlattenSeq(nodes[n].values))
  <2>1. nodes[n].values \in Seq(Seq(Values)) /\ nodes[n].values # <<>>
    BY <1>1 DEF RefInv, IInv, Types, Node, ValuedOf
  <2>2. Joinable(nodes[n].values)
    BY DEF RefInv, AllJoinable
  <2> QED
    BY <2>1, <2>2, FlatFacts
<1> QED
  BY <1>1, <1>2, <1>3, ContentOf

LEMMA ContainsKeyMeant ==
  ASSUME RefInv, IInv', ContainsKey
  PROVE  Promise!ContainsKey
<1>1. /\ pc = "find" /\ call.op = "contains_key" /\ ~Adding
      /\ pc' = "idle" /\ answer' = (node # NULL) /\ UNCHANGED <<nodes, call, passed>>
  BY DEF ContainsKey, Finding, Adding, Return
<1>2. call # NULL
  BY <1>1, CallIs
<1>3. (node # NULL) <=> \E n \in Allocated : nodes[n].key = call.key
  <2>1. answer' # NULL
    BY <1>1, NullAssumption
  <2> QED
    BY <1>1, <2>1 DEF IInv, AnswersTrue, Allocated
<1>4. (node # NULL) <=> call.key \in DOMAIN Content(nodes)
  BY <1>1, <1>3, PresentKeys
<1>5. answer' = (call.key \in DOMAIN Content(nodes)) /\ Content(nodes') = Content(nodes)
  BY <1>1, <1>4
<1> QED
  BY <1>1, <1>2, <1>5, ContentMeant
     DEF Promise!ContainsKey, Promise!Running, Promise!Return, Promise!Present

LEMMA ContainsPairMeant ==
  ASSUME RefInv, IInv', ContainsPair
  PROVE  Promise!ContainsPair
<1> DEFINE C == Content(nodes)
           Has == call.key \in DOMAIN C /\ \E i \in DOMAIN C[call.key] : C[call.key][i] = call.value
<1>1. /\ pc = "find" /\ call.op = "contains_pair" /\ ~Adding
      /\ pc' = "idle" /\ answer' = (node # NULL /\ Holds(node, call.value))
      /\ UNCHANGED <<nodes, call, passed>>
  BY DEF ContainsPair, Finding, Adding, Return
<1>2. call # NULL /\ call.value \in Values
  BY <1>1, CallIs DEF Calls
<1>3. answer' <=> \E n \in Allocated : nodes[n].key = call.key /\ Holds(n, call.value)
  <2>1. answer' # NULL
    BY <1>1, NullAssumption
  <2>2. \A n, v : Holds(n, v)' = Holds(n, v)
    BY <1>1 DEF Holds
  <2> QED
    BY <1>1, <2>1, <2>2 DEF IInv, AnswersTrue, Allocated
<1>4. ASSUME NEW n \in Allocated
      PROVE  /\ C[nodes[n].key] \in Seq(Values)
             /\ Holds(n, call.value) <=> \E i \in DOMAIN C[nodes[n].key] : C[nodes[n].key][i] = call.value
  <2> DEFINE q  == FlattenSeq(nodes[n].values)
             vs == nodes[n].values
  <2>1. q = C[nodes[n].key] /\ q \in Seq(Values) /\ Gathers(vs, q)
    BY <1>1, PresentKeys
  <2>2. vs \in Seq(Seq(Values))
    BY DEF RefInv, IInv, Types, Node
  <2> HIDE DEF q, C
  <2>3. DOMAIN q = 1 .. Len(q) /\ DOMAIN vs = 1 .. Len(vs)
        /\ \A i \in 1 .. Len(vs) : DOMAIN vs[i] = 1 .. Len(vs[i])
    BY <2>1, <2>2
  <2>4. Holds(n, call.value) <=>
           \E i \in 1 .. Len(vs) : \E j \in 1 .. Len(vs[i]) : vs[i][j] = call.value
    BY <2>3 DEF Holds
  <2>5. Holds(n, call.value) <=> \E i \in DOMAIN q : q[i] = call.value
    BY <1>2, <2>1, <2>3, <2>4 DEF Gathers
  <2> QED
    BY <2>1, <2>5
<1>5. DOMAIN C = {nodes[n].key : n \in Allocated}
  BY <1>1, PresentKeys
<1> HIDE DEF C
<1>6. answer' <=> Has
  BY <1>3, <1>4, <1>5
<1>7. answer' = Has
  BY <1>1, <1>6
<1>8. Content(nodes') = C
  BY <1>1 DEF C
<1> QED
  BY <1>1, <1>2, <1>7, <1>8, ContentMeant
     DEF Promise!ContainsPair, Promise!Running, Promise!Return, Promise!Present, C

\* The keys that the traversal has not passed are those ahead of it.
LEMMA UnvisitedAhead ==
  ASSUME RefInv, Walking, NEW span \in [Allocated -> SUBSET Keys], SpansFit(span), WalkedBy(span)
  PROVE  Promise!Unvisited = {nodes[m].key : m \in {n \in Allocated : Ahead(span, nodes[n].key)}}
<1>1. ~Adding
  BY DEF Walking, Adding, Finding
<1>2. Promise!Unvisited = {k \in DOMAIN Content(nodes) : ~HasPassed(k)}
  <2>1. DOMAIN passed = 1 .. Len(passed)
    BY DEF WalkedBy
  <2> QED
    BY <2>1, ContentMeant DEF Promise!Unvisited, Promise!Present, HasPassed
<1>3. DOMAIN Content(nodes) = {nodes[n].key : n \in Allocated}
  BY <1>1, PresentKeys
<1> QED
  BY <1>2, <1>3 DEF WalkedBy

LEMMA PassMeant ==
  ASSUME RefInv, Pass
  PROVE  Promise!Pass
<1>1. PICK span \in [Allocated -> SUBSET Keys] : SpansFit(span) /\ WalkedBy(span)
  BY DEF RefInv, Walked, Pass
<1>2. /\ Types /\ stack # <<>> /\ node = NULL /\ Walking /\ pc = "walk" /\ ~Adding
      /\ UNCHANGED <<nodes, pc, call, answer>>
  BY DEF RefInv, IInv, Types, Pass, Walking, Adding, Finding
<1>3. PICK n \in Allocated : n = Head(stack)
  BY PassFacts
<1>4. PICK k \in Keys : k = nodes[n].key
  BY <1>3, PassFacts
<1>5. Content(nodes)[k] = FlattenSeq(nodes[n].values)
  BY <1>2, <1>4, PresentKeys
<1>6. k \in Promise!Unvisited
  <2>1. n = stack[1] /\ 1 \in 1 .. Len(stack)
    BY <1>1, <1>2, <1>3, TopIsLeast
  <2>2. Ahead(span, nodes[n].key)
    BY <2>1 DEF Ahead
  <2> QED
    BY <1>1, <1>2, <1>4, <2>2, UnvisitedAhead
<1>7. \A l \in Promise!Unvisited : k <= l
  <2>1. \A m \in Allocated : Ahead(span, nodes[m].key) => k <= nodes[m].key
    BY <1>1, <1>2, <1>3, <1>4, TopIsLeast
  <2> QED
    BY <1>1, <1>2, <2>1, UnvisitedAhead
<1>8. passed' = passed \o [i \in DOMAIN Content(nodes)[k] |-> <<k, Content(nodes)[k][i]>>]
  BY <1>3, <1>4, <1>5, PassFacts
<1>9. call # NULL /\ call.op = "traverse"
  BY <1>2, CallIs DEF RefInv, CallKnown
<1>10. Content(nodes') = Content(nodes)
  BY <1>2
<1> HIDE DEF Promise!Unvisited
<1> QED
  BY <1>2, <1>6, <1>7, <1>8, <1>9, <1>10, ContentMeant DEF Promise!Pass, Promise!Running

LEMMA FinishMeant ==
  ASSUME RefInv, Finish
  PROVE  Promise!Finish
<1>1. PICK span \in [Allocated -> SUBSET Keys] : SpansFit(span) /\ WalkedBy(span)
  BY DEF RefInv, Walked, Finish
<1>2. /\ stack = <<>> /\ node = NULL /\ Walking /\ pc = "walk" /\ pc' = "idle"
      /\ UNCHANGED <<nodes, call, answer, passed>>
  BY DEF Finish, Walking, Return
<1>3. Promise!Unvisited = {}
  <2>1. \A k : ~Ahead(span, k)
    BY <1>2 DEF Ahead
  <2> QED
    BY <1>1, <1>2, <2>1, UnvisitedAhead
<1>4. call # NULL /\ call.op = "traverse"
  BY <1>2, CallIs DEF RefInv, CallKnown
<1>5. Content(nodes') = Content(nodes)
  BY <1>2
<1> QED
  BY <1>2, <1>3, <1>4, <1>5, ContentMeant DEF Promise!Finish, Promise!Running, Promise!Return

LEMMA ClearMeant ==
  ASSUME RefInv, Clear
  PROVE  Promise!Clear
<1>1. Allocated' = {} /\ pc = "clear" /\ pc' = "idle" /\ UNCHANGED <<call, answer, passed>>
  <2>1. Types
    BY DEF RefInv, IInv
  <2>2. answer' = answer
    BY DEF Clear
  <2> QED
    BY <2>2, AllReached DEF Clear, Return, RefInv, IInv, Allocated
<1>2. Content(nodes') = <<>>
  BY <1>1 DEF Content, ValuedOf, Allocated
<1>3. call # NULL /\ call.op = "clear"
  BY <1>1, CallIs DEF RefInv, CallKnown
<1> QED
  BY <1>1, <1>2, <1>3, ContentMeant DEF Promise!Clear, Promise!Running, Promise!Return

LEMMA FollowMeant ==
  ASSUME RefInv, Follow \/ Enter \/ UNCHANGED vars
  PROVE  UNCHANGED Promise!vars
<1>1. UNCHANGED <<nodes, pc, call, answer, passed>>
  BY DEF Follow, Enter, vars
<1> QED
  BY <1>1, StutterMeant

LEMMA InitMeant == Init => Promise!Init
<1> SUFFICES ASSUME Init PROVE Promise!Init
  OBVIOUS
<1>1. Content(nodes) = <<>>
  BY DEF Init, Content, ValuedOf
<1> QED
  BY <1>1, ContentMeant DEF Init, Promise!Init

LEMMA StepMeant == RefInv /\ IInv' /\ [Next]_vars => [Promise!Next]_Promise!vars
<1> SUFFICES ASSUME RefInv, IInv', [Next]_vars PROVE [Promise!Next]_Promise!vars
  OBVIOUS
<1>1. ASSUME NEW c \in Calls, Invoke(c) PROVE Promise!Next
  BY <1>1, InvokeMeant DEF Promise!Next, Promise!Calls, Calls
<1> QED
  BY <1>1, FollowMeant, CreateMeant, AddMeant, ContainsKeyMeant, ContainsPairMeant, PassMeant,
     FinishMeant, ClearMeant DEF Next, Promise!Next

(* Every call does what multimap.h says of it, for any keys and values, any
   number of nodes and arrays of any size: each step of a call is a step of
   the abstract multimap or leaves it alone, no value that was added is lost or
   repeated, and the traversal passes the keys in ascending order. *)
THEOREM TreeImplementsMultiMap == Spec => ImplementsMultiMap
<1>1. Spec => []RefInv
  BY RefInit, RefStep, PTL DEF Spec
<1>2. RefInv => IInv
  BY DEF RefInv
<1>3. RefInv' => IInv'
  BY DEF RefInv
<1> QED
  BY <1>1, <1>2, <1>3, InitMeant, StepMeant, PTL DEF Spec, ImplementsMultiMap, Promise!Spec

-----------------------------------------------------------------------------
(* From here on: the B-tree of opt_mm_impl_BT.c, for any MIN_FACTOR.

   Nodes h below a root r are described by their sizes, keys and pointers.
   Tree: every pointer leads to a node of its own, and no set of nodes that is
   closed under pointers leaves one out.  What a step does is first reduced to
   PutKey (a key without a subtree is put into a node) or SplitOf (splitChild()),
   and these are then shown to keep Tree, Shaped, Bounded and Spanned.

   The keys are not in the order of a B-tree: insertHelper() appends a key that
   is above all keys of a node to this node, even if it is not a leaf.  Two
   weaker facts are what keeps the keys of each node ascending.  Bounded: what
   hangs before a key is below it, but for a last key that was appended so.
   Spanned: what hangs behind a key is above it.  When a full node is split, its
   middle key is therefore above the key before it in the parent and, not being
   the last one, below the key behind. *)

BArray == [value : [1 .. ArraySize -> BValues \cup {NULL}], size : 0 .. ArraySize]
BKey   == [key : BKeys, left : BAddress \cup {NULL}, values : Seq(BArray)]
BNode  == [keys : Seq(BKey), child : BAddress \cup {NULL}]

\* Nodes by their address; the number of keys of one, a key of it, and its pointers:
\* number 0 is node_child, number i is the subtree before key i.
IsHeap(h)    == DOMAIN h \subseteq BAddress /\ h \in [DOMAIN h -> BNode]
Size(h, n)   == Len(h[n].keys)
Key(h, n, i) == h[n].keys[i].key
Ptr(h, n, i) == IF i = 0 THEN h[n].child ELSE h[n].keys[i].left
Arrays(h, n, i) == h[n].keys[i].values

LEMMA Factors == /\ MinFactor \in Nat /\ MinFactor >= 2
                 /\ Full \in Nat /\ Full = 2 * MinFactor - 1
BY SplitAssumption

LEMMA HeapFacts ==
  ASSUME NEW h, IsHeap(h), NEW n \in DOMAIN h
  PROVE  /\ h[n] \in BNode /\ Size(h, n) \in Nat /\ DOMAIN h[n].keys = 1 .. Size(h, n)
         /\ h[n].keys \in Seq(BKey)
         /\ \A i \in 1 .. Size(h, n) : h[n].keys[i] \in BKey /\ Key(h, n, i) \in BKeys /\ Key(h, n, i) \in Int
         /\ \A i \in 0 .. Size(h, n) : Ptr(h, n, i) \in BAddress \cup {NULL}
<1>1. h[n] \in BNode /\ h[n].keys \in Seq(BKey) /\ h[n].child \in BAddress \cup {NULL}
  BY DEF IsHeap, BNode
<1>2. /\ Len(h[n].keys) \in Nat /\ DOMAIN h[n].keys = 1 .. Len(h[n].keys)
      /\ \A i \in 1 .. Len(h[n].keys) : h[n].keys[i] \in BKey
  BY <1>1
<1>3. \A e \in BKey : e.key \in BKeys /\ e.left \in BAddress \cup {NULL}
  BY DEF BKey
<1>4. \A i \in 1 .. Len(h[n].keys) : /\ h[n].keys[i].key \in BKeys /\ h[n].keys[i].key \in Int
                                       /\ h[n].keys[i].left \in BAddress \cup {NULL}
  BY <1>2, <1>3, BKeysAssumption
<1>5. \A i \in 0 .. Len(h[n].keys) : i = 0 \/ i \in 1 .. Len(h[n].keys)
  BY <1>2
<1> QED
  BY <1>1, <1>2, <1>4, <1>5 DEF Size, Key, Ptr

\* A set of indices that holds all below any of its own is counted by its last.
LEMMA CountPrefix ==
  ASSUME NEW n \in Nat, NEW A \in SUBSET (1 .. n), \A i \in A, j \in 1 .. n : j < i => j \in A
  PROVE  Cardinality(A) \in 0 .. n /\ A = 1 .. Cardinality(A)
<1> DEFINE T == {i \in Nat : i \in 1 .. n + 1 /\ i \notin A}
<1>1. T # {} /\ T \subseteq Nat
  <2>1. n + 1 \in T
    OBVIOUS
  <2> QED
    BY <2>1
<1>2. PICK m \in T : \A k \in T : m <= k
  BY <1>1, LeastNat
<1>3. m \in 1 .. n + 1 /\ m \notin A /\ \A i \in 1 .. n : i < m => i \in A
  BY <1>2
<1>4. A = 1 .. m - 1
  <2>1. \A i \in A : i < m
    BY <1>3
  <2>2. \A i \in A : i \in 1 .. m - 1
    BY <2>1, <1>3
  <2>3. \A i \in 1 .. m - 1 : i \in A
    BY <1>3
  <2> QED
    BY <2>2, <2>3
<1>5. Cardinality(1 .. m - 1) = m - 1
  BY <1>3, FS_Interval
<1> QED
  BY <1>3, <1>4, <1>5

Ascending(s) == \A i, j \in 1 .. Len(s) : i < j => s[i].key < s[j].key

LEMMA CountBelow ==
  ASSUME NEW s \in Seq(BKey), Ascending(s), NEW k \in Int
  PROVE  LET c == Cardinality({i \in 1 .. Len(s) : s[i].key < k}) + 1
             d == Cardinality({i \in 1 .. Len(s) : s[i].key <= k}) + 1
         IN  /\ c \in 1 .. Len(s) + 1 /\ d \in 1 .. Len(s) + 1
             /\ \A i \in 1 .. Len(s) : (i < c => s[i].key < k) /\ (i >= c => s[i].key >= k)
             /\ \A i \in 1 .. Len(s) : (i < d => s[i].key <= k) /\ (i >= d => s[i].key > k)
<1> DEFINE A == {i \in 1 .. Len(s) : s[i].key < k}
           D == {i \in 1 .. Len(s) : s[i].key <= k}
<1>1. Len(s) \in Nat /\ \A i \in 1 .. Len(s) : s[i].key \in Int
  <2>1. \A i \in 1 .. Len(s) : s[i] \in BKey
    OBVIOUS
  <2>2. \A e \in BKey : e.key \in Int
    BY BKeysAssumption DEF BKey
  <2> QED
    BY <2>1, <2>2
<1>2. /\ A \in SUBSET (1 .. Len(s)) /\ \A i \in A, j \in 1 .. Len(s) : j < i => j \in A
      /\ D \in SUBSET (1 .. Len(s)) /\ \A i \in D, j \in 1 .. Len(s) : j < i => j \in D
  BY <1>1 DEF Ascending
<1>3. /\ \A i \in 1 .. Len(s) : i \in A <=> s[i].key < k
      /\ \A i \in 1 .. Len(s) : i \in D <=> s[i].key <= k
  OBVIOUS
<1> SUFFICES /\ Cardinality(A) + 1 \in 1 .. Len(s) + 1 /\ Cardinality(D) + 1 \in 1 .. Len(s) + 1
             /\ \A i \in 1 .. Len(s) : /\ i < Cardinality(A) + 1 => s[i].key < k
                                       /\ i >= Cardinality(A) + 1 => s[i].key >= k
             /\ \A i \in 1 .. Len(s) : /\ i < Cardinality(D) + 1 => s[i].key <= k
                                       /\ i >= Cardinality(D) + 1 => s[i].key > k
  OBVIOUS
<1> HIDE DEF A, D
<1>4. Cardinality(A) \in 0 .. Len(s) /\ A = 1 .. Cardinality(A)
  BY <1>1, <1>2, CountPrefix
<1>5. Cardinality(D) \in 0 .. Len(s) /\ D = 1 .. Cardinality(D)
  BY <1>1, <1>2, CountPrefix
<1> QED
  BY <1>1, <1>3, <1>4, <1>5

LEMMA JoinFacts ==
  ASSUME NEW S, NEW s \in Seq(S), NEW t \in Seq(S)
  PROVE  /\ s \o t \in Seq(S) /\ Len(s \o t) = Len(s) + Len(t)
         /\ \A i \in 1 .. Len(s) + Len(t) : (s \o t)[i] = IF i <= Len(s) THEN s[i] ELSE t[i - Len(s)]
OBVIOUS

\* w is s with e as number p.
Inserted(s, p, e, w) ==
  /\ w \in Seq(BKey) /\ Len(w) = Len(s) + 1
  /\ \A i \in 1 .. Len(s) + 1 : w[i] = IF i < p THEN s[i] ELSE IF i = p THEN e ELSE s[i - 1]

LEMMA InsertFacts ==
  ASSUME NEW s \in Seq(BKey), NEW p \in 1 .. Len(s) + 1, NEW e \in BKey
  PROVE  Inserted(s, p, e, InsertAt(s, p, e))
<1> DEFINE u == SubSeq(s, 1, p - 1)
           v == <<e>>
           w == SubSeq(s, p, Len(s))
<1>1. Len(s) \in Nat /\ p \in Nat /\ \A i \in 1 .. Len(s) : s[i] \in BKey
  OBVIOUS
<1>2. u \in Seq(BKey) /\ Len(u) = p - 1 /\ \A i \in 1 .. p - 1 : u[i] = s[i]
  BY <1>1
<1>3. w \in Seq(BKey) /\ Len(w) = Len(s) - p + 1 /\ \A i \in 1 .. Len(s) - p + 1 : w[i] = s[p + i - 1]
  BY <1>1
<1>4. v \in Seq(BKey) /\ Len(v) = 1 /\ v[1] = e
  OBVIOUS
<1>5. InsertAt(s, p, e) = (u \o v) \o w
  BY DEF InsertAt
<1> HIDE DEF u, v, w
<1>6. u \o v \in Seq(BKey) /\ Len(u \o v) = p /\ \A i \in 1 .. p : (u \o v)[i] = IF i < p THEN s[i] ELSE e
  <2>1. u \o v \in Seq(BKey) /\ Len(u \o v) = Len(u) + Len(v)
    BY <1>2, <1>4, JoinFacts
  <2>2. \A i \in 1 .. p : (u \o v)[i] = IF i <= Len(u) THEN u[i] ELSE v[i - Len(u)]
    <3>1. Len(u) + Len(v) = p /\ u \in Seq(BKey) /\ v \in Seq(BKey)
      BY <1>1, <1>2, <1>4
    <3> QED
      BY <3>1, JoinFacts
  <2> QED
    BY <2>1, <2>2, <1>1, <1>2, <1>4
<1> DEFINE x == u \o v
<1> HIDE DEF x
<1>7. /\ x \in Seq(BKey) /\ Len(x) = p /\ \A i \in 1 .. p : x[i] = IF i < p THEN s[i] ELSE e
      /\ InsertAt(s, p, e) = x \o w
  BY <1>5, <1>6 DEF x
<1>8. x \o w \in Seq(BKey) /\ Len(x \o w) = Len(s) + 1
  <2>1. x \o w \in Seq(BKey) /\ Len(x \o w) = Len(x) + Len(w)
    BY <1>3, <1>7
  <2> QED
    BY <2>1, <1>1, <1>3, <1>7
<1>9. \A i \in 1 .. Len(s) + 1 : (x \o w)[i] = IF i < p THEN s[i] ELSE IF i = p THEN e ELSE s[i - 1]
  <2> SUFFICES ASSUME NEW i \in 1 .. Len(s) + 1
               PROVE  (x \o w)[i] = IF i < p THEN s[i] ELSE IF i = p THEN e ELSE s[i - 1]
    OBVIOUS
  <2>1. CASE i <= p
    BY <2>1, <1>1, <1>3, <1>7
  <2>2. CASE i > p
    <3>1. (x \o w)[i] = w[i - p] /\ i - p \in 1 .. Len(s) - p + 1 /\ p + (i - p) - 1 = i - 1
      BY <2>2, <1>1, <1>3, <1>7
    <3> QED
      BY <3>1, <2>2, <1>1, <1>3
  <2>3. i <= p \/ i > p
    BY <1>1
  <2> QED
    BY <2>1, <2>2, <2>3
<1> QED
  BY <1>7, <1>8, <1>9 DEF Inserted

-----------------------------------------------------------------------------
\* What splitChild() and insertHelper() do to the keys and the pointers.

LEMMA HalfFacts ==
  ASSUME NEW n \in BNode, Len(n.keys) = Full
  PROVE  /\ B!Middle(n) \in BKey /\ B!Middle(n) = n.keys[MinFactor]
         /\ B!Lower(n) \in BNode /\ Len(B!Lower(n).keys) = MinFactor - 1
         /\ B!Lower(n).child = n.keys[MinFactor].left
         /\ \A i \in 1 .. MinFactor - 1 : B!Lower(n).keys[i] = n.keys[i]
         /\ B!Upper(n) \in BNode /\ Len(B!Upper(n).keys) = MinFactor - 1
         /\ B!Upper(n).child = n.child
         /\ \A i \in 1 .. MinFactor - 1 : B!Upper(n).keys[i] = n.keys[MinFactor + i]
<1> DEFINE t == MinFactor
           s == n.keys
           u == SubSeq(s, 1, t - 1)
           w == SubSeq(s, t + 1, Full)
<1>1. s \in Seq(BKey) /\ n.child \in BAddress \cup {NULL}
  BY DEF BNode
<1>2. \A i \in 1 .. Full : s[i] \in BKey
  BY <1>1
<1>3. t \in Nat /\ t >= 2 /\ Full = 2 * t - 1
  BY Factors
<1>4. B!Middle(n) = s[t] /\ s[t] \in BKey /\ s[t].left \in BAddress \cup {NULL}
  <2>1. s[t] \in BKey
    BY <1>2, <1>3
  <2> QED
    BY <2>1 DEF B!Middle, BKey
<1>5. B!Lower(n) = [keys |-> u, child |-> s[t].left] /\ B!Upper(n) = [keys |-> w, child |-> n.child]
  BY <1>4 DEF B!Lower, B!Upper
<1> HIDE DEF t, s
<1>6. u \in Seq(BKey) /\ Len(u) = t - 1 /\ \A i \in 1 .. t - 1 : u[i] = s[i]
  BY <1>1, <1>2, <1>3
<1>7. w \in Seq(BKey) /\ Len(w) = t - 1 /\ \A i \in 1 .. t - 1 : w[i] = s[t + i]
  <2>1. Full = t + (t - 1) /\ \A i \in 1 .. t - 1 : t + i \in 1 .. Full /\ t + 1 + i - 1 = t + i
    BY <1>3
  <2>2. w \in Seq(BKey) /\ Len(w) = Full - (t + 1) + 1
    BY <1>1, <1>2, <1>3
  <2>3. \A i \in 1 .. t - 1 : w[i] = s[t + 1 + i - 1]
    BY <1>1, <1>2, <1>3
  <2> QED
    BY <2>1, <2>2, <2>3, <1>3
<1> HIDE DEF u, w
<1>8. B!Lower(n) \in BNode /\ B!Upper(n) \in BNode
  BY <1>1, <1>4, <1>5, <1>6, <1>7 DEF BNode
<1> QED
  BY <1>4, <1>5, <1>6, <1>7, <1>8 DEF t, s

\* Operators of the library under the names that BTree's instance has for them.
LEMMA SameCount == ASSUME NEW S PROVE B!Cardinality(S) = Cardinality(S)
BY DEF B!Cardinality, Cardinality

LEMMA SameInsert == ASSUME NEW s, NEW p, NEW e PROVE B!InsertAt(s, p, e) = InsertAt(s, p, e)
BY DEF B!InsertAt, InsertAt

LEMMA ReplaceFacts ==
  ASSUME NEW S, NEW s \in Seq(S), NEW i, NEW e \in S
  PROVE  [s EXCEPT ![i] = e] \in Seq(S)
<1>1. s \in [1 .. Len(s) -> S] /\ Len(s) \in Nat
  OBVIOUS
<1>2. [s EXCEPT ![i] = e] \in [1 .. Len(s) -> S]
  BY <1>1
<1> QED
  BY <1>1, <1>2

LEMMA RaisedFacts ==
  ASSUME NEW n \in BNode, NEW e \in BKey, NEW c \in BAddress, NEW new \in BAddress,
         NEW j \in 1 .. Len(n.keys) + 1,
         \A i \in 1 .. Len(n.keys) : /\ i < j => n.keys[i].key < e.key
                                     /\ i >= j => e.key < n.keys[i].key
  PROVE  LET m == Len(n.keys)
             r == B!Raised(n, e, c, new)
         IN  /\ r \in BNode /\ Len(r.keys) = m + 1
             /\ r.child = IF j = m + 1 THEN new ELSE n.child
             /\ \A i \in 1 .. m + 1 :
                  /\ r.keys[i].key = IF i < j THEN n.keys[i].key
                                     ELSE IF i = j THEN e.key ELSE n.keys[i - 1].key
                  /\ r.keys[i].left = IF i < j THEN n.keys[i].left
                                      ELSE IF i = j THEN c
                                      ELSE IF i = j + 1 THEN new ELSE n.keys[i - 1].left
                  /\ r.keys[i].values = IF i < j THEN n.keys[i].values
                                        ELSE IF i = j THEN e.values ELSE n.keys[i - 1].values
<1> DEFINE s == n.keys
           m == Len(s)
           f == [e EXCEPT !.left = c]
           p == Cardinality({i \in DOMAIN s : s[i].key <= e.key}) + 1
           w == InsertAt(s, j, f)
           r == B!Raised(n, e, c, new)
<1>1. s \in Seq(BKey) /\ n.child \in BAddress \cup {NULL} /\ m \in Nat /\ DOMAIN s = 1 .. m
  BY DEF BNode
<1>2. /\ e.key \in Int /\ f \in BKey /\ f.key = e.key /\ f.left = c /\ f.values = e.values
      /\ \A x \in BKey : x.key \in Int
      /\ \A x \in BKey : [x EXCEPT !.left = new] \in BKey /\ [x EXCEPT !.left = new].key = x.key
                         /\ [x EXCEPT !.left = new].left = new /\ [x EXCEPT !.left = new].values = x.values
  BY BKeysAssumption DEF BKey
<1>3. \A i \in 1 .. m : s[i] \in BKey /\ s[i].key \in Int
  BY <1>1, <1>2
<1>0. j \in 1 .. m + 1 /\ j \in Nat
  BY <1>1
<1>4. p = j
  <2> DEFINE A == {i \in DOMAIN s : s[i].key <= e.key}
  <2>1. \A i \in 1 .. m : i \in A <=> i < j
    BY <1>1, <1>2, <1>3
  <2>2. A = 1 .. j - 1
    <3>1. A \subseteq 1 .. m
      BY <1>1
    <3> HIDE DEF A, s, m
    <3>2. \A i \in A : i \in 1 .. j - 1
      BY <2>1, <3>1, <1>0, <1>1
    <3>3. \A i \in 1 .. j - 1 : i \in A
      BY <2>1, <1>0, <1>1
    <3> QED
      BY <3>2, <3>3
  <2>3. Cardinality(1 .. j - 1) = j - 1
    BY <1>0, FS_Interval
  <2>4. p = Cardinality(A) + 1
    OBVIOUS
  <2> HIDE DEF A, p
  <2> QED
    BY <2>2, <2>3, <2>4, <1>0
<1>5. /\ w \in Seq(BKey) /\ Len(w) = m + 1
      /\ \A i \in 1 .. m + 1 : w[i] = IF i < j THEN s[i] ELSE IF i = j THEN f ELSE s[i - 1]
  <2>1. f \in BKey
    BY <1>2
  <2> HIDE DEF f, s
  <2>2. s \in Seq(BKey) /\ j \in 1 .. Len(s) + 1 /\ f \in BKey
    BY <1>0, <1>1, <2>1
  <2> QED
    BY <2>2, InsertFacts DEF Inserted
<1>6. r = IF j = m + 1 THEN [keys |-> w, child |-> new]
          ELSE [keys |-> [w EXCEPT ![j + 1].left = new], child |-> n.child]
  <2>1. r = IF p = Len(InsertAt(s, p, f)) THEN [keys |-> InsertAt(s, p, f), child |-> new]
            ELSE [keys |-> [InsertAt(s, p, f) EXCEPT ![p + 1].left = new], child |-> n.child]
    BY SameCount, SameInsert DEF B!Raised
  <2>2. InsertAt(s, p, f) = w
    BY <1>4
  <2> HIDE DEF r, p, w, s
  <2> QED
    BY <2>1, <2>2, <1>4, <1>5
<1> SUFFICES /\ r \in BNode /\ Len(r.keys) = m + 1
             /\ r.child = IF j = m + 1 THEN new ELSE n.child
             /\ \A i \in 1 .. m + 1 :
                  /\ r.keys[i].key = IF i < j THEN s[i].key ELSE IF i = j THEN e.key ELSE s[i - 1].key
                  /\ r.keys[i].left = IF i < j THEN s[i].left ELSE IF i = j THEN c
                                      ELSE IF i = j + 1 THEN new ELSE s[i - 1].left
                  /\ r.keys[i].values = IF i < j THEN s[i].values ELSE IF i = j THEN e.values
                                        ELSE s[i - 1].values
  OBVIOUS
<1> HIDE DEF s, m, f, p, w, r
<1>7. CASE j = m + 1
  <2>1. r = [keys |-> w, child |-> new]
    BY <1>6, <1>7
  <2>2. r \in BNode
    BY <2>1, <1>5 DEF BNode
  <2>3. \A i \in 1 .. m + 1 : w[i] = IF i < j THEN s[i] ELSE f
    BY <1>5, <1>7, <1>1
  <2> QED
    BY <2>1, <2>2, <2>3, <1>1, <1>2, <1>5, <1>7
<1>8. CASE j # m + 1
  <2> DEFINE g == [w EXCEPT ![j + 1].left = new]
  <2>1. r = [keys |-> g, child |-> n.child]
    BY <1>6, <1>8
  <2>2. j \in 1 .. m /\ j + 1 \in 1 .. m + 1 /\ w[j + 1] = s[j] /\ w[j + 1] \in BKey
    <3>1. j \in 1 .. m /\ j + 1 \in 1 .. m + 1 /\ ~(j + 1 < j) /\ j + 1 # j /\ j + 1 - 1 = j
      BY <1>1, <1>8 DEF m, s
    <3> QED
      BY <3>1, <1>3, <1>5
  <2>3. DOMAIN w = 1 .. m + 1
    BY <1>5
  <2>4. /\ g \in Seq(BKey) /\ Len(g) = m + 1
        /\ \A i \in 1 .. m + 1 : g[i] = IF i = j + 1 THEN [w[i] EXCEPT !.left = new] ELSE w[i]
    <3> DEFINE x == [w[j + 1] EXCEPT !.left = new]
    <3>1. x \in BKey
      BY <2>2, <1>2
    <3>2. g = [w EXCEPT ![j + 1] = x]
      BY <2>2, <2>3
    <3>3. w \in Seq(BKey)
      BY <1>5
    <3> HIDE DEF x, g
    <3>4. g \in Seq(BKey) /\ Len(g) = Len(w) /\ \A i \in 1 .. m + 1 : g[i] = IF i = j + 1 THEN x ELSE w[i]
      <4>1. DOMAIN g = DOMAIN w
        BY <3>2
      <4>2. \A i \in 1 .. m + 1 : g[i] = IF i = j + 1 THEN x ELSE w[i]
        BY <3>2, <2>3
      <4>3. g \in Seq(BKey)
        BY <3>1, <3>2, <3>3, ReplaceFacts
      <4> QED
        BY <4>1, <4>2, <4>3, <3>3
    <3> QED
      BY <3>4, <1>5 DEF x
  <2>5. r \in BNode
    BY <2>1, <2>4, <1>1 DEF BNode
  <2> HIDE DEF g
  <2>6. ASSUME NEW i \in 1 .. m + 1
        PROVE  /\ g[i].key = IF i < j THEN s[i].key ELSE IF i = j THEN e.key ELSE s[i - 1].key
               /\ g[i].left = IF i < j THEN s[i].left ELSE IF i = j THEN c
                              ELSE IF i = j + 1 THEN new ELSE s[i - 1].left
               /\ g[i].values = IF i < j THEN s[i].values ELSE IF i = j THEN e.values
                                ELSE s[i - 1].values
    <3>1. CASE i = j + 1
      <4>1. i - 1 = j /\ ~(i < j) /\ i # j
        BY <3>1, <1>0
      <4>2. g[i] = [w[j + 1] EXCEPT !.left = new]
        BY <3>1, <2>4
      <4>3. g[i] = [s[j] EXCEPT !.left = new] /\ s[j] \in BKey
        BY <4>2, <2>2, <1>3
      <4> QED
        BY <4>1, <4>3, <3>1, <1>2
    <3>2. CASE i # j + 1
      BY <3>2, <2>4, <1>2, <1>5
    <3> QED
      BY <3>1, <3>2
  <2> QED
    BY <2>1, <2>4, <2>5, <2>6, <1>8
<1> QED
  BY <1>7, <1>8

\* Node n is in g what it is in h.
SameNode(h, g, n) == /\ Size(g, n) = Size(h, n)
                     /\ \A i \in 1 .. Size(h, n) : Key(g, n, i) = Key(h, n, i)
                     /\ \A i \in 0 .. Size(h, n) : Ptr(g, n, i) = Ptr(h, n, i)

\* g is h with the full node c split: the node new has the upper half.
Halved(h, g, c, new) ==
  /\ DOMAIN g = DOMAIN h \cup {new}
  /\ Size(g, c) = MinFactor - 1 /\ Size(g, new) = MinFactor - 1
  /\ Ptr(g, c, 0) = Ptr(h, c, MinFactor) /\ Ptr(g, new, 0) = Ptr(h, c, 0)
  /\ \A i \in 1 .. MinFactor - 1 :
       /\ Key(g, c, i) = Key(h, c, i) /\ Ptr(g, c, i) = Ptr(h, c, i)
       /\ Key(g, new, i) = Key(h, c, MinFactor + i) /\ Ptr(g, new, i) = Ptr(h, c, MinFactor + i)

\* p has key k as number j, with c before and new after it.
Gained(h, g, p, j, k, c, new) ==
  /\ Size(g, p) = Size(h, p) + 1
  /\ Ptr(g, p, 0) = IF j = Size(h, p) + 1 THEN new ELSE Ptr(h, p, 0)
  /\ \A i \in 1 .. Size(h, p) + 1 :
       /\ Key(g, p, i) = IF i < j THEN Key(h, p, i) ELSE IF i = j THEN k ELSE Key(h, p, i - 1)
       /\ Ptr(g, p, i) = IF i < j THEN Ptr(h, p, i) ELSE IF i = j THEN c
                         ELSE IF i = j + 1 THEN new ELSE Ptr(h, p, i - 1)

\* And what becomes of the arrays of the keys.
Carried(h, g, p, j, c, new) ==
  /\ \A i \in 1 .. MinFactor - 1 : /\ Arrays(g, c, i) = Arrays(h, c, i)
                                   /\ Arrays(g, new, i) = Arrays(h, c, MinFactor + i)
  /\ \A i \in 1 .. Size(h, p) + 1 :
       Arrays(g, p, i) = IF i < j THEN Arrays(h, p, i) ELSE IF i = j THEN Arrays(h, c, MinFactor)
                         ELSE Arrays(h, p, i - 1)
  /\ \A n \in DOMAIN h \ {p, c} : \A i \in 1 .. Size(h, n) : Arrays(g, n, i) = Arrays(h, n, i)

LEMMA SplitMeant ==
  ASSUME NEW h, IsHeap(h), NEW p \in DOMAIN h, NEW c \in DOMAIN h, p # c,
         NEW new \in BAddress \ DOMAIN h, Size(h, c) = Full,
         NEW j \in 1 .. Size(h, p) + 1,
         \A i \in 1 .. Size(h, p) : /\ i < j => Key(h, p, i) < Key(h, c, MinFactor)
                                    /\ i >= j => Key(h, c, MinFactor) < Key(h, p, i)
  PROVE  LET g == B!Split(h, p, c, new)
         IN  /\ IsHeap(g)
             /\ Halved(h, g, c, new)
             /\ Gained(h, g, p, j, Key(h, c, MinFactor), c, new)
             /\ \A n \in DOMAIN h \ {p, c} : SameNode(h, g, n)
             /\ Carried(h, g, p, j, c, new)
<1> DEFINE g == B!Split(h, p, c, new)
<1>1. h[p] \in BNode /\ h[c] \in BNode /\ c \in BAddress /\ DOMAIN h \subseteq BAddress
  BY DEF IsHeap
<1>2. Len(h[c].keys) = Full
  BY DEF Size
<1>3. /\ B!Middle(h[c]) \in BKey /\ B!Middle(h[c]) = h[c].keys[MinFactor]
      /\ B!Lower(h[c]) \in BNode /\ Len(B!Lower(h[c]).keys) = MinFactor - 1
      /\ B!Lower(h[c]).child = h[c].keys[MinFactor].left
      /\ \A i \in 1 .. MinFactor - 1 : B!Lower(h[c]).keys[i] = h[c].keys[i]
      /\ B!Upper(h[c]) \in BNode /\ Len(B!Upper(h[c]).keys) = MinFactor - 1
      /\ B!Upper(h[c]).child = h[c].child
      /\ \A i \in 1 .. MinFactor - 1 : B!Upper(h[c]).keys[i] = h[c].keys[MinFactor + i]
  BY <1>1, <1>2, HalfFacts
<1> DEFINE e == B!Middle(h[c])
           q == h[p]
           r == B!Raised(q, e, c, new)
           m == Len(q.keys)
<1>4. /\ r \in BNode /\ Len(r.keys) = m + 1
      /\ r.child = IF j = m + 1 THEN new ELSE q.child
      /\ \A i \in 1 .. m + 1 :
           /\ r.keys[i].key = IF i < j THEN q.keys[i].key
                              ELSE IF i = j THEN e.key ELSE q.keys[i - 1].key
           /\ r.keys[i].left = IF i < j THEN q.keys[i].left
                               ELSE IF i = j THEN c
                               ELSE IF i = j + 1 THEN new ELSE q.keys[i - 1].left
           /\ r.keys[i].values = IF i < j THEN q.keys[i].values
                                 ELSE IF i = j THEN e.values ELSE q.keys[i - 1].values
  <2>1. j \in 1 .. m + 1
    BY DEF Size
  <2>2. \A i \in 1 .. m : /\ i < j => q.keys[i].key < e.key
                          /\ i >= j => e.key < q.keys[i].key
    BY <1>3 DEF Size, Key
  <2>3. q \in BNode /\ e \in BKey
    BY <1>1, <1>3
  <2> HIDE DEF q, e
  <2> QED
    BY <2>1, <2>2, <2>3, <1>1, RaisedFacts
<1>5. /\ DOMAIN g = DOMAIN h \cup {new} /\ g[c] = B!Lower(h[c]) /\ g[new] = B!Upper(h[c]) /\ g[p] = r
      /\ \A n \in DOMAIN h \ {p, c} : g[n] = h[n]
  <2> HIDE DEF e, q
  <2>1. g = [a \in DOMAIN h \cup {new} |->
                CASE a = c     -> B!Lower(h[c])
                  [] a = new   -> B!Upper(h[c])
                  [] a = p     -> B!Raised(h[p], B!Middle(h[c]), c, new)
                  [] OTHER     -> h[a]]
    BY DEF B!Split
  <2> HIDE DEF g
  <2>2. c # new /\ p # new /\ p # c
    OBVIOUS
  <2> QED
    BY <2>1, <2>2 DEF e, q
<1>6. e.key = Key(h, c, MinFactor) /\ e.values = Arrays(h, c, MinFactor)
  BY <1>3 DEF Key, Arrays
<1> HIDE DEF g, r, e
<1>7. IsHeap(g)
  <2>1. g = [n \in DOMAIN g |-> g[n]]
    BY DEF g, B!Split
  <2>2. \A n \in DOMAIN g : g[n] \in BNode
    <3>1. \A n \in DOMAIN h : h[n] \in BNode
      BY DEF IsHeap
    <3> QED
      BY <3>1, <1>3, <1>4, <1>5
  <2> QED
    BY <2>1, <2>2, <1>1, <1>5 DEF IsHeap
<1>8. Halved(h, g, c, new)
  <2>1. /\ \A i \in 1 .. MinFactor - 1 : i # 0
        /\ MinFactor # 0 /\ \A i \in 1 .. MinFactor - 1 : MinFactor + i # 0
    BY Factors
  <2> QED
    BY <2>1, <1>3, <1>5 DEF Halved, Size, Key, Ptr
<1>9. Gained(h, g, p, j, Key(h, c, MinFactor), c, new)
  <2>1. m \in Nat /\ m = Size(h, p)
    BY HeapFacts DEF Size
  <2>2. \A i \in 1 .. m + 1 : /\ i # 0 /\ ~(i < j) /\ i # j => i - 1 \in 1 .. m /\ i - 1 # 0
    BY <2>1
  <2>3. Size(g, p) = m + 1 /\ Ptr(g, p, 0) = IF j = m + 1 THEN new ELSE Ptr(h, p, 0)
    BY <1>4, <1>5 DEF Size, Ptr
  <2>4. ASSUME NEW i \in 1 .. m + 1
        PROVE  /\ Key(g, p, i) = IF i < j THEN Key(h, p, i)
                                 ELSE IF i = j THEN e.key ELSE Key(h, p, i - 1)
               /\ Ptr(g, p, i) = IF i < j THEN Ptr(h, p, i) ELSE IF i = j THEN c
                                 ELSE IF i = j + 1 THEN new ELSE Ptr(h, p, i - 1)
    BY <1>4, <1>5, <2>2 DEF Key, Ptr
  <2> QED
    BY <1>6, <2>1, <2>3, <2>4 DEF Gained
<1>10. \A n \in DOMAIN h \ {p, c} : SameNode(h, g, n)
  BY <1>5 DEF SameNode, Size, Key, Ptr
<1>11. Carried(h, g, p, j, c, new)
  <2>1. \A i \in 1 .. MinFactor - 1 : /\ Arrays(g, c, i) = Arrays(h, c, i)
                                      /\ Arrays(g, new, i) = Arrays(h, c, MinFactor + i)
    BY <1>3, <1>5 DEF Arrays
  <2>2. m = Size(h, p)
    BY DEF Size
  <2>3. \A i \in 1 .. m + 1 :
          Arrays(g, p, i) = IF i < j THEN Arrays(h, p, i) ELSE IF i = j THEN e.values
                            ELSE Arrays(h, p, i - 1)
    BY <1>4, <1>5 DEF Arrays
  <2>4. \A n \in DOMAIN h \ {p, c} : \A i \in 1 .. Size(h, n) : Arrays(g, n, i) = Arrays(h, n, i)
    BY <1>5 DEF Arrays
  <2> QED
    BY <2>1, <2>2, <2>3, <2>4, <1>6 DEF Carried
<1> QED
  BY <1>7, <1>8, <1>9, <1>10, <1>11 DEF g

\* A key without a subtree becomes number m of node n.
PutKey(h, g, n, m, k) ==
  /\ DOMAIN g = DOMAIN h
  /\ Size(g, n) = Size(h, n) + 1 /\ Ptr(g, n, 0) = Ptr(h, n, 0)
  /\ \A i \in 1 .. Size(h, n) + 1 :
       /\ Key(g, n, i) = IF i < m THEN Key(h, n, i) ELSE IF i = m THEN k ELSE Key(h, n, i - 1)
       /\ Ptr(g, n, i) = IF i < m THEN Ptr(h, n, i) ELSE IF i = m THEN NULL ELSE Ptr(h, n, i - 1)
  /\ \A o \in DOMAIN h \ {n} : SameNode(h, g, o)

\* It has the arrays vs.
Equipped(h, g, n, m, vs) ==
  /\ \A i \in 1 .. Size(h, n) + 1 :
       Arrays(g, n, i) = IF i < m THEN Arrays(h, n, i) ELSE IF i = m THEN vs ELSE Arrays(h, n, i - 1)
  /\ \A o \in DOMAIN h \ {n} : \A i \in 1 .. Size(h, o) : Arrays(g, o, i) = Arrays(h, o, i)

LEMMA PutMeant ==
  ASSUME NEW h, IsHeap(h), NEW n \in DOMAIN h, NEW m \in 1 .. Size(h, n) + 1,
         NEW e \in BKey, e.left = NULL,
         NEW g, g = [h EXCEPT ![n].keys = InsertAt(h[n].keys, m, e)]
  PROVE  IsHeap(g) /\ PutKey(h, g, n, m, e.key) /\ Equipped(h, g, n, m, e.values)
<1> DEFINE s == h[n].keys
           w == InsertAt(s, m, e)
<1>1. h[n] \in BNode /\ s \in Seq(BKey) /\ Size(h, n) = Len(s) /\ Len(s) \in Nat /\ m \in 1 .. Len(s) + 1
  BY HeapFacts DEF Size
<1>2. /\ w \in Seq(BKey) /\ Len(w) = Len(s) + 1
      /\ \A i \in 1 .. Len(s) + 1 : w[i] = IF i < m THEN s[i] ELSE IF i = m THEN e ELSE s[i - 1]
  <2> HIDE DEF s
  <2>1. s \in Seq(BKey) /\ m \in 1 .. Len(s) + 1 /\ e \in BKey
    BY <1>1
  <2>2. Inserted(s, m, e, InsertAt(s, m, e))
    BY <2>1, InsertFacts
  <2>3. Inserted(s, m, e, w)
    BY <2>2
  <2> HIDE DEF w
  <2> QED
    BY <2>3 DEF Inserted
<1>3. /\ DOMAIN g = DOMAIN h /\ g[n].keys = w /\ g[n].child = h[n].child /\ g[n] \in BNode
      /\ \A o \in DOMAIN h \ {n} : g[o] = h[o]
  <2>1. g = [h EXCEPT ![n] = [h[n] EXCEPT !.keys = w]]
    OBVIOUS
  <2>2. [h[n] EXCEPT !.keys = w] \in BNode /\ [h[n] EXCEPT !.keys = w].keys = w
        /\ [h[n] EXCEPT !.keys = w].child = h[n].child
    <3> HIDE DEF w
    <3> QED
      BY <1>1, <1>2 DEF BNode
  <2> HIDE DEF w
  <2> QED
    BY <2>1, <2>2
<1> HIDE DEF s, w
<1>4. IsHeap(g)
  <2>1. \A o \in DOMAIN g : g[o] \in BNode
    BY <1>3 DEF IsHeap
  <2>2. g = [o \in DOMAIN g |-> g[o]]
    OBVIOUS
  <2> QED
    BY <2>1, <2>2, <1>3 DEF IsHeap
<1>5. \A i \in 1 .. Len(s) + 1 : /\ i # 0
                                 /\ ~(i < m) /\ i # m => i - 1 \in 1 .. Len(s) /\ i - 1 # 0
  BY <1>1
<1>6. /\ Size(g, n) = Len(s) + 1 /\ Ptr(g, n, 0) = Ptr(h, n, 0)
      /\ \A o \in DOMAIN h \ {n} : SameNode(h, g, o)
  BY <1>2, <1>3 DEF Size, Key, Ptr, SameNode
<1>7. ASSUME NEW i \in 1 .. Len(s) + 1
      PROVE  /\ Key(g, n, i) = IF i < m THEN Key(h, n, i) ELSE IF i = m THEN e.key ELSE Key(h, n, i - 1)
             /\ Ptr(g, n, i) = IF i < m THEN Ptr(h, n, i) ELSE IF i = m THEN NULL ELSE Ptr(h, n, i - 1)
  BY <1>2, <1>3, <1>5 DEF Key, Ptr, s
<1>8. Equipped(h, g, n, m, e.values)
  <2>1. \A i \in 1 .. Len(s) + 1 :
          Arrays(g, n, i) = IF i < m THEN Arrays(h, n, i) ELSE IF i = m THEN e.values ELSE Arrays(h, n, i - 1)
    BY <1>2, <1>3, <1>5 DEF Arrays, s
  <2>2. \A o \in DOMAIN h \ {n} : \A i \in 1 .. Size(h, o) : Arrays(g, o, i) = Arrays(h, o, i)
    BY <1>3 DEF Arrays
  <2> QED
    BY <2>1, <2>2, <1>1 DEF Equipped
<1> QED
  BY <1>1, <1>3, <1>4, <1>6, <1>7, <1>8 DEF PutKey

-----------------------------------------------------------------------------
\* One tree: every pointer leads to a node of its own that is not the root, and the
\* root cannot be closed under pointers without all nodes.

Closes(h, S) == \A n \in S : \A i \in 0 .. Size(h, n) : Ptr(h, n, i) \in S \cup {NULL}

Tree(h, r) ==
  /\ r \in DOMAIN h \cup {NULL} /\ (r = NULL => DOMAIN h = {})
  /\ \A n \in DOMAIN h : \A i \in 0 .. Size(h, n) : Ptr(h, n, i) \in (DOMAIN h \ {r}) \cup {NULL}
  /\ \A n, m \in DOMAIN h : \A i \in 0 .. Size(h, n), j \in 0 .. Size(h, m) :
       Ptr(h, n, i) # NULL /\ Ptr(h, n, i) = Ptr(h, m, j) => n = m /\ i = j
  /\ \A S \in SUBSET DOMAIN h : r \in S /\ Closes(h, S) => S = DOMAIN h

\* Where each pointer was before a key was put, and where it is then.
PutFrom(n, m, o, i) == IF o = n /\ i > m THEN i - 1 ELSE i
PutTo(n, m, o, i)   == IF o = n /\ i >= m THEN i + 1 ELSE i

LEMMA PutPointers ==
  ASSUME NEW h, IsHeap(h), NEW g, NEW n \in DOMAIN h, NEW m \in 1 .. Size(h, n) + 1, NEW k,
         PutKey(h, g, n, m, k), NEW o \in DOMAIN h
  PROVE  /\ \A i \in 0 .. Size(g, o) :
              \/ o = n /\ i = m /\ Ptr(g, o, i) = NULL
              \/ /\ ~(o = n /\ i = m)
                 /\ PutFrom(n, m, o, i) \in 0 .. Size(h, o)
                 /\ Ptr(g, o, i) = Ptr(h, o, PutFrom(n, m, o, i))
         /\ \A i \in 0 .. Size(h, o) : /\ PutTo(n, m, o, i) \in 0 .. Size(g, o)
                                       /\ Ptr(g, o, PutTo(n, m, o, i)) = Ptr(h, o, i)
<1>1. Size(h, o) \in Nat /\ Size(h, n) \in Nat /\ m \in Nat
  BY HeapFacts
<1>2. CASE o # n
  <2>1. SameNode(h, g, o)
    BY <1>2 DEF PutKey
  <2> QED
    BY <2>1, <1>1, <1>2 DEF SameNode, PutFrom, PutTo
<1>3. CASE o = n
  <2> DEFINE s == Size(h, n)
             A(i) == Ptr(h, n, i)
             Z(i) == Ptr(g, n, i)
  <2>1. /\ Size(g, n) = s + 1 /\ Z(0) = A(0)
        /\ \A i \in 1 .. s + 1 : Z(i) = IF i < m THEN A(i) ELSE IF i = m THEN NULL ELSE A(i - 1)
    BY DEF PutKey
  <2>2. s \in Nat /\ m \in 1 .. s + 1
    BY <1>1
  <2> SUFFICES /\ \A i \in 0 .. s + 1 :
                    \/ i = m /\ Z(i) = NULL
                    \/ /\ i # m
                       /\ PutFrom(n, m, n, i) \in 0 .. s
                       /\ Z(i) = A(PutFrom(n, m, n, i))
               /\ \A i \in 0 .. s : /\ PutTo(n, m, n, i) \in 0 .. s + 1
                                    /\ Z(PutTo(n, m, n, i)) = A(i)
    BY <1>3, <2>1
  <2> HIDE DEF s, A, Z
  <2>3. ASSUME NEW i \in 0 .. s + 1, i # m
        PROVE  PutFrom(n, m, n, i) \in 0 .. s /\ Z(i) = A(PutFrom(n, m, n, i))
    <3>1. CASE i = 0
      BY <3>1, <2>1, <2>2 DEF PutFrom
    <3>2. CASE i # 0
      BY <3>2, <2>1, <2>2, <2>3 DEF PutFrom
    <3> QED
      BY <3>1, <3>2
  <2>4. Z(m) = NULL
    BY <2>1, <2>2
  <2>5. ASSUME NEW i \in 0 .. s
        PROVE  PutTo(n, m, n, i) \in 0 .. s + 1 /\ Z(PutTo(n, m, n, i)) = A(i)
    <3>1. CASE i = 0
      BY <3>1, <2>1, <2>2 DEF PutTo
    <3>2. CASE i # 0 /\ i < m
      BY <3>2, <2>1, <2>2 DEF PutTo
    <3>3. CASE i >= m
      <4>1. i + 1 \in 1 .. s + 1 /\ ~(i + 1 < m) /\ i + 1 # m /\ (i + 1) - 1 = i
        BY <3>3, <2>2
      <4> QED
        BY <4>1, <3>3, <2>1 DEF PutTo
    <3> QED
      BY <3>1, <3>2, <3>3, <2>2
  <2> QED
    BY <2>3, <2>4, <2>5
<1> QED
  BY <1>2, <1>3

LEMMA PutTree ==
  ASSUME NEW h, IsHeap(h), NEW g, NEW r, NEW n \in DOMAIN h, NEW m \in 1 .. Size(h, n) + 1, NEW k,
         PutKey(h, g, n, m, k), Tree(h, r)
  PROVE  Tree(g, r)
<1>1. DOMAIN g = DOMAIN h /\ m \in Nat
  <2>1. Size(h, n) \in Nat
    BY HeapFacts
  <2> QED
    BY <2>1 DEF PutKey
<1>2. ASSUME NEW o \in DOMAIN h, NEW i \in 0 .. Size(g, o)
      PROVE  Ptr(g, o, i) \in (DOMAIN h \ {r}) \cup {NULL}
  <2>1. Ptr(g, o, i) = NULL \/ \E a \in 0 .. Size(h, o) : Ptr(g, o, i) = Ptr(h, o, a)
    BY PutPointers
  <2> QED
    BY <2>1 DEF Tree
<1>3. ASSUME NEW o \in DOMAIN h, NEW i \in 0 .. Size(g, o), NEW q \in DOMAIN h, NEW j \in 0 .. Size(g, q),
             Ptr(g, o, i) # NULL, Ptr(g, o, i) = Ptr(g, q, j)
      PROVE  o = q /\ i = j
  <2>1. /\ PutFrom(n, m, o, i) \in 0 .. Size(h, o) /\ Ptr(g, o, i) = Ptr(h, o, PutFrom(n, m, o, i))
        /\ PutFrom(n, m, q, j) \in 0 .. Size(h, q) /\ Ptr(g, q, j) = Ptr(h, q, PutFrom(n, m, q, j))
        /\ ~(o = n /\ i = m) /\ ~(q = n /\ j = m)
    BY <1>3, PutPointers
  <2>2. ASSUME NEW a \in 0 .. Size(h, o), NEW b \in 0 .. Size(h, q),
               Ptr(h, o, a) # NULL, Ptr(h, o, a) = Ptr(h, q, b)
        PROVE  o = q /\ a = b
    BY <2>2 DEF Tree
  <2>3. o = q /\ PutFrom(n, m, o, i) = PutFrom(n, m, q, j)
    BY <2>1, <2>2, <1>3
  <2> QED
    BY <2>1, <2>3, <1>1 DEF PutFrom
<1>4. ASSUME NEW S \in SUBSET DOMAIN h, r \in S, Closes(g, S)
      PROVE  S = DOMAIN h
  <2>1. Closes(h, S)
    <3> SUFFICES ASSUME NEW o \in S, NEW i \in 0 .. Size(h, o) PROVE Ptr(h, o, i) \in S \cup {NULL}
      BY DEF Closes
    <3>1. PutTo(n, m, o, i) \in 0 .. Size(g, o) /\ Ptr(g, o, PutTo(n, m, o, i)) = Ptr(h, o, i)
      BY PutPointers
    <3> QED
      BY <3>1, <1>4 DEF Closes
  <2> QED
    BY <2>1, <1>4 DEF Tree
<1> QED
  BY <1>1, <1>2, <1>3, <1>4 DEF Tree

\* g is h with the full node c, which hangs before key j of p or behind its last key, split.
SplitOf(h, g, p, j, c, new) ==
  /\ IsHeap(h) /\ p \in DOMAIN h /\ c \in DOMAIN h /\ p # c
  /\ new \in BAddress \ DOMAIN h
  /\ Size(h, c) = Full /\ j \in 1 .. Size(h, p) + 1
  /\ Ptr(h, p, IF j = Size(h, p) + 1 THEN 0 ELSE j) = c
  /\ Halved(h, g, c, new) /\ Gained(h, g, p, j, Key(h, c, MinFactor), c, new)
  /\ \A n \in DOMAIN h \ {p, c} : SameNode(h, g, n)

\* The node and the number of the pointer that a pointer of the result was, but for the
\* one to the new node, which is number FreshAt of p.
SplitNode(c, new, o) == IF o = new THEN c ELSE o
SplitFrom(h, p, j, c, new, o, i) ==
  IF o = new THEN IF i = 0 THEN 0 ELSE MinFactor + i
  ELSE IF o = c THEN IF i = 0 THEN MinFactor ELSE i
  ELSE IF o = p THEN IF i = j THEN IF j = Size(h, p) + 1 THEN 0 ELSE j
                     ELSE IF i > j THEN i - 1 ELSE i
  ELSE i
FreshAt(h, p, j) == IF j = Size(h, p) + 1 THEN 0 ELSE j + 1

LEMMA SplitSizes ==
  ASSUME NEW h, NEW g, NEW p, NEW j, NEW c, NEW new, SplitOf(h, g, p, j, c, new)
  PROVE  /\ DOMAIN g = DOMAIN h \cup {new} /\ new # p /\ new # c /\ p # c /\ new # NULL
         /\ Size(g, c) = MinFactor - 1 /\ Size(g, new) = MinFactor - 1 /\ Size(h, c) = Full
         /\ Size(h, p) \in Nat /\ Size(g, p) = Size(h, p) + 1 /\ j \in 1 .. Size(h, p) + 1
         /\ \A n \in DOMAIN h \ {p, c} : Size(g, n) = Size(h, n) /\ Size(h, n) \in Nat
BY HeapFacts, BKeysAssumption DEF SplitOf, Halved, Gained, SameNode

LEMMA SplitPointers ==
  ASSUME NEW h, NEW g, NEW p, NEW j, NEW c, NEW new, SplitOf(h, g, p, j, c, new),
         NEW o \in DOMAIN g, NEW i \in 0 .. Size(g, o)
  PROVE  \/ o = p /\ i = FreshAt(h, p, j) /\ Ptr(g, o, i) = new
         \/ /\ ~(o = p /\ i = FreshAt(h, p, j))
            /\ SplitNode(c, new, o) \in DOMAIN h
            /\ SplitFrom(h, p, j, c, new, o, i) \in 0 .. Size(h, SplitNode(c, new, o))
            /\ Ptr(g, o, i) = Ptr(h, SplitNode(c, new, o), SplitFrom(h, p, j, c, new, o, i))
<1>1. /\ DOMAIN g = DOMAIN h \cup {new} /\ new # p /\ new # c /\ p # c /\ new # NULL
      /\ Size(g, c) = MinFactor - 1 /\ Size(g, new) = MinFactor - 1 /\ Size(h, c) = Full
      /\ Size(h, p) \in Nat /\ Size(g, p) = Size(h, p) + 1 /\ j \in 1 .. Size(h, p) + 1
      /\ \A n \in DOMAIN h \ {p, c} : Size(g, n) = Size(h, n) /\ Size(h, n) \in Nat
  BY SplitSizes
<1>2. p \in DOMAIN h /\ c \in DOMAIN h /\ new \notin DOMAIN h
  BY DEF SplitOf
<1>3. MinFactor \in Nat /\ MinFactor >= 2 /\ Full = 2 * MinFactor - 1
  BY Factors
<1>4. CASE o = new
  <2>1. i \in 0 .. MinFactor - 1 /\ o # p /\ SplitNode(c, new, o) = c
    BY <1>1, <1>4 DEF SplitNode
  <2>2. /\ Ptr(g, new, 0) = Ptr(h, c, 0)
        /\ \A x \in 1 .. MinFactor - 1 : Ptr(g, new, x) = Ptr(h, c, MinFactor + x)
    BY DEF SplitOf, Halved
  <2>3. CASE i = 0
    BY <2>1, <2>2, <2>3, <1>1, <1>2, <1>3, <1>4 DEF SplitFrom
  <2>4. CASE i # 0
    <3>1. i \in 1 .. MinFactor - 1 /\ MinFactor + i \in 0 .. Full
      BY <2>1, <2>4, <1>3
    <3>2. SplitFrom(h, p, j, c, new, o, i) = MinFactor + i
      BY <2>4, <1>4 DEF SplitFrom
    <3> QED
      BY <3>1, <3>2, <2>1, <2>2, <1>1, <1>2, <1>4
  <2> QED
    BY <2>3, <2>4
<1>5. CASE o = c
  <2>1. i \in 0 .. MinFactor - 1 /\ o # p /\ SplitNode(c, new, o) = c
    BY <1>1, <1>5 DEF SplitNode
  <2>2. /\ Ptr(g, c, 0) = Ptr(h, c, MinFactor)
        /\ \A x \in 1 .. MinFactor - 1 : Ptr(g, c, x) = Ptr(h, c, x)
    BY DEF SplitOf, Halved
  <2>3. SplitFrom(h, p, j, c, new, o, i) = IF i = 0 THEN MinFactor ELSE i
    BY <1>1, <1>5 DEF SplitFrom
  <2>4. MinFactor \in 0 .. Full /\ i \in 0 .. Full
    BY <2>1, <1>3
  <2> QED
    BY <2>1, <2>2, <2>3, <2>4, <1>1, <1>2, <1>5
<1>6. CASE o = p
  <2> DEFINE s == Size(h, p)
             f == SplitFrom(h, p, j, c, new, o, i)
  <2>1. i \in 0 .. s + 1 /\ j \in 1 .. s + 1 /\ s \in Nat /\ SplitNode(c, new, o) = p
    BY <1>1, <1>6 DEF SplitNode
  <2>2. /\ Ptr(g, p, 0) = IF j = s + 1 THEN new ELSE Ptr(h, p, 0)
        /\ \A x \in 1 .. s + 1 :
             Ptr(g, p, x) = IF x < j THEN Ptr(h, p, x) ELSE IF x = j THEN c
                            ELSE IF x = j + 1 THEN new ELSE Ptr(h, p, x - 1)
    BY DEF SplitOf, Gained
  <2>3. f = IF i = j THEN IF j = s + 1 THEN 0 ELSE j
            ELSE IF i > j THEN i - 1 ELSE i
    BY <1>1, <1>6 DEF SplitFrom
  <2>4. Ptr(h, p, IF j = s + 1 THEN 0 ELSE j) = c
    BY DEF SplitOf
  <2> HIDE DEF s, f
  <2>5. FreshAt(h, p, j) = IF j = s + 1 THEN 0 ELSE j + 1
    BY DEF FreshAt, s
  <2>6. CASE i = FreshAt(h, p, j)
    <3>1. Ptr(g, p, i) = new
      <4>1. CASE j = s + 1
        BY <4>1, <2>2, <2>5, <2>6
      <4>2. CASE j # s + 1
        <5>1. i = j + 1 /\ i \in 1 .. s + 1 /\ ~(i < j) /\ i # j
          BY <4>2, <2>1, <2>5, <2>6
        <5> QED
          BY <5>1, <2>2
      <4> QED
        BY <4>1, <4>2
    <3> QED
      BY <3>1, <2>6, <1>6
  <2>7. CASE i # FreshAt(h, p, j)
    <3>1. f \in 0 .. s /\ Ptr(g, p, i) = Ptr(h, p, f)
      <4>1. CASE i = j
        <5>1. f = IF j = s + 1 THEN 0 ELSE j
          BY <4>1, <2>3
        <5>2. f \in 0 .. s
          BY <5>1, <2>1
        <5>3. Ptr(g, p, j) = c
          BY <2>1, <2>2
        <5> QED
          BY <5>1, <5>2, <5>3, <4>1, <2>4
      <4>2. CASE i < j
        <5>1. f = i /\ i \in 0 .. s
          BY <4>2, <2>1, <2>3
        <5>2. CASE i = 0
          BY <5>1, <5>2, <2>2, <2>5, <2>7
        <5>3. CASE i # 0
          BY <5>1, <5>3, <4>2, <2>1, <2>2
        <5> QED
          BY <5>2, <5>3
      <4>3. CASE i > j
        <5>1. f = i - 1 /\ i - 1 \in 0 .. s /\ ~(i < j) /\ i # j /\ i \in 1 .. s + 1 /\ j # s + 1
          BY <4>3, <2>1, <2>3
        <5>2. i # j + 1
          BY <5>1, <2>5, <2>7
        <5> QED
          BY <5>1, <5>2, <2>2
      <4> QED
        BY <4>1, <4>2, <4>3, <2>1
    <3> QED
      BY <3>1, <2>1, <2>7, <1>2, <1>6 DEF f, s
  <2> QED
    BY <2>6, <2>7
<1>7. CASE o \notin {new, c, p}
  <2>1. o \in DOMAIN h \ {p, c} /\ SplitNode(c, new, o) = o /\ SplitFrom(h, p, j, c, new, o, i) = i
    BY <1>1, <1>7 DEF SplitNode, SplitFrom
  <2>2. SameNode(h, g, o)
    BY <2>1 DEF SplitOf
  <2> QED
    BY <2>1, <2>2 DEF SameNode
<1> QED
  BY <1>4, <1>5, <1>6, <1>7

LEMMA SplitOnce ==
  ASSUME NEW h, NEW g, NEW p, NEW j, NEW c, NEW new, SplitOf(h, g, p, j, c, new),
         NEW o \in DOMAIN g, NEW i \in 0 .. Size(g, o), NEW q \in DOMAIN g, NEW x \in 0 .. Size(g, q),
         ~(o = p /\ i = FreshAt(h, p, j)), ~(q = p /\ x = FreshAt(h, p, j)),
         SplitNode(c, new, o) = SplitNode(c, new, q),
         SplitFrom(h, p, j, c, new, o, i) = SplitFrom(h, p, j, c, new, q, x)
  PROVE  o = q /\ i = x
<1>1. /\ DOMAIN g = DOMAIN h \cup {new} /\ new # p /\ new # c /\ p # c /\ new # NULL
      /\ Size(g, c) = MinFactor - 1 /\ Size(g, new) = MinFactor - 1 /\ Size(h, c) = Full
      /\ Size(h, p) \in Nat /\ Size(g, p) = Size(h, p) + 1 /\ j \in 1 .. Size(h, p) + 1
      /\ \A y \in DOMAIN h \ {p, c} : Size(g, y) = Size(h, y) /\ Size(h, y) \in Nat
  BY SplitSizes
<1>2. c \in DOMAIN h /\ new \notin DOMAIN h /\ MinFactor \in Nat /\ MinFactor >= 2
  BY Factors DEF SplitOf
<1>3. CASE o = p
  <2>1. q = p
    BY <1>1, <1>2, <1>3 DEF SplitNode
  <2> DEFINE s == Size(h, p)
  <2>2. i \in 0 .. s + 1 /\ x \in 0 .. s + 1 /\ s \in Nat /\ j \in 1 .. s + 1
    BY <1>1, <1>3, <2>1
  <2>3. \A y : SplitFrom(h, p, j, c, new, p, y) =
                 IF y = j THEN IF j = s + 1 THEN 0 ELSE j ELSE IF y > j THEN y - 1 ELSE y
    BY <1>1 DEF SplitFrom
  <2>4. i # FreshAt(h, p, j) /\ x # FreshAt(h, p, j)
    BY <1>3, <2>1
  <2>5. FreshAt(h, p, j) = IF j = s + 1 THEN 0 ELSE j + 1
    BY DEF FreshAt
  <2>6. (IF i = j THEN IF j = s + 1 THEN 0 ELSE j ELSE IF i > j THEN i - 1 ELSE i) =
        (IF x = j THEN IF j = s + 1 THEN 0 ELSE j ELSE IF x > j THEN x - 1 ELSE x)
    BY <2>1, <2>3, <1>3
  <2> HIDE DEF s
  <2>7. i = x
    BY <2>2, <2>4, <2>5, <2>6
  <2> QED
    BY <2>1, <2>7, <1>3
<1>4. CASE o \in {c, new}
  <2>1. q \in {c, new}
    BY <1>1, <1>2, <1>4 DEF SplitNode
  <2>2. i \in 0 .. MinFactor - 1 /\ x \in 0 .. MinFactor - 1
    BY <1>1, <1>4, <2>1
  <2>3. \A y : /\ SplitFrom(h, p, j, c, new, c, y) = IF y = 0 THEN MinFactor ELSE y
               /\ SplitFrom(h, p, j, c, new, new, y) = IF y = 0 THEN 0 ELSE MinFactor + y
    BY <1>1 DEF SplitFrom
  <2> QED
    BY <2>1, <2>2, <2>3, <1>1, <1>2, <1>4
<1>5. CASE o \notin {p, c, new}
  <2>1. q = o
    BY <1>1, <1>2, <1>5 DEF SplitNode
  <2> QED
    BY <2>1, <1>5 DEF SplitFrom
<1> QED
  BY <1>3, <1>4, <1>5

\* No pointer is lost.
LEMMA SplitKeeps ==
  ASSUME NEW h, NEW g, NEW p, NEW j, NEW c, NEW new, SplitOf(h, g, p, j, c, new),
         NEW n \in DOMAIN h, NEW i \in 0 .. Size(h, n)
  PROVE  \/ \E y \in 0 .. Size(g, n) : Ptr(g, n, y) = Ptr(h, n, i)
         \/ n = c /\ \E y \in 0 .. Size(g, new) : Ptr(g, new, y) = Ptr(h, n, i)
<1>1. /\ DOMAIN g = DOMAIN h \cup {new} /\ new # p /\ new # c /\ p # c /\ new # NULL
      /\ Size(g, c) = MinFactor - 1 /\ Size(g, new) = MinFactor - 1 /\ Size(h, c) = Full
      /\ Size(h, p) \in Nat /\ Size(g, p) = Size(h, p) + 1 /\ j \in 1 .. Size(h, p) + 1
      /\ \A y \in DOMAIN h \ {p, c} : Size(g, y) = Size(h, y) /\ Size(h, y) \in Nat
  BY SplitSizes
<1>2. MinFactor \in Nat /\ MinFactor >= 2 /\ Full = 2 * MinFactor - 1
  BY Factors
<1>3. CASE n = c
  <2>1. /\ Ptr(g, c, 0) = Ptr(h, c, MinFactor) /\ Ptr(g, new, 0) = Ptr(h, c, 0)
        /\ \A y \in 1 .. MinFactor - 1 : /\ Ptr(g, c, y) = Ptr(h, c, y)
                                         /\ Ptr(g, new, y) = Ptr(h, c, MinFactor + y)
    BY DEF SplitOf, Halved
  <2>2. CASE i = 0 \/ i = MinFactor
    <3>1. 0 \in 0 .. MinFactor - 1
      BY <1>2
    <3> QED
      BY <3>1, <2>1, <2>2, <1>1, <1>3
  <2>3. CASE i \in 1 .. MinFactor - 1
    BY <2>1, <2>3, <1>1, <1>2, <1>3
  <2>4. CASE i > MinFactor
    <3>1. i - MinFactor \in 1 .. MinFactor - 1 /\ MinFactor + (i - MinFactor) = i
      BY <2>4, <1>1, <1>2, <1>3
    <3>2. i - MinFactor \in 0 .. Size(g, new) /\ Ptr(g, new, i - MinFactor) = Ptr(h, c, i)
      BY <3>1, <2>1, <1>1, <1>2
    <3> QED
      BY <3>2, <1>3
  <2> QED
    BY <2>2, <2>3, <2>4, <1>1, <1>2, <1>3
<1>4. CASE n = p
  <2> DEFINE s == Size(h, p)
  <2>1. /\ Ptr(g, p, 0) = IF j = s + 1 THEN new ELSE Ptr(h, p, 0)
        /\ \A x \in 1 .. s + 1 :
             Ptr(g, p, x) = IF x < j THEN Ptr(h, p, x) ELSE IF x = j THEN c
                            ELSE IF x = j + 1 THEN new ELSE Ptr(h, p, x - 1)
        /\ Ptr(h, p, IF j = s + 1 THEN 0 ELSE j) = c
    BY DEF SplitOf, Gained
  <2>2. i \in 0 .. s /\ s \in Nat /\ j \in 1 .. s + 1 /\ Size(g, p) = s + 1
    BY <1>1, <1>4
  <2> SUFFICES \E y \in 0 .. s + 1 : Ptr(g, p, y) = Ptr(h, p, i)
    BY <1>4, <2>2
  <2> HIDE DEF s
  <2>3. CASE i = IF j = s + 1 THEN 0 ELSE j
    <3>1. Ptr(g, p, j) = c /\ j \in 0 .. s + 1
      BY <2>1, <2>2
    <3> QED
      BY <3>1, <2>1, <2>3
  <2>4. CASE i # (IF j = s + 1 THEN 0 ELSE j) /\ i < j
    <3>1. Ptr(g, p, i) = Ptr(h, p, i) /\ i \in 0 .. s + 1
      <4>1. CASE i = 0
        BY <4>1, <2>1, <2>2, <2>4
      <4>2. CASE i # 0
        BY <4>2, <2>1, <2>2, <2>4
      <4> QED
        BY <4>1, <4>2
    <3> QED
      BY <3>1
  <2>5. CASE i # (IF j = s + 1 THEN 0 ELSE j) /\ ~(i < j)
    <3>1. i > j /\ i + 1 \in 1 .. s + 1 /\ ~(i + 1 < j) /\ i + 1 # j /\ i + 1 # j + 1 /\ (i + 1) - 1 = i
      BY <2>2, <2>5
    <3>2. Ptr(g, p, i + 1) = Ptr(h, p, i) /\ i + 1 \in 0 .. s + 1
      BY <3>1, <2>1, <2>2
    <3> QED
      BY <3>2
  <2> QED
    BY <2>3, <2>4, <2>5
<1>5. CASE n \notin {p, c}
  <2>1. SameNode(h, g, n)
    BY <1>5 DEF SplitOf
  <2> QED
    BY <2>1 DEF SameNode
<1> QED
  BY <1>3, <1>4, <1>5

LEMMA SplitFresh ==
  ASSUME NEW h, NEW g, NEW p, NEW j, NEW c, NEW new, SplitOf(h, g, p, j, c, new)
  PROVE  /\ FreshAt(h, p, j) \in 0 .. Size(g, p) /\ Ptr(g, p, FreshAt(h, p, j)) = new
         /\ (IF j = Size(h, p) + 1 THEN 0 ELSE j) \in 0 .. Size(h, p)
<1> DEFINE s == Size(h, p)
<1>1. s \in Nat /\ Size(g, p) = s + 1 /\ j \in 1 .. s + 1
  BY SplitSizes
<1>2. /\ Ptr(g, p, 0) = IF j = s + 1 THEN new ELSE Ptr(h, p, 0)
      /\ \A x \in 1 .. s + 1 :
           Ptr(g, p, x) = IF x < j THEN Ptr(h, p, x) ELSE IF x = j THEN c
                          ELSE IF x = j + 1 THEN new ELSE Ptr(h, p, x - 1)
  BY DEF SplitOf, Gained
<1>3. FreshAt(h, p, j) = IF j = s + 1 THEN 0 ELSE j + 1
  BY DEF FreshAt
<1> SUFFICES /\ FreshAt(h, p, j) \in 0 .. s + 1 /\ Ptr(g, p, FreshAt(h, p, j)) = new
             /\ (IF j = s + 1 THEN 0 ELSE j) \in 0 .. s
  BY <1>1
<1> HIDE DEF s
<1>4. CASE j = s + 1
  BY <1>1, <1>2, <1>3, <1>4
<1>5. CASE j # s + 1
  <2>1. j + 1 \in 1 .. s + 1 /\ ~(j + 1 < j) /\ j + 1 # j /\ j \in 0 .. s
    BY <1>1, <1>5
  <2> QED
    BY <2>1, <1>2, <1>3, <1>5
<1> QED
  BY <1>4, <1>5

LEMMA SplitTree ==
  ASSUME NEW h, NEW g, NEW p, NEW j, NEW c, NEW new, SplitOf(h, g, p, j, c, new),
         NEW r, Tree(h, r)
  PROVE  Tree(g, r)
<1>1. /\ DOMAIN g = DOMAIN h \cup {new} /\ new # NULL /\ p # c
      /\ p \in DOMAIN h /\ c \in DOMAIN h /\ new \notin DOMAIN h /\ NULL \notin DOMAIN h
  <2>1. IsHeap(h) /\ p \in DOMAIN h /\ c \in DOMAIN h /\ new \notin DOMAIN h /\ p # c
    BY DEF SplitOf
  <2>2. /\ DOMAIN g = DOMAIN h \cup {new} /\ new # p /\ new # c /\ p # c /\ new # NULL
        /\ Size(g, c) = MinFactor - 1 /\ Size(g, new) = MinFactor - 1 /\ Size(h, c) = Full
        /\ Size(h, p) \in Nat /\ Size(g, p) = Size(h, p) + 1 /\ j \in 1 .. Size(h, p) + 1
        /\ \A n \in DOMAIN h \ {p, c} : Size(g, n) = Size(h, n) /\ Size(h, n) \in Nat
    BY SplitSizes
  <2>3. NULL \notin DOMAIN h
    BY <2>1, BKeysAssumption DEF IsHeap
  <2> QED
    BY <2>1, <2>2, <2>3
<1>2. r \in DOMAIN h /\ r # NULL /\ r # new
  BY <1>1 DEF Tree
<1> DEFINE Old(o, i) == \E a \in DOMAIN h : \E b \in 0 .. Size(h, a) : Ptr(g, o, i) = Ptr(h, a, b)
<1>3. ASSUME NEW o \in DOMAIN g, NEW i \in 0 .. Size(g, o)
      PROVE  Ptr(g, o, i) = new \/ Old(o, i)
  BY SplitPointers
<1>4. \A a \in DOMAIN h : \A b \in 0 .. Size(h, a) : Ptr(h, a, b) \in (DOMAIN h \ {r}) \cup {NULL}
  BY DEF Tree
<1>5. ASSUME NEW o \in DOMAIN g, NEW i \in 0 .. Size(g, o)
      PROVE  Ptr(g, o, i) \in (DOMAIN g \ {r}) \cup {NULL}
  BY <1>1, <1>2, <1>3, <1>4
<1>6. ASSUME NEW o \in DOMAIN g, NEW i \in 0 .. Size(g, o), NEW q \in DOMAIN g, NEW x \in 0 .. Size(g, q),
             Ptr(g, o, i) # NULL, Ptr(g, o, i) = Ptr(g, q, x)
      PROVE  o = q /\ i = x
  <2> DEFINE F(a, b) == a = p /\ b = FreshAt(h, p, j)
             N(a)    == SplitNode(c, new, a)
             I(a, b) == SplitFrom(h, p, j, c, new, a, b)
  <2>1. ASSUME NEW a \in DOMAIN g, NEW b \in 0 .. Size(g, a)
        PROVE  \/ F(a, b) /\ Ptr(g, a, b) = new
               \/ /\ ~F(a, b) /\ N(a) \in DOMAIN h /\ I(a, b) \in 0 .. Size(h, N(a))
                  /\ Ptr(g, a, b) = Ptr(h, N(a), I(a, b)) /\ Ptr(g, a, b) # new
    <3>1. \/ F(a, b) /\ Ptr(g, a, b) = new
          \/ /\ ~F(a, b) /\ N(a) \in DOMAIN h /\ I(a, b) \in 0 .. Size(h, N(a))
             /\ Ptr(g, a, b) = Ptr(h, N(a), I(a, b))
      BY SplitPointers
    <3> HIDE DEF F, N, I
    <3> QED
      BY <3>1, <1>1, <1>4
  <2>2. ASSUME NEW a \in DOMAIN h, NEW b \in DOMAIN h, NEW y \in 0 .. Size(h, a), NEW z \in 0 .. Size(h, b),
               Ptr(h, a, y) # NULL, Ptr(h, a, y) = Ptr(h, b, z)
        PROVE  a = b /\ y = z
    BY <2>2 DEF Tree
  <2>3. CASE F(o, i)
    <3>1. F(q, x)
      <4> HIDE DEF F, N, I
      <4> QED
        BY <2>1, <2>3, <1>6
    <3> QED
      BY <3>1, <2>3
  <2>4. CASE ~F(o, i)
    <3>1. /\ ~F(q, x) /\ N(o) = N(q) /\ I(o, i) = I(q, x)
      <4> HIDE DEF F, N, I
      <4>1. ~F(q, x)
        BY <2>1, <2>4, <1>6
      <4> QED
        BY <4>1, <2>1, <2>2, <2>4, <1>6
    <3> QED
      BY <3>1, <2>4, SplitOnce
  <2> QED
    BY <2>3, <2>4
<1>7. ASSUME NEW S \in SUBSET DOMAIN g, r \in S, Closes(g, S)
      PROVE  S = DOMAIN g
  <2>1. \A T \in SUBSET DOMAIN h : r \in T /\ Closes(h, T) => T = DOMAIN h
    BY DEF Tree
  <2>2. ASSUME NEW n \in S \ {new}, NEW i \in 0 .. Size(h, n), n = c => new \in S
        PROVE  Ptr(h, n, i) \in S \cup {NULL}
    <3>1. n \in DOMAIN h
      BY <1>1
    <3>2. CASE \E y \in 0 .. Size(g, n) : Ptr(g, n, y) = Ptr(h, n, i)
      BY <3>2, <1>7 DEF Closes
    <3>3. CASE n = c /\ \E y \in 0 .. Size(g, new) : Ptr(g, new, y) = Ptr(h, n, i)
      BY <3>3, <2>2, <1>7 DEF Closes
    <3> QED
      BY <3>1, <3>2, <3>3, SplitKeeps
  <2>3. CASE new \in S
    <3>1. \A n \in S \ {new} : \A i \in 0 .. Size(h, n) : Ptr(h, n, i) \in (S \ {new}) \cup {NULL}
      BY <2>2, <2>3, <1>1, <1>4
    <3>2. Closes(h, S \ {new})
      BY <3>1 DEF Closes
    <3>3. S \ {new} \in SUBSET DOMAIN h /\ r \in S \ {new}
      BY <1>1, <1>2, <1>7
    <3>4. S \ {new} = DOMAIN h
      BY <3>2, <3>3, <2>1
    <3> QED
      BY <3>4, <2>3, <1>1
  <2>4. CASE new \notin S
    <3> DEFINE k == IF j = Size(h, p) + 1 THEN 0 ELSE j
    <3>1. p \notin S
      BY <1>1, <1>7, <2>4, SplitFresh DEF Closes
    <3>2. k \in 0 .. Size(h, p) /\ Ptr(h, p, k) = c
      BY SplitFresh DEF SplitOf
    <3> HIDE DEF k
    <3>3. c # r /\ c # NULL
      BY <3>2, <1>1, <1>4
    <3>4. ASSUME NEW n \in S \ {c}, NEW i \in 0 .. Size(h, n)
          PROVE  Ptr(h, n, i) \in (S \ {c}) \cup {NULL}
      <4>1. n \in DOMAIN h /\ n # p /\ n \in S \ {new}
        BY <3>1, <2>4, <1>1
      <4>2. Ptr(h, n, i) \in S \cup {NULL}
        BY <4>1, <2>2
      <4>3. Ptr(h, n, i) # c
        BY <4>1, <3>2, <3>3, <1>1 DEF Tree
      <4> QED
        BY <4>2, <4>3
    <3>5. Closes(h, S \ {c})
      BY <3>4 DEF Closes
    <3>6. S \ {c} \in SUBSET DOMAIN h /\ r \in S \ {c}
      BY <3>3, <2>4, <1>1, <1>7
    <3>7. S \ {c} = DOMAIN h
      BY <3>5, <3>6, <2>1
    <3> QED
      BY <3>1, <3>7, <1>1
  <2> QED
    BY <2>3, <2>4
<1> QED
  BY <1>1, <1>2, <1>5, <1>6, <1>7 DEF Tree

-----------------------------------------------------------------------------
\* The keys of a node ascend, and there are not too many.

InOrder(h, n) == \A i, j \in 1 .. Size(h, n) : i < j => Key(h, n, i) < Key(h, n, j)

Shaped(h) == \A n \in DOMAIN h : Size(h, n) \in 1 .. Full /\ InOrder(h, n)

\* A node hangs before a key that all its keys are below, but for the last one if nothing
\* hangs before that: it may have been appended to a node that it was led to wrongly.
Bounded(h) ==
  \A n, c \in DOMAIN h : \A j \in 1 .. Size(h, n) : Ptr(h, n, j) = c =>
    \A x \in 1 .. Size(h, c) : x < Size(h, c) \/ Ptr(h, c, x) # NULL => Key(h, c, x) < Key(h, n, j)

\* f gives each node the keys that can be led to it: all keys to the root, and to a node
\* before a key those that are above the key before.
Span(h, f, n, j) == {x \in f[n] : j > 1 => x > Key(h, n, j - 1)}

Spanned(h, r, f) ==
  /\ f \in [DOMAIN h -> SUBSET BKeys]
  /\ r # NULL => f[r] = BKeys
  /\ \A n \in DOMAIN h : \A i \in 1 .. Size(h, n) : Key(h, n, i) \in f[n]
  /\ \A n, c \in DOMAIN h : \A j \in 1 .. Size(h, n) : Ptr(h, n, j) = c => f[c] = Span(h, f, n, j)

\* k belongs before key m of node n.
PlaceOf(h, n, m, k) == /\ m \in 1 .. Size(h, n) + 1
                       /\ \A i \in 1 .. Size(h, n) : /\ i < m => Key(h, n, i) < k
                                                     /\ i >= m => k < Key(h, n, i)

LEMMA InsertInOrder ==
  ASSUME NEW h, IsHeap(h), NEW g, NEW n \in DOMAIN h, NEW m, NEW k \in BKeys,
         PlaceOf(h, n, m, k), InOrder(h, n), Size(g, n) = Size(h, n) + 1,
         \A i \in 1 .. Size(h, n) + 1 :
           Key(g, n, i) = IF i < m THEN Key(h, n, i) ELSE IF i = m THEN k ELSE Key(h, n, i - 1)
  PROVE  InOrder(g, n)
<1> DEFINE s == Size(h, n)
           A(i) == Key(h, n, i)
           Z(i) == Key(g, n, i)
<1>1. Size(g, n) = s + 1 /\ \A i \in 1 .. s + 1 : Z(i) = IF i < m THEN A(i) ELSE IF i = m THEN k ELSE A(i - 1)
  OBVIOUS
<1>2. s \in Nat
  BY HeapFacts
<1>3. m \in 1 .. s + 1 /\ \A i \in 1 .. s : (i < m => A(i) < k) /\ (i >= m => k < A(i))
  BY DEF PlaceOf
<1>4. \A i, j \in 1 .. s : i < j => A(i) < A(j)
  BY DEF InOrder
<1>5. k \in Int /\ \A i \in 1 .. s : A(i) \in Int
  BY HeapFacts, BKeysAssumption
<1> SUFFICES ASSUME NEW i \in 1 .. s + 1, NEW j \in 1 .. s + 1, i < j
             PROVE  Z(i) < Z(j)
  BY <1>1 DEF InOrder
<1> HIDE DEF s, A, Z
<1>6. CASE j < m
  BY <1>6, <1>1, <1>2, <1>3, <1>4
<1>7. CASE j = m
  BY <1>7, <1>1, <1>2, <1>3
<1>8. CASE j > m
  <2>1. j - 1 \in 1 .. s /\ Z(j) = A(j - 1) /\ j - 1 >= m
    BY <1>8, <1>1, <1>2, <1>3
  <2>2. CASE i < m
    <3>1. Z(i) = A(i) /\ i \in 1 .. s /\ i < j - 1
      BY <2>1, <2>2, <1>1, <1>2, <1>3
    <3> QED
      BY <3>1, <2>1, <1>4
  <2>3. CASE i = m
    BY <2>1, <2>3, <1>1, <1>3
  <2>4. CASE i > m
    <3>1. Z(i) = A(i - 1) /\ i - 1 \in 1 .. s /\ i - 1 < j - 1
      BY <2>4, <1>1, <1>2, <1>3
    <3> QED
      BY <3>1, <2>1, <1>4
  <2> QED
    BY <2>2, <2>3, <2>4, <1>2, <1>3
<1> QED
  BY <1>6, <1>7, <1>8, <1>2, <1>3

LEMMA PutShaped ==
  ASSUME NEW h, IsHeap(h), NEW g, NEW n \in DOMAIN h, NEW m, NEW k \in BKeys, PlaceOf(h, n, m, k),
         PutKey(h, g, n, m, k), Shaped(h), Size(h, n) # Full
  PROVE  Shaped(g)
<1>1. DOMAIN g = DOMAIN h
  BY DEF PutKey
<1>2. ASSUME NEW o \in DOMAIN h, o # n
      PROVE  Size(g, o) \in 1 .. Full /\ InOrder(g, o)
  <2>1. SameNode(h, g, o)
    BY <1>2 DEF PutKey
  <2> QED
    BY <2>1 DEF Shaped, InOrder, SameNode
<1>3. Size(g, n) \in 1 .. Full
  BY HeapFacts, Factors DEF Shaped, PutKey
<1>4. InOrder(g, n)
  BY InsertInOrder DEF PutKey, Shaped
<1> QED
  BY <1>1, <1>2, <1>3, <1>4 DEF Shaped

LEMMA PutBounded ==
  ASSUME NEW h, IsHeap(h), NEW g, NEW n \in DOMAIN h, NEW m, NEW k \in BKeys, PlaceOf(h, n, m, k),
         m <= Size(h, n) => Ptr(h, n, m) = NULL,
         PutKey(h, g, n, m, k), Bounded(h),
         \A o \in DOMAIN h : \A j \in 1 .. Size(h, o) : Ptr(h, o, j) = n =>
            k < Key(h, o, j) \/ \A x \in 1 .. Size(h, n) : Key(h, n, x) < Key(h, o, j)
  PROVE  Bounded(g)
<1> DEFINE s == Size(h, n)
<1>1. DOMAIN g = DOMAIN h /\ NULL \notin DOMAIN h
  BY BKeysAssumption DEF PutKey, IsHeap
<1>2. s \in Nat /\ m \in 1 .. s + 1
  BY HeapFacts DEF PlaceOf
<1>3. /\ Size(g, n) = s + 1
      /\ \A i \in 1 .. s + 1 :
           /\ Key(g, n, i) = IF i < m THEN Key(h, n, i) ELSE IF i = m THEN k ELSE Key(h, n, i - 1)
           /\ Ptr(g, n, i) = IF i < m THEN Ptr(h, n, i) ELSE IF i = m THEN NULL ELSE Ptr(h, n, i - 1)
  BY DEF PutKey
<1> SUFFICES ASSUME NEW o \in DOMAIN h, NEW c \in DOMAIN h, NEW j \in 1 .. Size(g, o), Ptr(g, o, j) = c,
                    NEW x \in 1 .. Size(g, c), x < Size(g, c) \/ Ptr(g, c, x) # NULL
             PROVE  Key(g, c, x) < Key(g, o, j)
  BY <1>1 DEF Bounded
<1>4. PICK i \in 1 .. Size(h, o) : Ptr(h, o, i) = c /\ Key(h, o, i) = Key(g, o, j)
  <2>1. CASE o # n
    <3>1. SameNode(h, g, o)
      BY <2>1 DEF PutKey
    <3> QED
      BY <3>1 DEF SameNode
  <2>2. CASE o = n
    <3>1. j \in 1 .. s + 1 /\ c # NULL /\ Ptr(g, n, j) = c
      BY <2>2, <1>1, <1>3
    <3> SUFFICES \E i \in 1 .. s : Ptr(h, n, i) = c /\ Key(h, n, i) = Key(g, n, j)
      BY <2>2
    <3> HIDE DEF s
    <3>2. CASE j < m
      <4>1. j \in 1 .. s
        BY <3>1, <3>2, <1>2
      <4> QED
        BY <4>1, <3>1, <3>2, <1>3
    <3>3. CASE j = m
      BY <3>1, <3>3, <1>3
    <3>4. CASE j > m
      <4>1. j - 1 \in 1 .. s /\ Ptr(h, n, j - 1) = c /\ Key(h, n, j - 1) = Key(g, n, j)
        BY <3>1, <3>4, <1>2, <1>3
      <4> QED
        BY <4>1
    <3> QED
      BY <3>2, <3>3, <3>4, <3>1, <1>2
  <2> QED
    BY <2>1, <2>2
<1> DEFINE v == Key(h, o, i)
<1>5. \A y \in 1 .. Size(h, c) : y < Size(h, c) \/ Ptr(h, c, y) # NULL => Key(h, c, y) < v
  BY <1>4 DEF Bounded
<1> SUFFICES Key(g, c, x) < v
  BY <1>4
<1>6. CASE c # n
  <2>1. SameNode(h, g, c)
    BY <1>6 DEF PutKey
  <2>2. /\ x \in 1 .. Size(h, c) /\ Key(g, c, x) = Key(h, c, x)
        /\ x < Size(h, c) \/ Ptr(h, c, x) # NULL
    <3>1. Size(h, c) \in Nat
      BY HeapFacts
    <3> QED
      BY <2>1, <3>1 DEF SameNode
  <2> QED
    BY <2>2, <1>5
<1>7. CASE c = n
  <2>1. v \in Int /\ k \in Int /\ \A y \in 1 .. s : Key(h, n, y) \in Int
    BY HeapFacts, BKeysAssumption
  <2>2. k < v \/ \A y \in 1 .. s : Key(h, n, y) < v
    BY <1>4, <1>7
  <2>3. \A y \in 1 .. s : (y < m => Key(h, n, y) < k) /\ (y >= m => k < Key(h, n, y))
    BY DEF PlaceOf
  <2>4. \A y \in 1 .. s : y < s \/ Ptr(h, n, y) # NULL => Key(h, n, y) < v
    BY <1>5, <1>7
  <2>5. x \in 1 .. s + 1 /\ (x < s + 1 \/ Ptr(g, n, x) # NULL)
    BY <1>3, <1>7
  <2> SUFFICES Key(g, n, x) < v
    BY <1>7
  <2> HIDE DEF s, v
  <2>6. CASE x < m
    <3>1. x \in 1 .. s /\ Key(g, n, x) = Key(h, n, x) /\ Key(h, n, x) < k
      BY <2>3, <2>5, <2>6, <1>2, <1>3
    <3> QED
      BY <3>1, <2>1, <2>2
  <2>7. CASE x = m
    <3>1. Key(g, n, x) = k /\ Ptr(g, n, x) = NULL
      BY <2>5, <2>7, <1>2, <1>3
    <3>2. m \in 1 .. s /\ k < Key(h, n, m)
      BY <3>1, <2>3, <2>5, <2>7, <1>2
    <3> QED
      BY <3>1, <3>2, <2>1, <2>2
  <2>8. CASE x > m
    <3>1. /\ x - 1 \in 1 .. s /\ Key(g, n, x) = Key(h, n, x - 1) /\ Ptr(g, n, x) = Ptr(h, n, x - 1)
      BY <2>5, <2>8, <1>2, <1>3
    <3>2. x - 1 < s \/ Ptr(h, n, x - 1) # NULL
      BY <3>1, <2>5, <1>2
    <3> QED
      BY <3>1, <3>2, <2>4
  <2> QED
    BY <2>5, <2>6, <2>7, <2>8, <1>2
<1> QED
  BY <1>6, <1>7

LEMMA PutSpanned ==
  ASSUME NEW h, IsHeap(h), NEW g, NEW n \in DOMAIN h, NEW m, NEW k \in BKeys, PlaceOf(h, n, m, k),
         m <= Size(h, n) => Ptr(h, n, m) = NULL,
         PutKey(h, g, n, m, k), NEW r, NEW f, Spanned(h, r, f), k \in f[n]
  PROVE  Spanned(g, r, f)
<1>1. DOMAIN g = DOMAIN h /\ NULL \notin DOMAIN h
  BY BKeysAssumption DEF PutKey, IsHeap
<1>2. ASSUME NEW o \in DOMAIN h, o # n, NEW c \in DOMAIN h
      PROVE  /\ \A i \in 1 .. Size(g, o) : Key(g, o, i) \in f[o]
             /\ \A j \in 1 .. Size(g, o) : Ptr(g, o, j) = c => f[c] = Span(g, f, o, j)
  <2>1. SameNode(h, g, o) /\ Size(h, o) \in Nat
    BY <1>2, HeapFacts DEF PutKey
  <2>2. \A i \in 1 .. Size(g, o) : Key(g, o, i) \in f[o]
    BY <2>1 DEF SameNode, Spanned
  <2>3. ASSUME NEW j \in 1 .. Size(g, o), Ptr(g, o, j) = c
        PROVE  f[c] = Span(g, f, o, j)
    <3>1. j \in 1 .. Size(h, o) /\ Ptr(h, o, j) = c
      BY <2>1, <2>3 DEF SameNode
    <3>2. f[c] = Span(h, f, o, j)
      BY <3>1 DEF Spanned
    <3>3. j > 1 => j - 1 \in 1 .. Size(h, o) /\ Key(g, o, j - 1) = Key(h, o, j - 1)
      BY <3>1, <2>1 DEF SameNode
    <3> QED
      BY <3>2, <3>3 DEF Span
  <2> QED
    BY <2>2, <2>3
<1>3. ASSUME NEW c \in DOMAIN h
      PROVE  /\ \A i \in 1 .. Size(g, n) : Key(g, n, i) \in f[n]
             /\ \A j \in 1 .. Size(g, n) : Ptr(g, n, j) = c => f[c] = Span(g, f, n, j)
  <2> DEFINE s == Size(h, n)
  <2>1. /\ Size(g, n) = s + 1
        /\ \A i \in 1 .. s + 1 :
             /\ Key(g, n, i) = IF i < m THEN Key(h, n, i) ELSE IF i = m THEN k ELSE Key(h, n, i - 1)
             /\ Ptr(g, n, i) = IF i < m THEN Ptr(h, n, i) ELSE IF i = m THEN NULL ELSE Ptr(h, n, i - 1)
    BY DEF PutKey
  <2>2. m \in 1 .. s + 1 /\ s \in Nat
    BY HeapFacts DEF PlaceOf
  <2>3. /\ \A i \in 1 .. s : Key(h, n, i) \in f[n]
        /\ \A j \in 1 .. s : Ptr(h, n, j) = c => f[c] = Span(h, f, n, j)
        /\ m <= s => Ptr(h, n, m) = NULL
    BY DEF Spanned
  <2>4. c # NULL
    BY <1>1
  <2> HIDE DEF s
  <2>5. \A i \in 1 .. s + 1 : \/ i = m
                              \/ i \in 1 .. s /\ i < m
                              \/ i - 1 \in 1 .. s /\ i > m
    BY <2>2
  <2>6. ASSUME NEW i \in 1 .. s + 1 PROVE Key(g, n, i) \in f[n]
    BY <2>1, <2>2, <2>3, <2>5
  <2>7. ASSUME NEW j \in 1 .. s + 1, Ptr(g, n, j) = c
        PROVE  f[c] = Span(g, f, n, j)
    <3>1. CASE j <= m
      <4>1. j < m /\ j \in 1 .. s /\ Ptr(h, n, j) = c
        BY <3>1, <2>1, <2>2, <2>4, <2>7
      <4>2. j > 1 => Key(g, n, j - 1) = Key(h, n, j - 1)
        <5>1. j > 1 => j - 1 \in 1 .. s + 1 /\ j - 1 < m
          BY <4>1, <2>2
        <5> QED
          BY <5>1, <2>1
      <4> QED
        BY <4>1, <4>2, <2>3 DEF Span
    <3>2. CASE j > m
      <4>1. j - 1 \in 1 .. s /\ Ptr(h, n, j - 1) = c
        BY <3>2, <2>1, <2>2, <2>7
      <4>2. j - 1 # m
        BY <4>1, <2>2, <2>3, <2>4
      <4>3. j - 1 > m /\ j - 1 \in 1 .. s + 1 /\ j > 1 /\ j - 1 > 1
        BY <3>2, <4>1, <4>2, <2>2
      <4>4. Key(g, n, j - 1) = Key(h, n, (j - 1) - 1)
        BY <4>3, <2>1, <2>2
      <4> QED
        BY <4>1, <4>3, <4>4, <2>3 DEF Span
    <3> QED
      BY <3>1, <3>2, <2>2
  <2> QED
    BY <2>1, <2>6, <2>7
<1> QED
  BY <1>1, <1>2, <1>3 DEF Spanned

\* The facts about the keys that the next lemmas share: mid is what goes up.
LEMMA SplitKeys ==
  ASSUME NEW h, NEW g, NEW p, NEW j, NEW c, NEW new, SplitOf(h, g, p, j, c, new),
         NEW mid, mid = Key(h, c, MinFactor), PlaceOf(h, p, j, mid), InOrder(h, c)
  PROVE  /\ mid \in BKeys /\ mid \in Int
         /\ \A i \in 1 .. MinFactor - 1 :
              /\ i \in 1 .. Full /\ Key(g, c, i) = Key(h, c, i) /\ Key(h, c, i) < mid
              /\ MinFactor + i \in 1 .. Full /\ Key(g, new, i) = Key(h, c, MinFactor + i)
              /\ mid < Key(h, c, MinFactor + i)
         /\ \A i \in 1 .. Full : Key(h, c, i) \in BKeys /\ Key(h, c, i) \in Int
<1>1. IsHeap(h) /\ c \in DOMAIN h /\ Size(h, c) = Full
  BY DEF SplitOf
<1>2. \A i \in 1 .. Full : Key(h, c, i) \in BKeys /\ Key(h, c, i) \in Int
  BY <1>1, HeapFacts
<1>3. \A i \in 1 .. MinFactor - 1 : Key(g, c, i) = Key(h, c, i) /\ Key(g, new, i) = Key(h, c, MinFactor + i)
  BY DEF SplitOf, Halved
<1>4. /\ MinFactor \in 1 .. Full
      /\ \A i \in 1 .. MinFactor - 1 : /\ i \in 1 .. Full /\ i < MinFactor
                                       /\ MinFactor + i \in 1 .. Full /\ MinFactor < MinFactor + i
  BY Factors
<1>5. \A i, x \in 1 .. Full : i < x => Key(h, c, i) < Key(h, c, x)
  BY <1>1 DEF InOrder
<1> QED
  BY <1>2, <1>3, <1>4, <1>5

LEMMA SplitShaped ==
  ASSUME NEW h, NEW g, NEW p, NEW j, NEW c, NEW new, SplitOf(h, g, p, j, c, new),
         PlaceOf(h, p, j, Key(h, c, MinFactor)),
         \A n \in DOMAIN h : InOrder(h, n),
         \A n \in DOMAIN h \ {p} : Size(h, n) \in 1 .. Full, Size(h, p) \in 0 .. Full - 1
  PROVE  Shaped(g)
<1> DEFINE mid == Key(h, c, MinFactor)
<1>1. /\ mid \in BKeys /\ mid \in Int
      /\ \A i \in 1 .. MinFactor - 1 :
           /\ i \in 1 .. Full /\ Key(g, c, i) = Key(h, c, i) /\ Key(h, c, i) < mid
           /\ MinFactor + i \in 1 .. Full /\ Key(g, new, i) = Key(h, c, MinFactor + i)
           /\ mid < Key(h, c, MinFactor + i)
      /\ \A i \in 1 .. Full : Key(h, c, i) \in BKeys /\ Key(h, c, i) \in Int
  <2>1. InOrder(h, c)
    BY DEF SplitOf
  <2> QED
    BY <2>1, SplitKeys
<1>2. /\ DOMAIN g = DOMAIN h \cup {new} /\ new # p /\ new # c /\ p # c /\ new # NULL
      /\ Size(g, c) = MinFactor - 1 /\ Size(g, new) = MinFactor - 1 /\ Size(h, c) = Full
      /\ Size(h, p) \in Nat /\ Size(g, p) = Size(h, p) + 1 /\ j \in 1 .. Size(h, p) + 1
      /\ \A n \in DOMAIN h \ {p, c} : Size(g, n) = Size(h, n) /\ Size(h, n) \in Nat
  BY SplitSizes
<1>3. MinFactor - 1 \in 1 .. Full /\ MinFactor \in Nat
  BY Factors
<1>4. IsHeap(h) /\ p \in DOMAIN h /\ c \in DOMAIN h
  BY DEF SplitOf
<1>5. \A i, x \in 1 .. Full : i < x => Key(h, c, i) < Key(h, c, x)
  BY <1>2, <1>4 DEF InOrder
<1> HIDE DEF mid
<1>6. InOrder(g, c)
  BY <1>1, <1>2, <1>5 DEF InOrder
<1>7. InOrder(g, new)
  <2> SUFFICES ASSUME NEW i \in 1 .. MinFactor - 1, NEW x \in 1 .. MinFactor - 1, i < x
               PROVE  Key(g, new, i) < Key(g, new, x)
    BY <1>2 DEF InOrder
  <2>1. MinFactor + i < MinFactor + x
    BY <1>3
  <2> QED
    BY <2>1, <1>1, <1>5
<1>8. InOrder(g, p) /\ Size(g, p) \in 1 .. Full
  <2>1. \A i \in 1 .. Size(h, p) + 1 :
          Key(g, p, i) = IF i < j THEN Key(h, p, i) ELSE IF i = j THEN mid ELSE Key(h, p, i - 1)
    BY DEF SplitOf, Gained, mid
  <2>2. PlaceOf(h, p, j, mid)
    BY DEF mid
  <2>3. InOrder(g, p)
    BY <2>1, <2>2, <1>1, <1>2, <1>4, InsertInOrder
  <2> QED
    BY <2>3, <1>2, Factors
<1>9. ASSUME NEW n \in DOMAIN h \ {p, c}
      PROVE  InOrder(g, n) /\ Size(g, n) \in 1 .. Full
  <2>1. SameNode(h, g, n)
    BY DEF SplitOf
  <2> QED
    BY <2>1 DEF SameNode, InOrder
<1> QED
  BY <1>2, <1>3, <1>6, <1>7, <1>8, <1>9 DEF Shaped

\* A pointer before a key, to neither half, was before that key already.
LEMMA SplitOrigin ==
  ASSUME NEW h, NEW g, NEW p, NEW j, NEW c, NEW new, SplitOf(h, g, p, j, c, new),
         NEW o \in DOMAIN g, NEW y \in 1 .. Size(g, o), NEW d \in DOMAIN h \ {c},
         Ptr(g, o, y) = d
  PROVE  \/ /\ o \notin {p, new} /\ y \in 1 .. Size(h, o)
            /\ Ptr(h, o, y) = d /\ Key(g, o, y) = Key(h, o, y)
            /\ y > 1 => Key(g, o, y - 1) = Key(h, o, y - 1)
         \/ /\ o = new /\ y \in 1 .. MinFactor - 1 /\ MinFactor + y \in 1 .. Size(h, c)
            /\ Ptr(h, c, MinFactor + y) = d /\ Key(g, o, y) = Key(h, c, MinFactor + y)
            /\ y > 1 => Key(g, o, y - 1) = Key(h, c, MinFactor + y - 1)
         \/ /\ o = p /\ y < j /\ y \in 1 .. Size(h, p)
            /\ Ptr(h, p, y) = d /\ Key(g, p, y) = Key(h, p, y)
            /\ y > 1 => Key(g, p, y - 1) = Key(h, p, y - 1)
         \/ /\ o = p /\ y - 1 > j /\ y - 1 \in 1 .. Size(h, p)
            /\ Ptr(h, p, y - 1) = d /\ Key(g, p, y) = Key(h, p, y - 1)
            /\ Key(g, p, y - 1) = Key(h, p, (y - 1) - 1)
<1>1. /\ DOMAIN g = DOMAIN h \cup {new} /\ new # p /\ new # c /\ p # c /\ new # NULL
      /\ Size(g, c) = MinFactor - 1 /\ Size(g, new) = MinFactor - 1 /\ Size(h, c) = Full
      /\ Size(h, p) \in Nat /\ Size(g, p) = Size(h, p) + 1 /\ j \in 1 .. Size(h, p) + 1
      /\ \A n \in DOMAIN h \ {p, c} : Size(g, n) = Size(h, n) /\ Size(h, n) \in Nat
  BY SplitSizes
<1>2. MinFactor \in Nat /\ MinFactor >= 2 /\ Full = 2 * MinFactor - 1
  BY Factors
<1>3. d # new /\ d # c
  BY DEF SplitOf
<1>4. CASE o = new
  <2>1. \A i \in 1 .. MinFactor - 1 : Ptr(g, new, i) = Ptr(h, c, MinFactor + i)
                                      /\ Key(g, new, i) = Key(h, c, MinFactor + i)
    BY DEF SplitOf, Halved
  <2>2. y \in 1 .. MinFactor - 1 /\ MinFactor + y \in 1 .. Size(h, c)
    BY <1>1, <1>2, <1>4
  <2>3. y > 1 => y - 1 \in 1 .. MinFactor - 1 /\ MinFactor + (y - 1) = MinFactor + y - 1
    BY <2>2, <1>2
  <2> QED
    BY <2>1, <2>2, <2>3, <1>4
<1>5. CASE o = c
  <2>1. \A i \in 1 .. MinFactor - 1 : Ptr(g, c, i) = Ptr(h, c, i) /\ Key(g, c, i) = Key(h, c, i)
    BY DEF SplitOf, Halved
  <2>2. y \in 1 .. MinFactor - 1 /\ y \in 1 .. Size(h, c)
    BY <1>1, <1>2, <1>5
  <2>3. y > 1 => y - 1 \in 1 .. MinFactor - 1
    BY <2>2, <1>2
  <2> QED
    BY <2>1, <2>2, <2>3, <1>1, <1>5
<1>6. CASE o = p
  <2> DEFINE s == Size(h, p)
             mid == Key(h, c, MinFactor)
  <2>1. \A x \in 1 .. s + 1 :
          /\ Key(g, p, x) = IF x < j THEN Key(h, p, x) ELSE IF x = j THEN mid ELSE Key(h, p, x - 1)
          /\ Ptr(g, p, x) = IF x < j THEN Ptr(h, p, x) ELSE IF x = j THEN c
                            ELSE IF x = j + 1 THEN new ELSE Ptr(h, p, x - 1)
    BY DEF SplitOf, Gained
  <2>2. y \in 1 .. s + 1 /\ s \in Nat /\ j \in 1 .. s + 1 /\ Ptr(g, p, y) = d
    BY <1>1, <1>6
  <2> HIDE DEF s, mid
  <2>3. y # j /\ y # j + 1
    <3>1. Ptr(g, p, j) = c
      BY <2>1, <2>2
    <3>2. y = j + 1 => Ptr(g, p, y) = new
      <4>1. ~(j + 1 < j) /\ j + 1 # j
        BY <2>2
      <4> QED
        BY <4>1, <2>1, <2>2
    <3> QED
      BY <3>1, <3>2, <2>2, <1>3
  <2>4. CASE y < j
    <3>1. y \in 1 .. s /\ (y > 1 => y - 1 \in 1 .. s + 1 /\ y - 1 < j)
      BY <2>2, <2>4
    <3>2. y \in 1 .. Size(h, p)
      BY <3>1 DEF s
    <3>3. Ptr(h, p, y) = d /\ Key(g, p, y) = Key(h, p, y) /\ (y > 1 => Key(g, p, y - 1) = Key(h, p, y - 1))
      BY <2>1, <2>2, <2>4, <3>1
    <3> QED
      BY <3>2, <3>3, <2>4, <1>6
  <2>5. CASE y > j
    <3>1. y - 1 > j /\ y - 1 \in 1 .. s /\ y - 1 \in 1 .. s + 1 /\ ~(y < j) /\ ~(y - 1 < j) /\ y - 1 # j
      BY <2>2, <2>3, <2>5
    <3>2. y - 1 \in 1 .. Size(h, p)
      BY <3>1 DEF s
    <3>3. Ptr(h, p, y - 1) = d /\ Key(g, p, y) = Key(h, p, y - 1) /\ Key(g, p, y - 1) = Key(h, p, (y - 1) - 1)
      BY <2>1, <2>2, <2>3, <3>1
    <3> QED
      BY <3>1, <3>2, <3>3, <1>6
  <2> QED
    BY <2>2, <2>3, <2>4, <2>5
<1>7. CASE o \notin {new, c, p}
  <2>1. SameNode(h, g, o) /\ Size(h, o) \in Nat /\ Size(g, o) = Size(h, o)
    BY <1>1, <1>7 DEF SplitOf
  <2>2. y \in 1 .. Size(h, o) /\ y \in 0 .. Size(h, o) /\ (y > 1 => y - 1 \in 1 .. Size(h, o))
    BY <2>1
  <2> QED
    BY <2>1, <2>2, <1>7 DEF SameNode
<1> QED
  BY <1>4, <1>5, <1>6, <1>7

LEMMA SplitBounded ==
  ASSUME NEW h, NEW g, NEW p, NEW j, NEW c, NEW new, SplitOf(h, g, p, j, c, new),
         PlaceOf(h, p, j, Key(h, c, MinFactor)), InOrder(h, c),
         NEW r, Tree(h, r), Tree(g, r), p = r \/ j <= Size(h, p), Bounded(h)
  PROVE  Bounded(g)
<1> DEFINE mid == Key(h, c, MinFactor)
           t   == MinFactor
<1>1. /\ mid \in BKeys /\ mid \in Int
      /\ \A i \in 1 .. t - 1 :
           /\ i \in 1 .. Full /\ Key(g, c, i) = Key(h, c, i) /\ Key(h, c, i) < mid
           /\ t + i \in 1 .. Full /\ Key(g, new, i) = Key(h, c, t + i)
           /\ mid < Key(h, c, t + i)
      /\ \A i \in 1 .. Full : Key(h, c, i) \in BKeys /\ Key(h, c, i) \in Int
  BY SplitKeys
<1>2. /\ DOMAIN g = DOMAIN h \cup {new} /\ new # p /\ new # c /\ p # c /\ new # NULL
      /\ Size(g, c) = t - 1 /\ Size(g, new) = t - 1 /\ Size(h, c) = Full
      /\ Size(h, p) \in Nat /\ Size(g, p) = Size(h, p) + 1 /\ j \in 1 .. Size(h, p) + 1
      /\ \A n \in DOMAIN h \ {p, c} : Size(g, n) = Size(h, n) /\ Size(h, n) \in Nat
  BY SplitSizes
<1>3. /\ IsHeap(h) /\ p \in DOMAIN h /\ c \in DOMAIN h /\ new \notin DOMAIN h /\ c # NULL
      /\ t \in Nat /\ t >= 2 /\ Full = 2 * t - 1
  BY Factors, BKeysAssumption DEF SplitOf, IsHeap
<1>4. \A n, d \in DOMAIN h : \A i \in 1 .. Size(h, n) : Ptr(h, n, i) = d =>
        \A x \in 1 .. Size(h, d) : x < Size(h, d) \/ Ptr(h, d, x) # NULL => Key(h, d, x) < Key(h, n, i)
  BY DEF Bounded
<1> DEFINE s == Size(h, p)
<1>5. \A x \in 1 .. s + 1 :
        /\ Key(g, p, x) = IF x < j THEN Key(h, p, x) ELSE IF x = j THEN mid ELSE Key(h, p, x - 1)
        /\ Ptr(g, p, x) = IF x < j THEN Ptr(h, p, x) ELSE IF x = j THEN c
                          ELSE IF x = j + 1 THEN new ELSE Ptr(h, p, x - 1)
  BY DEF SplitOf, Gained
<1>6. Ptr(h, p, IF j = s + 1 THEN 0 ELSE j) = c
  BY DEF SplitOf
<1> SUFFICES ASSUME NEW o \in DOMAIN g, NEW d \in DOMAIN g, NEW y \in 1 .. Size(g, o), Ptr(g, o, y) = d,
                    NEW x \in 1 .. Size(g, d), x < Size(g, d) \/ Ptr(g, d, x) # NULL
             PROVE  Key(g, d, x) < Key(g, o, y)
  BY DEF Bounded
<1> HIDE DEF mid, t
<1>7. CASE d = new
  <2>1. o = p /\ y = FreshAt(h, p, j)
    <3>1. FreshAt(h, p, j) \in 0 .. Size(g, p) /\ Ptr(g, p, FreshAt(h, p, j)) = new
      BY SplitFresh
    <3>2. p \in DOMAIN g /\ new # NULL /\ y \in 0 .. Size(g, o)
      <4>1. \A z \in 1 .. Size(g, o) : z \in 0 .. Size(g, o)
        OBVIOUS
      <4> QED
        BY <4>1, <1>2, <1>3
    <3> QED
      BY <3>1, <3>2, <1>7 DEF Tree
  <2>2. j \in 1 .. s /\ y = j + 1 /\ y \in 1 .. s + 1
    <3>1. y \in 1 .. s + 1 /\ y # 0 /\ FreshAt(h, p, j) = IF j = s + 1 THEN 0 ELSE j + 1
      BY <2>1, <1>2 DEF FreshAt
    <3> HIDE DEF s
    <3>2. s \in Nat /\ j \in 1 .. s + 1
      BY <1>2 DEF s
    <3> QED
      BY <3>1, <3>2, <2>1
  <2>3. Key(g, o, y) = Key(h, p, j) /\ Ptr(h, p, j) = c
    <3>1. ~(y < j) /\ y # j /\ y - 1 = j /\ j # s + 1
      BY <2>2, <1>2
    <3> QED
      BY <3>1, <2>1, <2>2, <1>5, <1>6
  <2>4. x \in 1 .. t - 1 /\ Key(g, d, x) = Key(h, c, t + x) /\ t + x \in 1 .. Full
    BY <1>1, <1>2, <1>7
  <2>5. t + x < Full \/ Ptr(h, c, t + x) # NULL
    <3>1. Ptr(g, new, x) = Ptr(h, c, t + x)
      BY <2>4 DEF SplitOf, Halved, t
    <3>2. x < t - 1 \/ Ptr(g, new, x) # NULL
      BY <1>2, <1>7
    <3> QED
      BY <3>1, <3>2, <2>4, <1>3
  <2> QED
    BY <2>2, <2>3, <2>4, <2>5, <1>2, <1>3, <1>4
<1>8. CASE d = c
  <2>1. j \in 1 .. s + 1 /\ j \in 0 .. Size(g, p) /\ Ptr(g, p, j) = c /\ Key(g, p, j) = mid
    <3>1. j \in 1 .. s + 1 /\ j \in 0 .. Size(g, p) /\ ~(j < j)
      BY <1>2
    <3> QED
      BY <3>1, <1>5
  <2>2. o = p /\ y = j
    <3>1. p \in DOMAIN g /\ y \in 0 .. Size(g, o)
      <4>1. \A z \in 1 .. Size(g, o) : z \in 0 .. Size(g, o)
        OBVIOUS
      <4> QED
        BY <4>1, <1>2, <1>3
    <3> QED
      BY <3>1, <2>1, <1>3, <1>8 DEF Tree
  <2> QED
    BY <2>1, <2>2, <1>1, <1>2, <1>8
<1>9. CASE d \in DOMAIN h \ {c}
  <2>0. \E q \in DOMAIN h : \E z \in 1 .. Size(h, q) : Ptr(h, q, z) = d /\ Key(h, q, z) = Key(g, o, y)
    <3>1. \/ o \notin {p, new} /\ y \in 1 .. Size(h, o) /\ Ptr(h, o, y) = d /\ Key(g, o, y) = Key(h, o, y)
          \/ \E z \in 1 .. Size(h, c) : Ptr(h, c, z) = d /\ Key(g, o, y) = Key(h, c, z)
          \/ \E z \in 1 .. Size(h, p) : Ptr(h, p, z) = d /\ Key(g, o, y) = Key(h, p, z)
      BY <1>9, SplitOrigin
    <3> QED
      BY <3>1, <1>2, <1>3
  <2>a. PICK q \in DOMAIN h : \E z \in 1 .. Size(h, q) : Ptr(h, q, z) = d /\ Key(h, q, z) = Key(g, o, y)
    BY <2>0
  <2>1. PICK z \in 1 .. Size(h, q) : Ptr(h, q, z) = d /\ Key(h, q, z) = Key(g, o, y)
    BY <2>a
  <2> DEFINE v == Key(h, q, z)
  <2>2. \A i \in 1 .. Size(h, d) : i < Size(h, d) \/ Ptr(h, d, i) # NULL => Key(h, d, i) < v
    BY <2>1, <1>4, <1>9
  <2> SUFFICES Key(g, d, x) < v
    BY <2>1
  <2> HIDE DEF v
  <2>3. CASE d # p
    <3>1. SameNode(h, g, d)
      BY <2>3, <1>9 DEF SplitOf
    <3>2. x \in 1 .. Size(h, d) /\ x \in 0 .. Size(h, d) /\ Size(g, d) = Size(h, d)
      BY <2>3, <1>2, <1>9
    <3> QED
      BY <3>1, <3>2, <2>2 DEF SameNode
  <2>4. CASE d = p
    <3>1. p # r
      <4>1. z \in 0 .. Size(h, q) /\ p # NULL
        BY <1>3, BKeysAssumption DEF IsHeap
      <4> QED
        BY <4>1, <2>1, <2>4 DEF Tree
    <3>2. j \in 1 .. s /\ Ptr(h, p, j) = c /\ mid < Key(h, p, j)
      <4>1. j \in 1 .. s /\ j # s + 1
        BY <3>1, <1>2
      <4>2. mid < Key(h, p, j)
        BY <4>1, <1>2 DEF PlaceOf, mid
      <4> QED
        BY <4>1, <4>2, <1>6
    <3>3. Key(h, p, j) < v /\ v \in Int /\ \A i \in 1 .. s : Key(h, p, i) \in Int
      BY <3>2, <2>1, <2>2, <2>4, <1>3, HeapFacts DEF v
    <3>4. mid < v
      BY <3>2, <3>3, <1>1
    <3>5. x \in 1 .. s + 1 /\ (x < s + 1 \/ Ptr(g, p, x) # NULL)
      BY <2>4, <1>2
    <3>6. \A i \in 1 .. s : i < s \/ Ptr(h, p, i) # NULL => Key(h, p, i) < v
      BY <2>2, <2>4
    <3>7. s \in Nat
      BY <1>2
    <3> SUFFICES Key(g, p, x) < v
      BY <2>4
    <3> HIDE DEF s
    <3>8. CASE x < j
      <4>1. x \in 1 .. s /\ x < s /\ Key(g, p, x) = Key(h, p, x)
        BY <3>2, <3>5, <3>7, <3>8, <1>5
      <4> QED
        BY <4>1, <3>6
    <3>9. CASE x = j
      BY <3>2, <3>4, <3>5, <3>7, <3>9, <1>5
    <3>10. CASE x > j
      <4>1. x - 1 \in 1 .. s /\ Key(g, p, x) = Key(h, p, x - 1)
        BY <3>2, <3>5, <3>7, <3>10, <1>5
      <4>2. CASE x = j + 1
        BY <4>1, <4>2, <3>2, <3>3
      <4>3. CASE x # j + 1
        <5>1. Ptr(g, p, x) = Ptr(h, p, x - 1)
          BY <4>3, <3>2, <3>5, <3>7, <3>10, <1>5
        <5>2. x - 1 < s \/ Ptr(h, p, x - 1) # NULL
          BY <5>1, <3>5, <3>7
        <5> QED
          BY <4>1, <5>2, <3>6
      <4> QED
        BY <4>2, <4>3
    <3> QED
      BY <3>2, <3>5, <3>8, <3>9, <3>10
  <2> QED
    BY <2>3, <2>4
<1> QED
  BY <1>2, <1>7, <1>8, <1>9

LEMMA SplitSpanned ==
  ASSUME NEW h, NEW g, NEW p, NEW j, NEW c, NEW new, SplitOf(h, g, p, j, c, new),
         PlaceOf(h, p, j, Key(h, c, MinFactor)), InOrder(h, c),
         NEW r, Tree(h, r), Tree(g, r), NEW f, Spanned(h, r, f), f[c] = Span(h, f, p, j)
  PROVE  \E e : Spanned(g, r, e) /\ \A n \in DOMAIN h : e[n] = f[n]
<1> DEFINE mid == Key(h, c, MinFactor)
           t   == MinFactor
           e   == [n \in DOMAIN h \cup {new} |-> IF n = new THEN {x \in f[c] : x > mid} ELSE f[n]]
<1>1. /\ mid \in BKeys /\ mid \in Int
      /\ \A i \in 1 .. t - 1 :
           /\ i \in 1 .. Full /\ Key(g, c, i) = Key(h, c, i) /\ Key(h, c, i) < mid
           /\ t + i \in 1 .. Full /\ Key(g, new, i) = Key(h, c, t + i)
           /\ mid < Key(h, c, t + i)
      /\ \A i \in 1 .. Full : Key(h, c, i) \in BKeys /\ Key(h, c, i) \in Int
  BY SplitKeys
<1>2. /\ DOMAIN g = DOMAIN h \cup {new} /\ new # p /\ new # c /\ p # c /\ new # NULL
      /\ Size(g, c) = t - 1 /\ Size(g, new) = t - 1 /\ Size(h, c) = Full
      /\ Size(h, p) \in Nat /\ Size(g, p) = Size(h, p) + 1 /\ j \in 1 .. Size(h, p) + 1
      /\ \A n \in DOMAIN h \ {p, c} : Size(g, n) = Size(h, n) /\ Size(h, n) \in Nat
  BY SplitSizes
<1>3. /\ IsHeap(h) /\ p \in DOMAIN h /\ c \in DOMAIN h /\ new \notin DOMAIN h /\ c # NULL
      /\ t \in Nat /\ t >= 2 /\ Full = 2 * t - 1
  BY Factors, BKeysAssumption DEF SplitOf, IsHeap
<1>4. /\ f \in [DOMAIN h -> SUBSET BKeys] /\ (r # NULL => f[r] = BKeys)
      /\ \A n \in DOMAIN h : \A i \in 1 .. Size(h, n) : Key(h, n, i) \in f[n]
      /\ \A n, d \in DOMAIN h : \A i \in 1 .. Size(h, n) : Ptr(h, n, i) = d => f[d] = Span(h, f, n, i)
  BY DEF Spanned
<1> DEFINE s == Size(h, p)
<1>5. \A x \in 1 .. s + 1 :
        /\ Key(g, p, x) = IF x < j THEN Key(h, p, x) ELSE IF x = j THEN mid ELSE Key(h, p, x - 1)
        /\ Ptr(g, p, x) = IF x < j THEN Ptr(h, p, x) ELSE IF x = j THEN c
                          ELSE IF x = j + 1 THEN new ELSE Ptr(h, p, x - 1)
  BY DEF SplitOf, Gained
<1>6. /\ e \in [DOMAIN g -> SUBSET BKeys] /\ e[new] = {x \in f[c] : x > mid}
      /\ \A n \in DOMAIN h : e[n] = f[n]
  BY <1>2, <1>3, <1>4
<1> HIDE DEF e, mid, t
<1>7. r # NULL => e[r] = BKeys
  BY <1>4, <1>6 DEF Tree
<1>8. /\ f[c] = {x \in f[p] : j > 1 => x > Key(h, p, j - 1)} /\ f[c] \subseteq f[p]
      /\ \A i \in 1 .. Full : Key(h, c, i) \in f[c]
      /\ mid \in f[c] /\ f[c] \subseteq Int
  <2>1. \A i \in 1 .. Full : Key(h, c, i) \in f[c]
    BY <1>2, <1>3, <1>4
  <2>2. f[c] = {x \in f[p] : j > 1 => x > Key(h, p, j - 1)}
    BY DEF Span
  <2>3. MinFactor \in 1 .. Full
    BY <1>3 DEF t
  <2>4. f[c] \in SUBSET BKeys
    BY <1>3, <1>4
  <2> QED
    BY <2>1, <2>2, <2>3, <2>4, BKeysAssumption DEF mid
<1>9. j > 1 => j - 1 \in 1 .. s /\ Key(h, p, j - 1) < mid /\ Key(h, p, j - 1) \in Int
              /\ Key(g, p, j - 1) = Key(h, p, j - 1)
  <2> SUFFICES ASSUME j > 1
               PROVE  j - 1 \in 1 .. s /\ Key(h, p, j - 1) < mid /\ Key(h, p, j - 1) \in Int
                      /\ Key(g, p, j - 1) = Key(h, p, j - 1)
    OBVIOUS
  <2>1. j - 1 \in 1 .. s /\ j - 1 \in 1 .. s + 1 /\ j - 1 < j
    BY <1>2
  <2>2. Key(h, p, j - 1) < mid
    BY <2>1 DEF PlaceOf, mid
  <2>3. Key(h, p, j - 1) \in Int
    BY <2>1, <1>3, HeapFacts
  <2> QED
    BY <2>1, <2>2, <2>3, <1>5
<1>10. ASSUME NEW n \in DOMAIN g, NEW i \in 1 .. Size(g, n)
       PROVE  Key(g, n, i) \in e[n]
  <2>1. CASE n = new
    <3>1. i \in 1 .. t - 1
      BY <2>1, <1>2
    <3>2. Key(g, new, i) \in f[c] /\ Key(g, new, i) > mid
      BY <3>1, <1>1, <1>8
    <3> QED
      BY <3>2, <2>1, <1>6
  <2>2. CASE n = c
    <3>1. i \in 1 .. t - 1
      BY <2>2, <1>2
    <3> QED
      BY <3>1, <2>2, <1>1, <1>3, <1>6, <1>8
  <2>3. CASE n = p
    <3>1. i \in 1 .. s + 1 /\ s \in Nat /\ j \in 1 .. s + 1 /\ e[n] = f[p]
      BY <2>3, <1>2, <1>3, <1>6
    <3>2. \A x \in 1 .. s : Key(h, p, x) \in f[p]
      BY <1>3, <1>4
    <3>3. mid \in f[p]
      BY <1>8
    <3> HIDE DEF s
    <3>4. \/ i = j
          \/ i < j /\ i \in 1 .. s
          \/ i > j /\ i - 1 \in 1 .. s
      BY <3>1
    <3> QED
      BY <3>1, <3>2, <3>3, <3>4, <2>3, <1>5
  <2>4. CASE n \notin {new, c, p}
    <3>1. n \in DOMAIN h /\ SameNode(h, g, n)
      BY <2>4, <1>2 DEF SplitOf
    <3>2. Key(g, n, i) = Key(h, n, i) /\ i \in 1 .. Size(h, n)
      BY <3>1 DEF SameNode
    <3> QED
      BY <3>1, <3>2, <1>4, <1>6
  <2> QED
    BY <2>1, <2>2, <2>3, <2>4
<1>11. ASSUME NEW o \in DOMAIN g, NEW d \in DOMAIN g, NEW y \in 1 .. Size(g, o), Ptr(g, o, y) = d
       PROVE  e[d] = Span(g, e, o, y)
  <2>0. y \in 0 .. Size(g, o) /\ p \in DOMAIN g /\ d # NULL
    <3>1. \A z \in 1 .. Size(g, o) : z \in 0 .. Size(g, o)
      OBVIOUS
    <3> QED
      BY <3>1, <1>2, <1>3, BKeysAssumption DEF IsHeap
  <2>1. CASE d = new
    <3>1. o = p /\ y = FreshAt(h, p, j)
      <4>1. FreshAt(h, p, j) \in 0 .. Size(g, p) /\ Ptr(g, p, FreshAt(h, p, j)) = new
        BY SplitFresh
      <4> QED
        BY <4>1, <2>0, <2>1, <1>11 DEF Tree
    <3>2. y = j + 1 /\ y - 1 = j /\ y > 1
      <4>1. y \in 1 .. s + 1 /\ y # 0 /\ FreshAt(h, p, j) = IF j = s + 1 THEN 0 ELSE j + 1
        BY <3>1, <1>2 DEF FreshAt
      <4>2. s \in Nat /\ j \in 1 .. s + 1
        BY <1>2
      <4> HIDE DEF s
      <4> QED
        BY <4>1, <4>2, <3>1
    <3>3. Key(g, p, j) = mid
      BY <1>2, <1>5
    <3>4. Span(g, e, o, y) = {x \in f[p] : x > mid}
      BY <3>1, <3>2, <3>3, <1>3, <1>6 DEF Span
    <3>5. f[p] \subseteq Int
      BY <1>3, <1>4, BKeysAssumption
    <3>6. {x \in f[c] : x > mid} = {x \in f[p] : x > mid}
      BY <3>5, <1>1, <1>8, <1>9
    <3> QED
      BY <3>4, <3>6, <2>1, <1>6
  <2>2. CASE d = c
    <3>1. j \in 0 .. Size(g, p) /\ Ptr(g, p, j) = c
      <4>1. j \in 1 .. s + 1 /\ j \in 0 .. Size(g, p) /\ ~(j < j)
        BY <1>2
      <4> QED
        BY <4>1, <1>5
    <3>2. o = p /\ y = j
      BY <3>1, <2>0, <2>2, <1>11 DEF Tree
    <3>3. Span(g, e, p, j) = {x \in f[p] : j > 1 => x > Key(h, p, j - 1)}
      BY <1>3, <1>6, <1>9 DEF Span
    <3> QED
      BY <3>2, <3>3, <2>2, <1>3, <1>6, <1>8
  <2>3. CASE d \in DOMAIN h \ {c}
    <3>1. \/ /\ o \notin {p, new} /\ y \in 1 .. Size(h, o)
             /\ Ptr(h, o, y) = d /\ Key(g, o, y) = Key(h, o, y)
             /\ y > 1 => Key(g, o, y - 1) = Key(h, o, y - 1)
          \/ /\ o = new /\ y \in 1 .. MinFactor - 1 /\ MinFactor + y \in 1 .. Size(h, c)
             /\ Ptr(h, c, MinFactor + y) = d /\ Key(g, o, y) = Key(h, c, MinFactor + y)
             /\ y > 1 => Key(g, o, y - 1) = Key(h, c, MinFactor + y - 1)
          \/ /\ o = p /\ y < j /\ y \in 1 .. Size(h, p)
             /\ Ptr(h, p, y) = d /\ Key(g, p, y) = Key(h, p, y)
             /\ y > 1 => Key(g, p, y - 1) = Key(h, p, y - 1)
          \/ /\ o = p /\ y - 1 > j /\ y - 1 \in 1 .. Size(h, p)
             /\ Ptr(h, p, y - 1) = d /\ Key(g, p, y) = Key(h, p, y - 1)
             /\ Key(g, p, y - 1) = Key(h, p, (y - 1) - 1)
      BY <2>3, <1>11, SplitOrigin
    <3>2. e[d] = f[d]
      BY <2>3, <1>6
    <3>3. CASE /\ o \notin {p, new} /\ y \in 1 .. Size(h, o)
               /\ Ptr(h, o, y) = d
               /\ y > 1 => Key(g, o, y - 1) = Key(h, o, y - 1)
      <4>1. o \in DOMAIN h /\ f[d] = Span(h, f, o, y) /\ e[o] = f[o]
        BY <3>3, <2>3, <1>2, <1>4, <1>6
      <4> QED
        BY <4>1, <3>2, <3>3 DEF Span
    <3>4. CASE /\ o = new /\ y \in 1 .. t - 1 /\ t + y \in 1 .. Size(h, c)
               /\ Ptr(h, c, t + y) = d
               /\ y > 1 => Key(g, o, y - 1) = Key(h, c, t + y - 1)
      <4>1. f[d] = {x \in f[c] : x > Key(h, c, t + y - 1)}
        <5>1. t + y > 1
          BY <3>4, <1>3
        <5> QED
          BY <5>1, <3>4, <2>3, <1>3, <1>4 DEF Span
      <4>2. CASE y = 1
        <5>1. t + y - 1 = MinFactor
          BY <4>2, <1>3 DEF t
        <5>2. f[d] = {x \in f[c] : x > mid}
          BY <4>1, <5>1 DEF mid
        <5>3. Span(g, e, o, y) = e[new]
          BY <4>2, <3>4 DEF Span
        <5> QED
          BY <5>2, <5>3, <3>2, <1>6
      <4>3. CASE y > 1
        <5>1. y - 1 \in 1 .. t - 1 /\ t + y - 1 = t + (y - 1)
          BY <4>3, <3>4, <1>3
        <5>2. Key(h, c, t + y - 1) > mid /\ Key(h, c, t + y - 1) \in Int
          BY <5>1, <1>1
        <5>3. Span(g, e, o, y) = {x \in {x \in f[c] : x > mid} : x > Key(h, c, t + y - 1)}
          BY <4>3, <3>4, <1>6 DEF Span
        <5> HIDE DEF s
        <5> QED
          BY <4>1, <5>2, <5>3, <3>2, <1>1, <1>8
      <4> QED
        BY <4>2, <4>3, <3>4
    <3>5. CASE /\ o = p /\ y \in 1 .. Size(h, p) /\ Ptr(h, p, y) = d
               /\ y > 1 => Key(g, p, y - 1) = Key(h, p, y - 1)
      <4>1. f[d] = Span(h, f, p, y) /\ e[p] = f[p]
        BY <3>5, <2>3, <1>3, <1>4, <1>6
      <4> QED
        BY <4>1, <3>2, <3>5 DEF Span
    <3>6. CASE /\ o = p /\ y - 1 > j /\ y - 1 \in 1 .. Size(h, p)
               /\ Ptr(h, p, y - 1) = d /\ Key(g, p, y - 1) = Key(h, p, (y - 1) - 1)
      <4>1. f[d] = Span(h, f, p, y - 1) /\ e[p] = f[p]
        BY <3>6, <2>3, <1>3, <1>4, <1>6
      <4>2. y > 1 /\ y - 1 > 1
        BY <3>6, <1>2
      <4> QED
        BY <4>1, <4>2, <3>2, <3>6 DEF Span
    <3> QED
      BY <3>1, <3>3, <3>4, <3>5, <3>6 DEF t
  <2> QED
    BY <2>1, <2>2, <2>3, <1>2
<1>12. Spanned(g, r, e)
  BY <1>6, <1>7, <1>10, <1>11 DEF Spanned
<1> QED
  BY <1>6, <1>12


-----------------------------------------------------------------------------
\* The nodes that are searched for a key: S has none with the key in it, and where a node
\* of S leads the key goes on in T.

Leads(h, n, i, k) == k < Key(h, n, i) /\ (i > 1 => Key(h, n, i - 1) < k)

On(h, k, S, T) ==
  /\ S \subseteq DOMAIN h
  /\ \A n \in S : \A i \in 1 .. Size(h, n) :
       Key(h, n, i) # k /\ (Leads(h, n, i, k) => Ptr(h, n, i) \in T \cup {NULL})

LEMMA SplitOn ==
  ASSUME NEW h, NEW g, NEW p, NEW j, NEW c, NEW new, SplitOf(h, g, p, j, c, new),
         PlaceOf(h, p, j, Key(h, c, MinFactor)), InOrder(h, c),
         NEW k \in BKeys, NEW S, On(h, k, S, S), p \in S, c \in S
  PROVE  \E R : S \subseteq R /\ On(g, k, R, R)
<1> DEFINE mid == Key(h, c, MinFactor)
           t   == MinFactor
           s   == Size(h, p)
           R   == IF mid < k THEN S \cup {new} ELSE S
<1>1. /\ mid \in BKeys /\ mid \in Int
      /\ \A i \in 1 .. t - 1 :
           /\ i \in 1 .. Full /\ Key(g, c, i) = Key(h, c, i) /\ Key(h, c, i) < mid
           /\ t + i \in 1 .. Full /\ Key(g, new, i) = Key(h, c, t + i)
           /\ mid < Key(h, c, t + i)
      /\ \A i \in 1 .. Full : Key(h, c, i) \in BKeys /\ Key(h, c, i) \in Int
  BY SplitKeys
<1>2. /\ DOMAIN g = DOMAIN h \cup {new} /\ new # p /\ new # c /\ p # c /\ new # NULL
      /\ Size(g, c) = t - 1 /\ Size(g, new) = t - 1 /\ Size(h, c) = Full
      /\ Size(h, p) \in Nat /\ Size(g, p) = Size(h, p) + 1 /\ j \in 1 .. Size(h, p) + 1
      /\ \A n \in DOMAIN h \ {p, c} : Size(g, n) = Size(h, n) /\ Size(h, n) \in Nat
  BY SplitSizes
<1>3. /\ IsHeap(h) /\ p \in DOMAIN h /\ c \in DOMAIN h /\ new \notin DOMAIN h
      /\ t \in Nat /\ t >= 2 /\ Full = 2 * t - 1 /\ k \in Int /\ S \subseteq DOMAIN h
  BY Factors, BKeysAssumption DEF SplitOf, On
<1>4. \A x \in 1 .. s + 1 :
        /\ Key(g, p, x) = IF x < j THEN Key(h, p, x) ELSE IF x = j THEN mid ELSE Key(h, p, x - 1)
        /\ Ptr(g, p, x) = IF x < j THEN Ptr(h, p, x) ELSE IF x = j THEN c
                          ELSE IF x = j + 1 THEN new ELSE Ptr(h, p, x - 1)
  BY DEF SplitOf, Gained
<1>5. \A i \in 1 .. t - 1 : /\ Ptr(g, c, i) = Ptr(h, c, i)
                            /\ Ptr(g, new, i) = Ptr(h, c, t + i)
  BY DEF SplitOf, Halved
<1>6. /\ \A i \in 1 .. s : /\ Key(h, p, i) # k
                           /\ k < Key(h, p, i) /\ (i > 1 => Key(h, p, i - 1) < k) => Ptr(h, p, i) \in S \cup {NULL}
      /\ \A i \in 1 .. Full : /\ Key(h, c, i) # k
                              /\ k < Key(h, c, i) /\ (i > 1 => Key(h, c, i - 1) < k) => Ptr(h, c, i) \in S \cup {NULL}
      /\ \A n \in S : \A i \in 1 .. Size(h, n) :
           Key(h, n, i) # k /\ (Leads(h, n, i, k) => Ptr(h, n, i) \in S \cup {NULL})
  BY <1>2 DEF On, Leads
<1>7. mid # k /\ t \in 1 .. Full
  <2>1. t \in 1 .. Full
    BY <1>3
  <2> QED
    BY <2>1, <1>6
<1>8. S \subseteq R /\ c \in R /\ p \in R /\ (mid < k => new \in R) /\ (new \in R => mid < k)
  BY <1>3
<1>9. \A n \in R : n = new \/ n \in S
  OBVIOUS
<1> HIDE DEF R, mid, t
<1>10. ASSUME NEW i \in 1 .. Size(g, p)
       PROVE  Key(g, p, i) # k /\ (Leads(g, p, i, k) => Ptr(g, p, i) \in R \cup {NULL})
  <2>1. s \in Nat /\ j \in 1 .. s + 1 /\ i \in 1 .. s + 1
    BY <1>2
  <2> DEFINE A(x) == Key(h, p, x)
             Q(x) == Ptr(h, p, x)
             Z(x) == Key(g, p, x)
             P(x) == Ptr(g, p, x)
  <2>2. \A x \in 1 .. s + 1 :
          /\ Z(x) = IF x < j THEN A(x) ELSE IF x = j THEN mid ELSE A(x - 1)
          /\ P(x) = IF x < j THEN Q(x) ELSE IF x = j THEN c ELSE IF x = j + 1 THEN new ELSE Q(x - 1)
    BY <1>4
  <2>3. \A x \in 1 .. s : /\ A(x) # k
                          /\ k < A(x) /\ (x > 1 => A(x - 1) < k) => Q(x) \in S \cup {NULL}
    BY <1>6
  <2> SUFFICES Z(i) # k /\ (k < Z(i) /\ (i > 1 => Z(i - 1) < k) => P(i) \in R \cup {NULL})
    BY DEF Leads
  <2> HIDE DEF s, A, Q, Z, P
  <2>4. CASE i < j
    <3>1. i \in 1 .. s /\ Z(i) = A(i) /\ P(i) = Q(i) /\ (i > 1 => Z(i - 1) = A(i - 1))
      BY <2>1, <2>2, <2>4
    <3> QED
      BY <3>1, <2>3, <1>8
  <2>5. CASE i = j
    BY <2>1, <2>2, <2>5, <1>7, <1>8
  <2>6. CASE i > j
    <3>1. i - 1 \in 1 .. s /\ Z(i) = A(i - 1) /\ i > 1
      BY <2>1, <2>2, <2>6
    <3>2. CASE i = j + 1
      <4>1. Z(i - 1) = mid /\ P(i) = new
        BY <2>1, <2>2, <3>2
      <4> QED
        BY <3>1, <4>1, <2>3, <1>8
    <3>3. CASE i # j + 1
      <4>1. P(i) = Q(i - 1) /\ Z(i - 1) = A((i - 1) - 1)
        BY <2>1, <2>2, <2>6, <3>3
      <4> QED
        BY <3>1, <4>1, <2>3, <1>8
    <3> QED
      BY <3>2, <3>3
  <2> QED
    BY <2>1, <2>4, <2>5, <2>6
<1>11. ASSUME NEW i \in 1 .. Size(g, c)
       PROVE  Key(g, c, i) # k /\ (Leads(g, c, i, k) => Ptr(g, c, i) \in R \cup {NULL})
  <2>1. i \in 1 .. t - 1 /\ (i > 1 => i - 1 \in 1 .. t - 1)
    BY <1>2, <1>3
  <2>2. i \in 1 .. Full /\ Key(g, c, i) = Key(h, c, i) /\ Ptr(g, c, i) = Ptr(h, c, i)
        /\ (i > 1 => Key(g, c, i - 1) = Key(h, c, i - 1))
    BY <2>1, <1>1, <1>5
  <2> QED
    BY <2>2, <1>6, <1>8 DEF Leads
<1>12. ASSUME new \in R, NEW i \in 1 .. Size(g, new)
       PROVE  Key(g, new, i) # k /\ (Leads(g, new, i, k) => Ptr(g, new, i) \in R \cup {NULL})
  <2>1. i \in 1 .. t - 1 /\ (i > 1 => i - 1 \in 1 .. t - 1 /\ t + (i - 1) = t + i - 1) /\ t + i > 1
        /\ (i = 1 => t + i - 1 = t) /\ (i > 1 \/ i = 1)
    BY <1>2, <1>3
  <2>2. t + i \in 1 .. Full /\ Key(g, new, i) = Key(h, c, t + i) /\ Ptr(g, new, i) = Ptr(h, c, t + i)
        /\ (i > 1 => Key(g, new, i - 1) = Key(h, c, t + i - 1))
    BY <2>1, <1>1, <1>5
  <2>3. i = 1 => Key(h, c, t + i - 1) < k
    <3>1. i = 1 => Key(h, c, t + i - 1) = mid
      BY <2>1 DEF mid, t
    <3> QED
      BY <3>1, <1>8, <1>12
  <2> DEFINE x == t + i
  <2>4. Key(h, c, x) # k /\ (k < Key(h, c, x) /\ (x > 1 => Key(h, c, x - 1) < k) => Ptr(h, c, x) \in S \cup {NULL})
    BY <2>2, <1>6
  <2>5. ASSUME Leads(g, new, i, k)
        PROVE  k < Key(h, c, x) /\ Key(h, c, x - 1) < k
    <3>1. k < Key(g, new, i) /\ (i > 1 => Key(g, new, i - 1) < k)
      BY <2>5 DEF Leads
    <3>2. Key(h, c, t + i - 1) < k
      <4>1. CASE i = 1
        BY <4>1, <2>3
      <4>2. CASE i > 1
        BY <4>2, <3>1, <2>2
      <4> QED
        BY <4>1, <4>2, <2>1
    <3>3. k < Key(h, c, x)
      BY <3>1, <2>2
    <3>4. x - 1 = t + i - 1
      BY <1>3
    <3>5. Key(h, c, x - 1) < k
      BY <3>2, <3>4
    <3> QED
      BY <3>3, <3>5
  <2>6. Key(g, new, i) = Key(h, c, x) /\ Ptr(g, new, i) = Ptr(h, c, x)
    BY <2>2
  <2> HIDE DEF x
  <2> QED
    BY <2>4, <2>5, <2>6, <1>8
<1>13. ASSUME NEW n \in S, n # p, n # c, NEW i \in 1 .. Size(g, n)
       PROVE  Key(g, n, i) # k /\ (Leads(g, n, i, k) => Ptr(g, n, i) \in R \cup {NULL})
  <2>1. SameNode(h, g, n) /\ Size(h, n) \in Nat
    BY <1>2, <1>3, <1>13 DEF SplitOf
  <2>2. i \in 1 .. Size(h, n) /\ i \in 0 .. Size(h, n) /\ (i > 1 => i - 1 \in 1 .. Size(h, n))
    BY <2>1 DEF SameNode
  <2>3. Key(g, n, i) = Key(h, n, i) /\ Ptr(g, n, i) = Ptr(h, n, i)
        /\ (i > 1 => Key(g, n, i - 1) = Key(h, n, i - 1))
    BY <2>1, <2>2 DEF SameNode
  <2> QED
    BY <2>2, <2>3, <1>6, <1>8 DEF Leads
<1>14. R \subseteq DOMAIN g
  BY <1>2, <1>3, <1>9
<1>15. On(g, k, R, R)
  BY <1>9, <1>10, <1>11, <1>12, <1>13, <1>14 DEF On
<1> QED
  BY <1>8, <1>15

\* What a split keeps, put together.
LEMMA SplitGood ==
  ASSUME NEW h, NEW g, NEW p, NEW j, NEW c, NEW new, SplitOf(h, g, p, j, c, new),
         PlaceOf(h, p, j, Key(h, c, MinFactor)),
         \A n \in DOMAIN h : InOrder(h, n),
         \A n \in DOMAIN h \ {p} : Size(h, n) \in 1 .. Full, Size(h, p) \in 0 .. Full - 1,
         NEW r, Tree(h, r), p = r \/ j <= Size(h, p), Bounded(h),
         NEW f, Spanned(h, r, f), f[c] = Span(h, f, p, j)
  PROVE  /\ Tree(g, r) /\ Shaped(g) /\ Bounded(g)
         /\ \E e : Spanned(g, r, e) /\ \A n \in DOMAIN h : e[n] = f[n]
<1>1. Tree(g, r)
  BY SplitTree
<1>2. InOrder(h, c)
  BY DEF SplitOf
<1>3. Shaped(g)
  BY SplitShaped
<1>4. Bounded(g)
  BY <1>1, <1>2, SplitBounded
<1>5. \E e : Spanned(g, r, e) /\ \A n \in DOMAIN h : e[n] = f[n]
  BY <1>1, <1>2, SplitSpanned
<1> QED
  BY <1>1, <1>3, <1>4, <1>5

-----------------------------------------------------------------------------
\* insertKey() puts a new root without keys above a full one, which is then split.

Topped(h, top, r) == B!WithNode(h, top, [keys |-> <<>>, child |-> r])

LEMMA TopFacts ==
  ASSUME NEW h, IsHeap(h), NEW r \in DOMAIN h, Tree(h, r), NEW top \in BAddress \ DOMAIN h,
         NEW u, u = Topped(h, top, r)
  PROVE  /\ IsHeap(u) /\ DOMAIN u = DOMAIN h \cup {top}
         /\ Size(u, top) = 0 /\ Ptr(u, top, 0) = r
         /\ \A n \in DOMAIN h : u[n] = h[n] /\ SameNode(h, u, n)
         /\ Tree(u, top)
<1> DEFINE new == [keys |-> <<>>, child |-> r]
<1>1. /\ u = [x \in DOMAIN h \cup {top} |-> IF x = top THEN new ELSE h[x]]
      /\ DOMAIN u = DOMAIN h \cup {top} /\ u[top] = new /\ \A n \in DOMAIN h : u[n] = h[n]
  BY DEF Topped, B!WithNode
<1>2. r \in BAddress /\ DOMAIN h \subseteq BAddress /\ NULL \notin DOMAIN h /\ top # NULL /\ NULL \notin BAddress
  BY BKeysAssumption DEF IsHeap
<1>3. new \in BNode
  BY <1>2 DEF BNode
<1>4. IsHeap(u)
  <2>1. \A n \in DOMAIN h : h[n] \in BNode
    BY DEF IsHeap
  <2> QED
    BY <2>1, <1>1, <1>2, <1>3 DEF IsHeap
<1>5. Size(u, top) = 0 /\ Ptr(u, top, 0) = r
  BY <1>1 DEF Size, Ptr
<1>6. \A n \in DOMAIN h : u[n] = h[n] /\ SameNode(h, u, n)
  BY <1>1 DEF SameNode, Size, Key, Ptr
<1>7. \A n \in DOMAIN h : \A i \in 0 .. Size(h, n) : Ptr(h, n, i) \in (DOMAIN h \ {r}) \cup {NULL}
  BY DEF Tree
<1>8. \A n \in DOMAIN h : Size(u, n) = Size(h, n) /\ \A i \in 0 .. Size(h, n) : Ptr(u, n, i) = Ptr(h, n, i)
  BY <1>6 DEF SameNode
<1>9. \A n \in DOMAIN u : \A i \in 0 .. Size(u, n) :
        \/ n = top /\ i = 0 /\ Ptr(u, n, i) = r
        \/ n \in DOMAIN h /\ i \in 0 .. Size(h, n) /\ Ptr(u, n, i) = Ptr(h, n, i)
           /\ Ptr(u, n, i) \in (DOMAIN h \ {r}) \cup {NULL}
  <2> SUFFICES ASSUME NEW n \in DOMAIN u, NEW i \in 0 .. Size(u, n)
               PROVE  \/ n = top /\ i = 0 /\ Ptr(u, n, i) = r
                      \/ n \in DOMAIN h /\ i \in 0 .. Size(h, n) /\ Ptr(u, n, i) = Ptr(h, n, i)
                         /\ Ptr(u, n, i) \in (DOMAIN h \ {r}) \cup {NULL}
    OBVIOUS
  <2>1. CASE n = top
    <3>1. i = 0
      BY <2>1, <1>5
    <3> QED
      BY <3>1, <2>1, <1>5
  <2>2. CASE n # top
    <3>1. n \in DOMAIN h
      BY <2>2, <1>1
    <3>2. i \in 0 .. Size(h, n) /\ Ptr(u, n, i) = Ptr(h, n, i)
      BY <3>1, <1>8
    <3> QED
      BY <3>1, <3>2, <1>7
  <2> QED
    BY <2>1, <2>2
<1>10. Tree(u, top)
  <2>1. \A n \in DOMAIN u : \A i \in 0 .. Size(u, n) : Ptr(u, n, i) \in (DOMAIN u \ {top}) \cup {NULL}
    BY <1>1, <1>2, <1>9
  <2>2. ASSUME NEW n \in DOMAIN u, NEW m \in DOMAIN u, NEW i \in 0 .. Size(u, n), NEW j \in 0 .. Size(u, m),
               Ptr(u, n, i) # NULL, Ptr(u, n, i) = Ptr(u, m, j)
        PROVE  n = m /\ i = j
    <3>1. CASE n \in DOMAIN h /\ m \in DOMAIN h
      <4>1. i \in 0 .. Size(h, n) /\ j \in 0 .. Size(h, m)
            /\ Ptr(h, n, i) # NULL /\ Ptr(h, n, i) = Ptr(h, m, j)
        BY <3>1, <2>2, <1>8
      <4> QED
        BY <4>1, <3>1 DEF Tree
    <3>2. CASE n = top \/ m = top
      <4>1. n = top /\ m = top /\ i = 0 /\ j = 0
        BY <3>2, <2>2, <1>2, <1>9
      <4> QED
        BY <4>1
    <3> QED
      BY <3>1, <3>2, <1>1
  <2>3. ASSUME NEW S \in SUBSET DOMAIN u, top \in S, Closes(u, S)
        PROVE  S = DOMAIN u
    <3> DEFINE R == S \ {top}
    <3>1. 0 \in 0 .. Size(u, top) /\ Ptr(u, top, 0) = r
      BY <1>5
    <3>2. r \in R
      BY <3>1, <2>3, <1>2 DEF Closes
    <3>3. Closes(h, R)
      <4> SUFFICES ASSUME NEW n \in R, NEW i \in 0 .. Size(h, n)
                   PROVE  Ptr(h, n, i) \in R \cup {NULL}
        BY DEF Closes
      <4>1. n \in DOMAIN h /\ i \in 0 .. Size(u, n) /\ Ptr(u, n, i) = Ptr(h, n, i)
        BY <1>1, <1>8
      <4>2. Ptr(u, n, i) \in S \cup {NULL}
        BY <4>1, <2>3 DEF Closes
      <4>3. Ptr(h, n, i) # top
        BY <4>1, <1>2, <1>7
      <4> QED
        BY <4>1, <4>2, <4>3
    <3>4. R \in SUBSET DOMAIN h
      BY <1>1
    <3>5. R = DOMAIN h
      BY <3>2, <3>3, <3>4 DEF Tree
    <3> QED
      BY <3>5, <2>3, <1>1
  <2>4. top \in DOMAIN u \cup {NULL} /\ top # NULL
    BY <1>1, <1>2
  <2> QED
    BY <2>1, <2>2, <2>3, <2>4 DEF Tree
<1> QED
  BY <1>1, <1>4, <1>5, <1>6, <1>10

LEMMA TopGood ==
  ASSUME NEW h, IsHeap(h), NEW r \in DOMAIN h, Tree(h, r), NEW top \in BAddress \ DOMAIN h,
         NEW u, u = Topped(h, top, r),
         Shaped(h), Bounded(h), NEW f, Spanned(h, r, f),
         NEW k \in BKeys, NEW S, On(h, k, S, S)
  PROVE  /\ \A n \in DOMAIN u : InOrder(u, n)
         /\ \A n \in DOMAIN u \ {top} : Size(u, n) \in 1 .. Full
         /\ Bounded(u)
         /\ \E e : Spanned(u, top, e) /\ e[top] = BKeys /\ e[r] = BKeys
         /\ On(u, k, S \cup {top}, S \cup {top})
<1>1. /\ IsHeap(u) /\ DOMAIN u = DOMAIN h \cup {top}
      /\ Size(u, top) = 0 /\ Ptr(u, top, 0) = r
      /\ \A n \in DOMAIN h : u[n] = h[n] /\ SameNode(h, u, n)
      /\ Tree(u, top)
  BY TopFacts
<1>2. /\ DOMAIN h \subseteq BAddress /\ NULL \notin DOMAIN h /\ top # NULL /\ top \notin DOMAIN h /\ r # NULL
  BY BKeysAssumption DEF IsHeap
<1>3. \A n \in DOMAIN h :
        /\ Size(u, n) = Size(h, n) /\ Size(h, n) \in Nat
        /\ \A i \in 1 .. Size(h, n) : /\ Key(u, n, i) = Key(h, n, i) /\ Ptr(u, n, i) = Ptr(h, n, i)
                                      /\ i \in 0 .. Size(h, n)
                                      /\ i > 1 => Key(u, n, i - 1) = Key(h, n, i - 1)
  <2> SUFFICES ASSUME NEW n \in DOMAIN h
               PROVE  /\ Size(u, n) = Size(h, n) /\ Size(h, n) \in Nat
                      /\ \A i \in 1 .. Size(h, n) : /\ Key(u, n, i) = Key(h, n, i) /\ Ptr(u, n, i) = Ptr(h, n, i)
                                                    /\ i \in 0 .. Size(h, n)
                                                    /\ i > 1 => Key(u, n, i - 1) = Key(h, n, i - 1)
    OBVIOUS
  <2>1. Size(h, n) \in Nat
    BY HeapFacts
  <2>2. SameNode(h, u, n)
    BY <1>1
  <2>3. \A i \in 1 .. Size(h, n) : i \in 0 .. Size(h, n) /\ (i > 1 => i - 1 \in 1 .. Size(h, n))
    BY <2>1
  <2> QED
    BY <2>1, <2>2, <2>3 DEF SameNode
<1>4. \A i \in 1 .. Size(u, top) : FALSE
  BY <1>1
<1>5. \A n \in DOMAIN u : InOrder(u, n)
  BY <1>1, <1>3, <1>4 DEF InOrder, Shaped
<1>6. \A n \in DOMAIN u \ {top} : Size(u, n) \in 1 .. Full
  BY <1>1, <1>3 DEF Shaped
<1>7. ASSUME NEW n \in DOMAIN u, NEW i \in 1 .. Size(u, n)
      PROVE  n \in DOMAIN h /\ i \in 1 .. Size(h, n) /\ Ptr(u, n, i) = Ptr(h, n, i)
             /\ Key(u, n, i) = Key(h, n, i) /\ Ptr(u, n, i) # top
  <2>1. n \in DOMAIN h
    BY <1>1, <1>4
  <2>2. i \in 1 .. Size(h, n) /\ i \in 0 .. Size(h, n) /\ Ptr(u, n, i) = Ptr(h, n, i) /\ Key(u, n, i) = Key(h, n, i)
    BY <2>1, <1>3
  <2>3. Ptr(h, n, i) \in DOMAIN h \cup {NULL}
    BY <2>1, <2>2 DEF Tree
  <2> QED
    BY <2>1, <2>2, <2>3, <1>2
<1>8. Bounded(u)
  <2> SUFFICES ASSUME NEW n \in DOMAIN u, NEW c \in DOMAIN u, NEW j \in 1 .. Size(u, n), Ptr(u, n, j) = c,
                      NEW x \in 1 .. Size(u, c), x < Size(u, c) \/ Ptr(u, c, x) # NULL
               PROVE  Key(u, c, x) < Key(u, n, j)
    BY DEF Bounded
  <2>1. n \in DOMAIN h /\ j \in 1 .. Size(h, n) /\ Ptr(h, n, j) = c /\ Key(u, n, j) = Key(h, n, j)
    BY <1>7
  <2>2. c \in DOMAIN h /\ x \in 1 .. Size(h, c) /\ Ptr(u, c, x) = Ptr(h, c, x) /\ Key(u, c, x) = Key(h, c, x)
    BY <1>7
  <2>3. Size(u, c) = Size(h, c)
    BY <2>2, <1>3
  <2> QED
    BY <2>1, <2>2, <2>3 DEF Bounded
<1>9. \E e : Spanned(u, top, e) /\ e[top] = BKeys /\ e[r] = BKeys
  <2> DEFINE e == [n \in DOMAIN h \cup {top} |-> IF n = top THEN BKeys ELSE f[n]]
  <2>1. /\ f \in [DOMAIN h -> SUBSET BKeys] /\ f[r] = BKeys
        /\ \A n \in DOMAIN h : \A i \in 1 .. Size(h, n) : Key(h, n, i) \in f[n]
        /\ \A n, d \in DOMAIN h : \A i \in 1 .. Size(h, n) : Ptr(h, n, i) = d => f[d] = Span(h, f, n, i)
    BY <1>2 DEF Spanned
  <2>2. e \in [DOMAIN u -> SUBSET BKeys] /\ e[top] = BKeys /\ e[r] = BKeys /\ \A n \in DOMAIN h : e[n] = f[n]
    BY <2>1, <1>1, <1>2
  <2> HIDE DEF e
  <2>3. ASSUME NEW n \in DOMAIN u, NEW i \in 1 .. Size(u, n)
        PROVE  Key(u, n, i) \in e[n]
    BY <2>1, <2>2, <1>7
  <2>4. ASSUME NEW n \in DOMAIN u, NEW d \in DOMAIN u, NEW i \in 1 .. Size(u, n), Ptr(u, n, i) = d
        PROVE  e[d] = Span(u, e, n, i)
    <3>1. n \in DOMAIN h /\ d \in DOMAIN h /\ i \in 1 .. Size(h, n) /\ Ptr(h, n, i) = d
      BY <2>4, <1>1, <1>7
    <3>2. e[d] = Span(h, f, n, i) /\ e[n] = f[n]
      BY <3>1, <2>1, <2>2
    <3>3. i > 1 => Key(u, n, i - 1) = Key(h, n, i - 1)
      BY <3>1, <1>3
    <3> QED
      BY <3>2, <3>3 DEF Span
  <2>5. Spanned(u, top, e)
    BY <2>2, <2>3, <2>4 DEF Spanned
  <2> QED
    BY <2>2, <2>5
<1>10. On(u, k, S \cup {top}, S \cup {top})
  <2>1. ASSUME NEW n \in S \cup {top}, NEW i \in 1 .. Size(u, n)
        PROVE  Key(u, n, i) # k /\ (Leads(u, n, i, k) => Ptr(u, n, i) \in S \cup {top} \cup {NULL})
    <3>1. n \in S /\ n \in DOMAIN h
      BY <1>4 DEF On
    <3>2. i \in 1 .. Size(h, n) /\ Key(u, n, i) = Key(h, n, i) /\ Ptr(u, n, i) = Ptr(h, n, i)
          /\ (i > 1 => Key(u, n, i - 1) = Key(h, n, i - 1))
      BY <3>1, <1>3
    <3>3. Key(h, n, i) # k /\ (Leads(h, n, i, k) => Ptr(h, n, i) \in S \cup {NULL})
      BY <3>1, <3>2 DEF On
    <3> QED
      BY <3>2, <3>3 DEF Leads
  <2>2. S \cup {top} \subseteq DOMAIN u
    BY <1>1 DEF On
  <2> QED
    BY <2>1, <2>2 DEF On
<1> QED
  BY <1>5, <1>6, <1>8, <1>9, <1>10

-----------------------------------------------------------------------------
\* A value added to a key changes neither keys nor pointers.
LEMMA SameShape ==
  ASSUME NEW h, IsHeap(h), NEW g, DOMAIN g = DOMAIN h, \A n \in DOMAIN h : SameNode(h, g, n),
         NEW r, Tree(h, r), Shaped(h), Bounded(h), NEW f, Spanned(h, r, f)
  PROVE  Tree(g, r) /\ Shaped(g) /\ Bounded(g) /\ Spanned(g, r, f)
<1>1. \A n \in DOMAIN h :
        /\ Size(g, n) = Size(h, n)
        /\ \A i \in 0 .. Size(h, n) : Ptr(g, n, i) = Ptr(h, n, i)
        /\ \A i \in 1 .. Size(h, n) : Key(g, n, i) = Key(h, n, i)
  BY DEF SameNode
<1>2. \A n \in DOMAIN h : \A i \in 1 .. Size(h, n) :
        Ptr(g, n, i) = Ptr(h, n, i) /\ (i > 1 => Key(g, n, i - 1) = Key(h, n, i - 1))
  <2> SUFFICES ASSUME NEW n \in DOMAIN h, NEW i \in 1 .. Size(h, n)
               PROVE  Ptr(g, n, i) = Ptr(h, n, i) /\ (i > 1 => Key(g, n, i - 1) = Key(h, n, i - 1))
    OBVIOUS
  <2>1. Size(h, n) \in Nat
    BY HeapFacts
  <2>2. i \in 0 .. Size(h, n) /\ (i > 1 => i - 1 \in 1 .. Size(h, n))
    BY <2>1
  <2> QED
    BY <2>2, <1>1
<1>3. ASSUME NEW S \in SUBSET DOMAIN h, Closes(g, S) PROVE Closes(h, S)
  BY <1>1, <1>3 DEF Closes
<1>4. Tree(g, r)
  <2>1. \A n \in DOMAIN g : \A i \in 0 .. Size(g, n) : Ptr(g, n, i) \in (DOMAIN g \ {r}) \cup {NULL}
    BY <1>1 DEF Tree
  <2>2. ASSUME NEW n \in DOMAIN g, NEW m \in DOMAIN g, NEW i \in 0 .. Size(g, n), NEW j \in 0 .. Size(g, m),
               Ptr(g, n, i) # NULL, Ptr(g, n, i) = Ptr(g, m, j)
        PROVE  n = m /\ i = j
    <3>1. i \in 0 .. Size(h, n) /\ j \in 0 .. Size(h, m) /\ Ptr(h, n, i) # NULL /\ Ptr(h, n, i) = Ptr(h, m, j)
      BY <2>2, <1>1
    <3> QED
      BY <3>1 DEF Tree
  <2>3. \A S \in SUBSET DOMAIN g : r \in S /\ Closes(g, S) => S = DOMAIN g
    BY <1>3 DEF Tree
  <2>4. r \in DOMAIN g \cup {NULL} /\ (r = NULL => DOMAIN g = {})
    BY DEF Tree
  <2> QED
    BY <2>1, <2>2, <2>3, <2>4 DEF Tree
<1>5. Shaped(g)
  BY <1>1 DEF Shaped, InOrder
<1>6. Bounded(g)
  <2> SUFFICES ASSUME NEW n \in DOMAIN h, NEW c \in DOMAIN h, NEW j \in 1 .. Size(h, n), Ptr(h, n, j) = c,
                      NEW x \in 1 .. Size(h, c), x < Size(h, c) \/ Ptr(h, c, x) # NULL
               PROVE  Key(h, c, x) < Key(h, n, j)
    BY <1>1, <1>2 DEF Bounded
  <2> QED
    BY DEF Bounded
<1>7. Spanned(g, r, f)
  <2>1. \A n \in DOMAIN h : \A i \in 1 .. Size(h, n) : Span(g, f, n, i) = Span(h, f, n, i)
    BY <1>2 DEF Span
  <2>2. ASSUME NEW n \in DOMAIN g, NEW c \in DOMAIN g, NEW j \in 1 .. Size(g, n), Ptr(g, n, j) = c
        PROVE  f[c] = Span(g, f, n, j)
    <3>1. j \in 1 .. Size(h, n) /\ Ptr(h, n, j) = c
      BY <2>2, <1>1, <1>2
    <3> QED
      BY <3>1, <2>1 DEF Spanned
  <2>3. f \in [DOMAIN g -> SUBSET BKeys] /\ (r # NULL => f[r] = BKeys)
    BY DEF Spanned
  <2>4. \A n \in DOMAIN g : \A i \in 1 .. Size(g, n) : Key(g, n, i) \in f[n]
    BY <1>1 DEF Spanned
  <2> QED
    BY <2>2, <2>3, <2>4 DEF Spanned
<1> QED
  BY <1>4, <1>5, <1>6, <1>7

\* The tree of one node with one key, and the tree without any.
LEMMA OneNode ==
  ASSUME NEW a \in BAddress, NEW e \in BKey, e.left = NULL,
         NEW g, g = [x \in {a} |-> [keys |-> <<e>>, child |-> NULL]]
  PROVE  /\ IsHeap(g) /\ Tree(g, a) /\ Shaped(g) /\ Bounded(g)
         /\ Spanned(g, a, [x \in {a} |-> BKeys])
<1>1. DOMAIN g = {a} /\ g[a] = [keys |-> <<e>>, child |-> NULL]
  OBVIOUS
<1>2. a # NULL /\ Full >= 1 /\ Full \in Nat
  BY BKeysAssumption, Factors
<1>3. Size(g, a) = 1 /\ Ptr(g, a, 0) = NULL /\ Ptr(g, a, 1) = NULL /\ Key(g, a, 1) = e.key
  BY <1>1 DEF Size, Ptr, Key
<1>4. e.key \in BKeys
  BY DEF BKey
<1>5. IsHeap(g)
  <2>1. <<e>> \in Seq(BKey)
    OBVIOUS
  <2>2. [keys |-> <<e>>, child |-> NULL] \in BNode
    BY <2>1 DEF BNode
  <2> QED
    BY <2>2 DEF IsHeap
<1>6. \A n \in DOMAIN g : n = a
  BY <1>1
<1>7. /\ \A i \in 0 .. Size(g, a) : Ptr(g, a, i) = NULL
      /\ \A i \in 1 .. Size(g, a) : i = 1 /\ Ptr(g, a, i) = NULL
  BY <1>3
<1>8. Tree(g, a)
  <2>1. \A n \in DOMAIN g : \A i \in 0 .. Size(g, n) : Ptr(g, n, i) = NULL
    BY <1>6, <1>7
  <2>2. \A S \in SUBSET DOMAIN g : a \in S => S = DOMAIN g
    BY <1>1
  <2> QED
    BY <2>1, <2>2, <1>1, <1>2 DEF Tree
<1>9. Shaped(g)
  BY <1>2, <1>3, <1>6, <1>7 DEF Shaped, InOrder
<1>10. Bounded(g)
  BY <1>1, <1>2, <1>6, <1>7 DEF Bounded
<1>11. Spanned(g, a, [x \in {a} |-> BKeys])
  BY <1>1, <1>2, <1>3, <1>4, <1>6, <1>7 DEF Spanned
<1> QED
  BY <1>5, <1>8, <1>9, <1>10, <1>11

LEMMA NoNode ==
  ASSUME NEW g, DOMAIN g = {}, \A S : g \in [{} -> S]
  PROVE  /\ IsHeap(g) /\ Tree(g, NULL) /\ Shaped(g) /\ Bounded(g)
         /\ Spanned(g, NULL, g)
<1>1. DOMAIN g = {}
  OBVIOUS
<1>2. IsHeap(g)
  BY DEF IsHeap
<1>3. Tree(g, NULL)
  BY DEF Tree
<1>4. Shaped(g) /\ Bounded(g)
  BY DEF Shaped, Bounded
<1>5. Spanned(g, NULL, g)
  BY DEF Spanned
<1> QED
  BY <1>2, <1>3, <1>4, <1>5

LEMMA EmptyFacts == DOMAIN <<>> = {} /\ \A S : <<>> \in [{} -> S]
<1>1. \A S : <<>> \in Seq(S)
  OBVIOUS
<1>2. Len(<<>>) = 0 /\ 1 .. 0 = {}
  OBVIOUS
<1>3. \A S : \A s \in Seq(S) : s \in [1 .. Len(s) -> S]
  OBVIOUS
<1>4. \A S : <<>> \in [1 .. 0 -> S]
  BY <1>1, <1>2, <1>3
<1> QED
  BY <1>2, <1>4

-----------------------------------------------------------------------------
\* The tree of the state.

LEMMA Meant ==
  ASSUME NEW n
  PROVE  /\ B!NumKeys(n) = Size(b_nodes, n) /\ B!KeysOf(n) = b_nodes[n].keys
         /\ \A i : B!KeysOf(n)[i].key = Key(b_nodes, n, i)
         /\ \A i : i # 0 => B!KeysOf(n)[i].left = Ptr(b_nodes, n, i)
         /\ b_nodes[n].child = Ptr(b_nodes, n, 0)
BY DEF B!NumKeys, B!KeysOf, Size, Key, Ptr

LEMMA AtFacts ==
  ASSUME IsHeap(b_nodes), NEW n \in DOMAIN b_nodes, InOrder(b_nodes, n), NEW k \in BKeys
  PROVE  /\ B!At(n, k) \in 1 .. Size(b_nodes, n) + 1 /\ B!After(n, k) \in 1 .. Size(b_nodes, n) + 1
         /\ \A i \in 1 .. Size(b_nodes, n) : /\ i < B!At(n, k) => Key(b_nodes, n, i) < k
                                             /\ i >= B!At(n, k) => Key(b_nodes, n, i) >= k
         /\ \A i \in 1 .. Size(b_nodes, n) : /\ i < B!After(n, k) => Key(b_nodes, n, i) <= k
                                             /\ i >= B!After(n, k) => Key(b_nodes, n, i) > k
<1> DEFINE s == b_nodes[n].keys
           c == Cardinality({i \in 1 .. Len(s) : s[i].key < k}) + 1
           d == Cardinality({i \in 1 .. Len(s) : s[i].key <= k}) + 1
<1>1. s \in Seq(BKey)
  BY HeapFacts
<1>2. Ascending(s)
  BY DEF Ascending, InOrder, Size, Key
<1>3. k \in Int
  BY BKeysAssumption
<1>4. B!At(n, k) = c /\ B!After(n, k) = d
  BY SameCount DEF B!At, B!After, B!NumKeys, B!KeysOf
<1> HIDE DEF s
<1>5. /\ c \in 1 .. Len(s) + 1 /\ d \in 1 .. Len(s) + 1
      /\ \A i \in 1 .. Len(s) : (i < c => s[i].key < k) /\ (i >= c => s[i].key >= k)
      /\ \A i \in 1 .. Len(s) : (i < d => s[i].key <= k) /\ (i >= d => s[i].key > k)
  BY <1>1, <1>2, <1>3, CountBelow
<1> HIDE DEF c, d
<1> QED
  BY <1>4, <1>5 DEF Size, Key, s

\* Where a key that the node does not have belongs.
LEMMA AtPlace ==
  ASSUME IsHeap(b_nodes), NEW n \in DOMAIN b_nodes, InOrder(b_nodes, n), NEW k \in BKeys,
         \A i \in 1 .. Size(b_nodes, n) : Key(b_nodes, n, i) # k
  PROVE  PlaceOf(b_nodes, n, B!At(n, k), k) /\ B!After(n, k) = B!At(n, k)
<1> DEFINE s == Size(b_nodes, n)
           c == B!At(n, k)
           d == B!After(n, k)
           A(i) == Key(b_nodes, n, i)
<1>1. /\ c \in 1 .. s + 1 /\ d \in 1 .. s + 1
      /\ \A i \in 1 .. s : (i < c => A(i) < k) /\ (i >= c => A(i) >= k)
      /\ \A i \in 1 .. s : (i < d => A(i) <= k) /\ (i >= d => A(i) > k)
  BY AtFacts
<1>2. s \in Nat /\ k \in Int /\ \A i \in 1 .. s : A(i) \in Int /\ A(i) # k
  BY HeapFacts, BKeysAssumption
<1> SUFFICES c \in 1 .. s + 1 /\ (\A i \in 1 .. s : (i < c => A(i) < k) /\ (i >= c => k < A(i))) /\ d = c
  BY DEF PlaceOf
<1> HIDE DEF s, c, d, A
<1>3. \A i \in 1 .. s : (i < c => A(i) < k) /\ (i >= c => k < A(i))
  BY <1>1, <1>2
<1>4. ~(d < c)
  <2> SUFFICES ASSUME d < c PROVE FALSE
    OBVIOUS
  <2>1. d \in 1 .. s /\ d >= d
    BY <1>1, <1>2
  <2> QED
    BY <2>1, <1>1, <1>2
<1>5. ~(c < d)
  <2> SUFFICES ASSUME c < d PROVE FALSE
    OBVIOUS
  <2>1. c \in 1 .. s /\ c >= c
    BY <1>1, <1>2
  <2> QED
    BY <2>1, <1>1, <1>2
<1> QED
  BY <1>1, <1>2, <1>3, <1>4, <1>5

LEMMA ClosedMeant ==
  ASSUME IsHeap(b_nodes), NEW S \in SUBSET DOMAIN b_nodes
  PROVE  B!Closed(S) <=> Closes(b_nodes, S)
<1>1. ASSUME NEW n \in DOMAIN b_nodes
      PROVE  B!Subtrees(n) = {Ptr(b_nodes, n, i) : i \in 0 .. Size(b_nodes, n)}
  <2> DEFINE s == Size(b_nodes, n)
             P(i) == Ptr(b_nodes, n, i)
  <2>1. s \in Nat
    BY HeapFacts
  <2>2. B!Subtrees(n) = {P(0)} \cup {B!KeysOf(n)[i].left : i \in 1 .. s}
    BY Meant DEF B!Subtrees
  <2>3. \A i \in 1 .. s : i # 0 /\ B!KeysOf(n)[i].left = P(i)
    <3>1. \A i \in 1 .. s : i # 0
      BY <2>1
    <3> QED
      BY <3>1, Meant
  <2> HIDE DEF s, P
  <2>4. {B!KeysOf(n)[i].left : i \in 1 .. s} = {P(i) : i \in 1 .. s}
    BY <2>3
  <2>5. {P(0)} \cup {P(i) : i \in 1 .. s} = {P(i) : i \in 0 .. s}
    BY <2>1
  <2> QED
    BY <2>2, <2>4, <2>5 DEF s, P
<1> QED
  BY <1>1 DEF B!Closed, Closes

LEMMA ReachableMeant ==
  ASSUME IsHeap(b_nodes), Tree(b_nodes, b_root)
  PROVE  B!Reachable = B!Allocated
<1>1. ASSUME NEW n \in DOMAIN b_nodes
      PROVE  b_root # NULL /\ \A S \in SUBSET DOMAIN b_nodes : b_root \in S /\ B!Closed(S) => n \in S
  BY <1>1, ClosedMeant DEF Tree
<1> QED
  BY <1>1 DEF B!Reachable, B!Allocated

LEMMA OneTreeMeant ==
  ASSUME IsHeap(b_nodes), Tree(b_nodes, b_root)
  PROVE  B!OneTree
<1>1. ASSUME NEW p \in B!Pointers
      PROVE  \E n \in DOMAIN b_nodes : \E i \in 0 .. Size(b_nodes, n) :
               p = <<n, i>> /\ B!Target(p) = Ptr(b_nodes, n, i) /\ B!Target(p) # NULL
  <2>1. p \in B!Allocated \X (0 .. Full) /\ p[2] <= B!NumKeys(p[1]) /\ B!Target(p) # NULL
    BY DEF B!Pointers
  <2>2. PICK n \in DOMAIN b_nodes : \E i \in 0 .. Full : p = <<n, i>>
    BY <2>1 DEF B!Allocated
  <2>3. PICK i \in 0 .. Full : p = <<n, i>>
    BY <2>2
  <2>4. p[1] = n /\ p[2] = i
    BY <2>3
  <2>5. Size(b_nodes, n) \in Nat
    BY HeapFacts
  <2>6. i \in 0 .. Size(b_nodes, n)
    BY <2>1, <2>4, <2>5, Factors, Meant
  <2>7. B!Target(p) = Ptr(b_nodes, n, i)
    BY <2>4 DEF B!Target, B!KeysOf, Ptr
  <2> QED
    BY <2>1, <2>3, <2>6, <2>7
<1>2. ASSUME NEW p \in B!Pointers
      PROVE  B!Target(p) # b_root
  <2>1. PICK n \in DOMAIN b_nodes : \E i \in 0 .. Size(b_nodes, n) :
               p = <<n, i>> /\ B!Target(p) = Ptr(b_nodes, n, i) /\ B!Target(p) # NULL
    BY <1>1
  <2>2. PICK i \in 0 .. Size(b_nodes, n) : B!Target(p) = Ptr(b_nodes, n, i) /\ B!Target(p) # NULL
    BY <2>1
  <2> QED
    BY <2>2 DEF Tree
<1>3. ASSUME NEW p \in B!Pointers, NEW q \in B!Pointers, B!Target(p) = B!Target(q)
      PROVE  p = q
  <2>1. PICK n \in DOMAIN b_nodes : \E i \in 0 .. Size(b_nodes, n) :
               p = <<n, i>> /\ B!Target(p) = Ptr(b_nodes, n, i) /\ B!Target(p) # NULL
    BY <1>1
  <2>2. PICK i \in 0 .. Size(b_nodes, n) : p = <<n, i>> /\ B!Target(p) = Ptr(b_nodes, n, i) /\ B!Target(p) # NULL
    BY <2>1
  <2>3. PICK m \in DOMAIN b_nodes : \E j \in 0 .. Size(b_nodes, m) :
               q = <<m, j>> /\ B!Target(q) = Ptr(b_nodes, m, j) /\ B!Target(q) # NULL
    BY <1>1
  <2>4. PICK j \in 0 .. Size(b_nodes, m) : q = <<m, j>> /\ B!Target(q) = Ptr(b_nodes, m, j) /\ B!Target(q) # NULL
    BY <2>3
  <2>5. Ptr(b_nodes, n, i) # NULL /\ Ptr(b_nodes, n, i) = Ptr(b_nodes, m, j)
    BY <2>2, <2>4, <1>3
  <2>6. n = m /\ i = j
    BY <2>5 DEF Tree
  <2> QED
    BY <2>2, <2>4, <2>6
<1>4. B!Reachable = B!Allocated
  BY ReachableMeant
<1> QED
  BY <1>2, <1>3, <1>4 DEF B!OneTree

-----------------------------------------------------------------------------
\* The inductive invariant.

\* Where k may be put: below the key that the node hangs before, or no key of the node
\* is above that one.
Fits(h, c, k) ==
  \A n \in DOMAIN h : \A j \in 1 .. Size(h, n) : Ptr(h, n, j) = c =>
    k < Key(h, n, j) \/ \A x \in 1 .. Size(h, c) : Key(h, c, x) < Key(h, n, j)

BCalled ==
  /\ b_pc \in {"search", "insert"} => b_call.key \in BKeys /\ (b_call.op = "add" => b_call.value \in BValues)
  /\ b_pc = "insert" => b_call.op = "add"

BSpanned == \E f : /\ Spanned(b_nodes, b_root, f)
                   /\ b_pc = "insert" /\ b_node # NULL => b_call.key \in f[b_node]

BSearching ==
  b_pc = "search" =>
    /\ b_node \in DOMAIN b_nodes \cup {NULL}
    /\ \E S : b_root \in S \cup {b_node, NULL} /\ On(b_nodes, b_call.key, S, S \cup {b_node})

BInserting ==
  b_pc = "insert" =>
    /\ b_root = NULL => b_node = NULL
    /\ b_root # NULL =>
         /\ b_node \in DOMAIN b_nodes
         /\ b_node # b_root => Size(b_nodes, b_node) # Full
         /\ Fits(b_nodes, b_node, b_call.key)
         /\ \E S : b_node \in S /\ On(b_nodes, b_call.key, S, S)

BInv == /\ IsHeap(b_nodes) /\ Tree(b_nodes, b_root) /\ Shaped(b_nodes) /\ Bounded(b_nodes)
        /\ BCalled /\ BSpanned /\ BSearching /\ BInserting

\* What the steps do to the nodes: splitChild(), a key that is put into a node, a value that
\* is added to a key.
Divided(h, g) == \E p, j, c, new : SplitOf(h, g, p, j, c, new) /\ Carried(h, g, p, j, c, new)

Topping(h, u) == \E top : /\ IsHeap(u) /\ DOMAIN u = DOMAIN h \cup {top} /\ top \notin DOMAIN h
                          /\ Size(u, top) = 0
                          /\ \A n \in DOMAIN h : u[n] = h[n]

Extended(h, g, e) == \E n \in DOMAIN h : \E m \in 1 .. Size(h, n) + 1 :
                       PutKey(h, g, n, m, e.key) /\ Equipped(h, g, n, m, e.values)

Refilled(h, g, n, j, vs) ==
  /\ n \in DOMAIN h /\ j \in 1 .. Size(h, n)
  /\ DOMAIN g = DOMAIN h /\ \A o \in DOMAIN h : SameNode(h, g, o)
  /\ Arrays(g, n, j) = vs
  /\ \A o \in DOMAIN h : \A i \in 1 .. Size(h, o) :
       Arrays(g, o, i) = Arrays(h, o, i) \/ (o = n /\ i = j)

LEMMA BIdle ==
  ASSUME IsHeap(b_nodes'), Tree(b_nodes', b_root'), Shaped(b_nodes'), Bounded(b_nodes'),
         \E f : Spanned(b_nodes', b_root', f), b_pc' \notin {"search", "insert"}
  PROVE  BInv'
BY DEF BInv, BCalled, BSpanned, BSearching, BInserting

LEMMA BQuiet ==
  ASSUME BInv, UNCHANGED <<b_nodes, b_root>>, b_pc' \notin {"search", "insert"}
  PROVE  BInv'
<1>1. \E f : Spanned(b_nodes', b_root', f)
  BY DEF BInv, BSpanned
<1> QED
  BY <1>1, BIdle DEF BInv

LEMMA BInitial == B!Init => BInv
<1> SUFFICES ASSUME B!Init PROVE BInv
  OBVIOUS
<1>1. b_nodes = <<>> /\ b_root = NULL /\ b_pc = "idle"
  BY DEF B!Init
<1>2. DOMAIN b_nodes = {} /\ \A S : b_nodes \in [{} -> S]
  BY <1>1, EmptyFacts
<1>3. /\ IsHeap(b_nodes) /\ Tree(b_nodes, NULL) /\ Shaped(b_nodes) /\ Bounded(b_nodes)
      /\ Spanned(b_nodes, NULL, b_nodes)
  BY <1>2, NoNode
<1> QED
  BY <1>1, <1>3 DEF BInv, BCalled, BSpanned, BSearching, BInserting

LEMMA BInvoke ==
  ASSUME BInv, NEW c \in B!Calls, B!Invoke(c)
  PROVE  BInv'
<1>1. /\ UNCHANGED <<b_nodes, b_root>> /\ b_call' = c /\ b_node' = b_root
      /\ (c.op \in B!Searches => b_pc' = "search")
      /\ (c.op \notin B!Searches => b_pc' \notin {"search", "insert"})
  BY DEF B!Invoke, B!Searches
<1>2. CASE c.op \notin B!Searches
  BY <1>1, <1>2, BQuiet
<1>3. CASE c.op \in B!Searches
  <2>1. b_pc' = "search"
    BY <1>1, <1>3
  <2>2. c.key \in BKeys /\ (c.op = "add" => c.value \in BValues)
    BY <1>3 DEF B!Calls, B!Searches
  <2>3. BCalled' /\ BInserting'
    BY <2>1, <2>2, <1>1 DEF BCalled, BInserting
  <2>4. BSpanned'
    BY <2>1, <1>1 DEF BInv, BSpanned
  <2>5. BSearching'
    <3>1. b_node' \in DOMAIN b_nodes' \cup {NULL}
      BY <1>1 DEF BInv, Tree
    <3>2. On(b_nodes', b_call'.key, {}, {} \cup {b_node'})
      BY DEF On
    <3>3. b_root' \in {} \cup {b_node', NULL}
      BY <1>1
    <3> QED
      BY <3>1, <3>2, <3>3 DEF BSearching
  <2> QED
    BY <2>3, <2>4, <2>5, <1>1 DEF BInv
<1> QED
  BY <1>2, <1>3

LEMMA BFollow ==
  ASSUME BInv, B!Follow
  PROVE  BInv'
<1> DEFINE h == b_nodes
           n == b_node
           k == b_call.key
           j == B!At(n, k)
<1>1. /\ b_pc = "search" /\ n # NULL /\ ~B!Found /\ b_node' = B!Below(n, k)
      /\ UNCHANGED <<b_root, b_nodes, b_pc, b_call>>
  BY DEF B!Follow, B!Searching
<1>2. /\ IsHeap(h) /\ Tree(h, b_root) /\ n \in DOMAIN h /\ InOrder(h, n) /\ k \in BKeys
  BY <1>1 DEF BInv, Shaped, BSearching, BCalled
<1>3. PICK S : b_root \in S \cup {n, NULL} /\ On(h, k, S, S \cup {n})
  BY <1>1 DEF BInv, BSearching
<1>4. Size(h, n) \in Nat /\ k \in Int /\ \A i \in 1 .. Size(h, n) : Key(h, n, i) \in Int
  BY <1>2, HeapFacts, BKeysAssumption
<1>5. /\ j \in 1 .. Size(h, n) + 1
      /\ \A i \in 1 .. Size(h, n) : /\ i < j => Key(h, n, i) < k
                                    /\ i >= j => Key(h, n, i) >= k
  BY <1>2, AtFacts
<1>6. j \in 1 .. Size(h, n) => Key(h, n, j) # k
  <2>1. ~(j <= Size(h, n) /\ Key(h, n, j) = k)
    BY <1>1, Meant DEF B!Found
  <2> QED
    BY <2>1
<1>7. b_node' = IF j > Size(h, n) THEN Ptr(h, n, 0) ELSE Ptr(h, n, j)
  <2>1. j # 0
    BY <1>4, <1>5
  <2>2. B!Below(n, k) = IF j > B!NumKeys(n) THEN b_nodes[n].child ELSE B!KeysOf(n)[j].left
    BY DEF B!Below
  <2> HIDE DEF j, k, n
  <2> QED
    BY <2>1, <2>2, <1>1, Meant
<1> DEFINE m == b_node'
<1>8. m \in DOMAIN h \cup {NULL}
  <2>1. j > Size(h, n) \/ j \in 0 .. Size(h, n)
    BY <1>4, <1>5
  <2>2. 0 \in 0 .. Size(h, n)
    BY <1>4
  <2> HIDE DEF j
  <2> QED
    BY <2>1, <2>2, <1>2, <1>7 DEF Tree
<1>9. \A i \in 1 .. Size(h, n) : Key(h, n, i) # k /\ (Leads(h, n, i, k) => Ptr(h, n, i) = m)
  <2> DEFINE s    == Size(h, n)
             A(i) == Key(h, n, i)
             P(i) == Ptr(h, n, i)
  <2>1. s \in Nat /\ k \in Int /\ \A i \in 1 .. s : A(i) \in Int
    BY <1>4
  <2>2. j \in 1 .. s + 1 /\ \A i \in 1 .. s : (i < j => A(i) < k) /\ (i >= j => A(i) >= k)
    BY <1>5
  <2>3. \A i, x \in 1 .. s : i < x => A(i) < A(x)
    BY <1>2 DEF InOrder
  <2>4. j \in 1 .. s => A(j) # k /\ m = P(j)
    BY <1>6, <1>7, <2>1
  <2> SUFFICES ASSUME NEW i \in 1 .. s
               PROVE  A(i) # k /\ (k < A(i) /\ (i > 1 => A(i - 1) < k) => P(i) = m)
    BY DEF Leads
  <2> HIDE DEF s, A, P, k, j, m
  <2>5. CASE i < j
    BY <2>1, <2>2, <2>5
  <2>6. CASE i = j
    BY <2>4, <2>6
  <2>7. CASE i > j
    <3>1. j \in 1 .. s /\ j >= j /\ i - 1 \in 1 .. s /\ i - 1 >= j /\ i > 1
      BY <2>1, <2>2, <2>7
    <3>2. A(j) >= k /\ A(j) < A(i) /\ A(i - 1) >= k /\ A(j) \in Int /\ A(i - 1) \in Int
      BY <3>1, <2>1, <2>2, <2>3, <2>7
    <3> QED
      BY <3>1, <3>2, <2>1
  <2> QED
    BY <2>1, <2>2, <2>5, <2>6, <2>7
<1> DEFINE R == S \cup {n}
<1> HIDE DEF m, j
<1>10. On(h, k, R, R \cup {m})
  <2>1. R \subseteq DOMAIN h
    BY <1>2, <1>3 DEF On
  <2>2. ASSUME NEW o \in R, NEW i \in 1 .. Size(h, o)
        PROVE  Key(h, o, i) # k /\ (Leads(h, o, i, k) => Ptr(h, o, i) \in R \cup {m} \cup {NULL})
    <3>1. CASE o = n
      BY <3>1, <1>9
    <3>2. CASE o \in S
      BY <3>2, <1>3 DEF On
    <3> QED
      BY <3>1, <3>2
  <2> QED
    BY <2>1, <2>2 DEF On
<1>11. b_root \in R \cup {m, NULL}
  BY <1>3
<1>12. BSearching'
  BY <1>1, <1>8, <1>10, <1>11 DEF BSearching, m
<1>13. BCalled' /\ BInserting'
  BY <1>1 DEF BInv, BCalled, BInserting
<1>14. BSpanned'
  BY <1>1 DEF BInv, BSpanned
<1> QED
  BY <1>1, <1>12, <1>13, <1>14 DEF BInv

LEMMA BStart ==
  ASSUME BInv, B!StartInsert
  PROVE  BInv'
<1> DEFINE h == b_nodes
           r == b_root
           k == b_call.key
<1>1. /\ b_pc = "search" /\ b_call.op = "add" /\ b_node = NULL /\ b_pc' = "insert" /\ b_node' = r
      /\ UNCHANGED <<b_root, b_nodes, b_call>>
  BY DEF B!StartInsert, B!Searching
<1>2. IsHeap(h) /\ Tree(h, r) /\ k \in BKeys /\ b_call.value \in BValues /\ NULL \notin DOMAIN h
  BY <1>1, BKeysAssumption DEF BInv, BCalled, IsHeap
<1>3. PICK S : r \in S \cup {b_node, NULL} /\ On(h, k, S, S \cup {b_node})
  BY <1>1 DEF BInv, BSearching
<1>4. r # NULL => r \in S /\ On(h, k, S, S)
  BY <1>1, <1>3 DEF On
<1>5. ASSUME r # NULL
      PROVE  r \in DOMAIN h /\ Fits(h, r, k)
  <2>1. ASSUME NEW n \in DOMAIN h, NEW i \in 1 .. Size(h, n)
        PROVE  Ptr(h, n, i) # r
    <3>1. Size(h, n) \in Nat
      BY <1>2, HeapFacts
    <3>2. i \in 0 .. Size(h, n)
      BY <3>1
    <3> QED
      BY <3>2, <1>2, <1>5 DEF Tree
  <2> QED
    BY <2>1, <1>2, <1>5 DEF Tree, Fits
<1>6. BInserting'
  BY <1>1, <1>4, <1>5 DEF BInserting
<1>7. BSpanned'
  <2>1. PICK f : Spanned(h, r, f)
    BY DEF BInv, BSpanned
  <2>2. r # NULL => k \in f[r]
    BY <2>1, <1>2 DEF Spanned
  <2> QED
    BY <2>1, <2>2, <1>1 DEF BSpanned
<1>8. BCalled' /\ BSearching'
  BY <1>1, <1>2 DEF BCalled, BSearching
<1> QED
  BY <1>1, <1>6, <1>7, <1>8 DEF BInv

LEMMA NewKeyFacts ==
  ASSUME b_call.key \in BKeys, b_call.value \in BValues
  PROVE  B!NewKey \in BKey /\ B!NewKey.left = NULL /\ B!NewKey.key = b_call.key
<1>1. B!NewArray(b_call.value, 1) \in BArray
  BY UninitAssumption DEF B!NewArray, BArray
<1>2. B!WithValue(<<>>, b_call.value, 1) = <<B!NewArray(b_call.value, 1)>>
  BY DEF B!WithValue
<1>3. B!WithValue(<<>>, b_call.value, 1) \in Seq(BArray)
  <2>1. PICK z : z = B!NewArray(b_call.value, 1)
    OBVIOUS
  <2>2. <<z>> \in Seq(BArray)
    BY <2>1, <1>1
  <2> QED
    BY <2>1, <2>2, <1>2
<1> QED
  BY <1>3 DEF B!NewKey, BKey

LEMMA FreshFacts ==
  /\ B!Free # {} => B!Fresh \in BAddress \ DOMAIN b_nodes
  /\ (\E a, b \in B!Free : a # b) =>
        LET new == CHOOSE a \in B!Free : a # B!Fresh IN new \in BAddress \ DOMAIN b_nodes /\ new # B!Fresh
<1> DEFINE F   == B!Free
           x   == B!Fresh
           new == CHOOSE a \in F : a # x
<1>1. F = BAddress \ DOMAIN b_nodes
  BY DEF B!Free, B!Allocated
<1>2. x = CHOOSE a \in F : TRUE
  BY DEF B!Fresh
<1> SUFFICES (F # {} => x \in F) /\ ((\E a, b \in F : a # b) => new \in F /\ new # x)
  BY <1>1
<1>3. F # {} => x \in F
  BY <1>2
<1> HIDE DEF F, x
<1>4. (\E a, b \in F : a # b) => \E a \in F : a # x
  OBVIOUS
<1>5. (\E a \in F : a # x) => new \in F /\ new # x
  OBVIOUS
<1> QED
  BY <1>3, <1>4, <1>5

LEMMA BCreate ==
  ASSUME BInv, B!CreateRoot
  PROVE  /\ BInv' /\ DOMAIN b_nodes = {} /\ B!NewKey \in BKey
         /\ \E a : b_nodes' = [x \in {a} |-> [keys |-> <<B!NewKey>>, child |-> NULL]]
<1> DEFINE a == B!Fresh
           e == B!NewKey
<1>1. /\ b_pc = "insert" /\ b_node = NULL /\ B!Free # {} /\ b_root' = a /\ b_pc' = "idle"
      /\ b_nodes' = B!WithNode(b_nodes, a, [keys |-> <<e>>, child |-> NULL])
  BY DEF B!CreateRoot, B!Inserting, B!Return
<1>2. a \in BAddress
  BY <1>1, FreshFacts
<1>3. e \in BKey /\ e.left = NULL
  BY <1>1, NewKeyFacts DEF BInv, BCalled
<1>4. DOMAIN b_nodes = {}
  <2>1. NULL \notin DOMAIN b_nodes
    BY BKeysAssumption DEF BInv, IsHeap
  <2> QED
    BY <2>1, <1>1 DEF BInv, BInserting, Tree
<1> DEFINE z == [x \in {a} |-> [keys |-> <<e>>, child |-> NULL]]
<1>5. b_nodes' = z
  BY <1>1, <1>4 DEF B!WithNode
<1>6. \E g : g = z
  OBVIOUS
<1>7. PICK g : g = z
  BY <1>6
<1>8. \E x : b_nodes' = [y \in {x} |-> [keys |-> <<B!NewKey>>, child |-> NULL]]
  BY <1>5
<1> HIDE DEF e, a
<1>9. /\ IsHeap(g) /\ Tree(g, a) /\ Shaped(g) /\ Bounded(g)
      /\ Spanned(g, a, [x \in {a} |-> BKeys])
  BY <1>2, <1>3, <1>7, OneNode
<1>10. BInv'
  BY <1>1, <1>5, <1>7, <1>9, BIdle
<1> QED
  BY <1>3, <1>4, <1>8, <1>10 DEF e

LEMMA BPut ==
  ASSUME BInv, B!InsertingHere, NEW m, PlaceOf(b_nodes, b_node, m, b_call.key),
         m <= Size(b_nodes, b_node) => Ptr(b_nodes, b_node, m) = NULL,
         b_nodes' = [b_nodes EXCEPT ![b_node].keys = InsertAt(b_nodes[b_node].keys, m, B!NewKey)],
         b_root' = b_root, b_pc' = "idle"
  PROVE  BInv' /\ Extended(b_nodes, b_nodes', B!NewKey)
<1> DEFINE h == b_nodes
           n == b_node
           k == b_call.key
           g == b_nodes'
<1>1. b_pc = "insert" /\ n # NULL /\ Size(h, n) # Full
  BY Meant DEF B!InsertingHere, B!Inserting
<1>2. /\ IsHeap(h) /\ Tree(h, b_root) /\ Shaped(h) /\ Bounded(h) /\ k \in BKeys
      /\ n \in DOMAIN h /\ Fits(h, n, k)
  BY <1>1 DEF BInv, BCalled, BInserting
<1>3. PICK f : Spanned(h, b_root, f) /\ k \in f[n]
  BY <1>1 DEF BInv, BSpanned
<1>4. B!NewKey \in BKey /\ B!NewKey.left = NULL /\ B!NewKey.key = k
  BY <1>1, NewKeyFacts DEF BInv, BCalled
<1>5. PICK e : e = B!NewKey
  OBVIOUS
<1>6. m \in 1 .. Size(h, n) + 1
  BY DEF PlaceOf
<1>7. g = [h EXCEPT ![n].keys = InsertAt(h[n].keys, m, e)]
  BY <1>5
<1> HIDE DEF h, n, k, g
<1>8. IsHeap(g) /\ PutKey(h, g, n, m, k) /\ Extended(h, g, e)
  <2>1. IsHeap(g) /\ PutKey(h, g, n, m, e.key) /\ Equipped(h, g, n, m, e.values)
    BY <1>2, <1>4, <1>5, <1>6, <1>7, PutMeant
  <2>2. Extended(h, g, e)
    BY <2>1, <1>2, <1>6 DEF Extended
  <2> QED
    BY <2>1, <2>2, <1>4, <1>5
<1>9. PlaceOf(h, n, m, k) /\ (m <= Size(h, n) => Ptr(h, n, m) = NULL)
  BY DEF h, n, k
<1>10. Tree(g, b_root)
  BY <1>2, <1>6, <1>8, PutTree
<1>11. Shaped(g)
  BY <1>1, <1>2, <1>8, <1>9, PutShaped
<1>12. Bounded(g)
  <2>1. \A o \in DOMAIN h : \A j \in 1 .. Size(h, o) : Ptr(h, o, j) = n =>
            k < Key(h, o, j) \/ \A x \in 1 .. Size(h, n) : Key(h, n, x) < Key(h, o, j)
    BY <1>2 DEF Fits
  <2> QED
    BY <2>1, <1>2, <1>8, <1>9, PutBounded
<1>13. Spanned(g, b_root, f)
  BY <1>2, <1>3, <1>8, <1>9, PutSpanned
<1>14. BInv'
  BY <1>8, <1>10, <1>11, <1>12, <1>13, BIdle DEF g
<1> QED
  BY <1>5, <1>8, <1>14 DEF g, h

\* What the key to insert meets in the node where it is inserted.
LEMMA InsertingFacts ==
  ASSUME BInv, B!InsertingHere
  PROVE  /\ b_pc = "insert" /\ b_node # NULL /\ b_node \in DOMAIN b_nodes
         /\ Size(b_nodes, b_node) # Full /\ InOrder(b_nodes, b_node) /\ b_call.key \in BKeys
         /\ B!At(b_node, b_call.key) \in 1 .. Size(b_nodes, b_node) + 1
         /\ PlaceOf(b_nodes, b_node, B!At(b_node, b_call.key), b_call.key)
         /\ B!After(b_node, b_call.key) = B!At(b_node, b_call.key)
<1>1. b_pc = "insert" /\ b_node # NULL /\ Size(b_nodes, b_node) # Full
  BY Meant DEF B!InsertingHere, B!Inserting
<1>2. b_node \in DOMAIN b_nodes /\ InOrder(b_nodes, b_node) /\ b_call.key \in BKeys /\ IsHeap(b_nodes)
  BY <1>1 DEF BInv, BInserting, BCalled, Shaped
<1>3. PICK S : b_node \in S /\ On(b_nodes, b_call.key, S, S)
  BY <1>1 DEF BInv, BInserting
<1>4. \A i \in 1 .. Size(b_nodes, b_node) : Key(b_nodes, b_node, i) # b_call.key
  BY <1>3 DEF On
<1>5. /\ PlaceOf(b_nodes, b_node, B!At(b_node, b_call.key), b_call.key)
      /\ B!After(b_node, b_call.key) = B!At(b_node, b_call.key)
  BY <1>2, <1>4, AtPlace
<1> QED
  BY <1>1, <1>2, <1>5 DEF PlaceOf

LEMMA BAppend ==
  ASSUME BInv, B!AppendKey
  PROVE  BInv' /\ Extended(b_nodes, b_nodes', B!NewKey)
<1> DEFINE s == b_nodes[b_node].keys
           e == B!NewKey
           m == Size(b_nodes, b_node) + 1
           j == B!At(b_node, b_call.key)
<1>1. /\ B!InsertingHere /\ j > Size(b_nodes, b_node)
      /\ b_nodes' = [b_nodes EXCEPT ![b_node].keys = Append(@, e)]
      /\ b_root' = b_root /\ b_pc' = "idle"
  BY Meant DEF B!AppendKey, B!Return
<1>2. /\ b_pc = "insert" /\ b_node \in DOMAIN b_nodes /\ j \in 1 .. Size(b_nodes, b_node) + 1
      /\ PlaceOf(b_nodes, b_node, j, b_call.key)
  BY <1>1, InsertingFacts
<1>3. s \in Seq(BKey) /\ Len(s) \in Nat /\ Size(b_nodes, b_node) = Len(s)
  BY <1>2, HeapFacts DEF BInv, Size
<1>4. j = m /\ m = Len(s) + 1
  BY <1>1, <1>2, <1>3
<1>5. e \in BKey
  BY <1>2, NewKeyFacts DEF BInv, BCalled
<1>6. Append(s, e) = InsertAt(s, m, e)
  <2> HIDE DEF s, e, m
  <2> DEFINE t == InsertAt(s, m, e)
  <2>1. m \in 1 .. Len(s) + 1 /\ m = Len(s) + 1
    BY <1>3, <1>4
  <2>2. /\ t \in Seq(BKey) /\ Len(t) = Len(s) + 1
        /\ \A i \in 1 .. Len(s) + 1 : t[i] = IF i < m THEN s[i] ELSE IF i = m THEN e ELSE s[i - 1]
    <3>1. s \in Seq(BKey) /\ m \in 1 .. Len(s) + 1 /\ e \in BKey
      BY <1>3, <1>5, <2>1
    <3> QED
      BY <3>1, InsertFacts DEF Inserted
  <2> DEFINE u == Append(s, e)
  <2>3. /\ u \in Seq(BKey) /\ Len(u) = Len(s) + 1
        /\ \A i \in 1 .. Len(s) + 1 : u[i] = IF i = Len(s) + 1 THEN e ELSE s[i]
    BY <1>3, <1>5
  <2> HIDE DEF t, u
  <2>4. \A i \in 1 .. Len(s) + 1 : t[i] = u[i]
    BY <2>1, <2>2, <2>3, <1>3
  <2>5. t = u
    <3>1. t = [i \in 1 .. Len(t) |-> t[i]] /\ u = [i \in 1 .. Len(u) |-> u[i]]
      BY <2>2, <2>3
    <3> QED
      BY <3>1, <2>2, <2>3, <2>4
  <2> QED
    BY <2>5 DEF t, u
<1>7. b_nodes' = [b_nodes EXCEPT ![b_node].keys = InsertAt(b_nodes[b_node].keys, m, B!NewKey)]
  BY <1>1, <1>6
<1>8. PlaceOf(b_nodes, b_node, m, b_call.key) /\ ~(m <= Size(b_nodes, b_node))
  BY <1>2, <1>3, <1>4
<1> HIDE DEF m
<1> QED
  BY <1>1, <1>7, <1>8, BPut

LEMMA BInsert ==
  ASSUME BInv, B!InsertBefore
  PROVE  BInv' /\ Extended(b_nodes, b_nodes', B!NewKey)
<1> DEFINE s == b_nodes[b_node].keys
           j == B!At(b_node, b_call.key)
           d == B!After(b_node, b_call.key)
<1>1. /\ B!InsertingHere /\ j <= Size(b_nodes, b_node) /\ B!KeysOf(b_node)[j].left = NULL
      /\ b_nodes' = [b_nodes EXCEPT ![b_node].keys =
                       IF d > Len(@) THEN @ ELSE B!InsertAt(@, d, B!NewKey)]
      /\ b_root' = b_root /\ b_pc' = "idle"
  BY Meant DEF B!InsertBefore, B!NotBelow, B!Return
<1>2. /\ b_pc = "insert" /\ b_node \in DOMAIN b_nodes /\ j \in 1 .. Size(b_nodes, b_node) + 1
      /\ PlaceOf(b_nodes, b_node, j, b_call.key) /\ d = j
  BY <1>1, InsertingFacts
<1>3. Len(s) \in Nat /\ Size(b_nodes, b_node) = Len(s)
  BY <1>2, HeapFacts DEF BInv, Size
<1>4. ~(d > Len(s)) /\ j # 0
  BY <1>1, <1>2, <1>3
<1>5. B!InsertAt(s, d, B!NewKey) = InsertAt(s, j, B!NewKey)
  BY <1>2, SameInsert
<1>6. b_nodes' = [b_nodes EXCEPT ![b_node].keys = InsertAt(b_nodes[b_node].keys, j, B!NewKey)]
  BY <1>1, <1>4, <1>5
<1>7. Ptr(b_nodes, b_node, j) = NULL
  BY <1>1, <1>4, Meant
<1> HIDE DEF j
<1> QED
  BY <1>1, <1>2, <1>6, <1>7, BPut

LEMMA BDescend ==
  ASSUME BInv, B!Descend
  PROVE  BInv' /\ (b_nodes' = b_nodes \/ Divided(b_nodes, b_nodes'))
<1> DEFINE h == b_nodes
           r == b_root
           n == b_node
           k == b_call.key
           j == B!At(n, k)
           c == Ptr(h, n, j)
           g == b_nodes'
<1>1. /\ B!InsertingHere /\ j <= Size(h, n) /\ b_root' = r /\ b_pc' = b_pc /\ b_call' = b_call
  BY Meant DEF B!Descend
<1>2. /\ b_pc = "insert" /\ n # NULL /\ n \in DOMAIN h
      /\ Size(h, n) # Full /\ InOrder(h, n) /\ k \in BKeys
      /\ j \in 1 .. Size(h, n) + 1 /\ PlaceOf(h, n, j, k)
  BY <1>1, InsertingFacts
<1>3. IsHeap(h) /\ Tree(h, r) /\ Shaped(h) /\ Bounded(h)
  BY DEF BInv
<1>4. Size(h, n) \in Nat /\ j \in 1 .. Size(h, n) /\ j \in 0 .. Size(h, n) /\ j # 0
  <2>1. Size(h, n) \in Nat
    BY <1>2, <1>3, HeapFacts
  <2> HIDE DEF h, n, j
  <2> QED
    BY <2>1, <1>1, <1>2
<1>5. /\ c # NULL /\ b_node' = c
      /\ g = IF Size(h, c) = Full THEN B!Split(h, n, c, B!Fresh) ELSE h
      /\ Size(h, c) = Full => B!Free # {}
  <2>1. B!NotBelow(n, k).left = c
    BY <1>4, Meant DEF B!NotBelow
  <2> HIDE DEF c
  <2> QED
    BY <2>1, Meant DEF B!Descend
<1>6. c \in DOMAIN h /\ c # r
  BY <1>2, <1>3, <1>4, <1>5 DEF Tree
<1>7. c # n
  \* a node that hangs below itself could be left out with all below it
  <2> SUFFICES ASSUME c = n PROVE FALSE
    OBVIOUS
  <2>1. n # r
    BY <1>6
  <2> DEFINE S == DOMAIN h \ {n}
  <2>2. Closes(h, S)
    <3> SUFFICES ASSUME NEW o \in S, NEW i \in 0 .. Size(h, o) PROVE Ptr(h, o, i) \in S \cup {NULL}
      BY DEF Closes
    <3>1. Ptr(h, o, i) \in DOMAIN h \cup {NULL}
      BY <1>3 DEF Tree
    <3>2. Ptr(h, o, i) # n
      <4> SUFFICES ASSUME Ptr(h, o, i) = n PROVE FALSE
        OBVIOUS
      <4>1. Ptr(h, n, j) # NULL /\ Ptr(h, n, j) = Ptr(h, o, i)
        BY <1>5
      <4> QED
        BY <4>1, <1>2, <1>3, <1>4 DEF Tree
    <3> QED
      BY <3>1, <3>2
  <2>3. r \in S
    BY <2>1, <1>2, <1>3 DEF Tree
  <2> QED
    BY <2>2, <2>3, <1>2, <1>3 DEF Tree
<1>8. PICK f : Spanned(h, r, f) /\ k \in f[n]
  BY <1>2 DEF BInv, BSpanned
<1>9. PICK S : n \in S /\ On(h, k, S, S)
  BY <1>2 DEF BInv, BInserting
<1>10. /\ \A i \in 1 .. Size(h, n) : (i < j => Key(h, n, i) < k) /\ (i >= j => k < Key(h, n, i))
       /\ k \in Int /\ \A i \in 1 .. Size(h, n) : Key(h, n, i) \in Int
  BY <1>2, <1>3, HeapFacts, BKeysAssumption DEF PlaceOf
<1>11. c \in S
  <2>1. k < Key(h, n, j) /\ (j > 1 => Key(h, n, j - 1) < k)
    <3> DEFINE s == Size(h, n)
               A(i) == Key(h, n, i)
    <3>1. s \in Nat /\ j \in 1 .. s /\ \A i \in 1 .. s : (i < j => A(i) < k) /\ (i >= j => k < A(i))
      BY <1>4, <1>10
    <3> SUFFICES k < A(j) /\ (j > 1 => A(j - 1) < k)
      OBVIOUS
    <3> HIDE DEF s, A, j, k
    <3>2. j >= j /\ (j > 1 => j - 1 \in 1 .. s /\ j - 1 < j)
      BY <3>1
    <3> QED
      BY <3>1, <3>2
  <2> QED
    BY <2>1, <1>4, <1>5, <1>9 DEF On, Leads
<1>12. f[c] = Span(h, f, n, j)
  BY <1>2, <1>4, <1>6, <1>8 DEF Spanned
<1>13. k \in f[c]
  <2>1. j > 1 => Key(h, n, j - 1) < k
    <3> HIDE DEF h, n, k, j
    <3> QED
      BY <1>4, <1>10
  <2>2. j > 1 => k > Key(h, n, j - 1)
    <3>1. j > 1 => Key(h, n, j - 1) \in Int
      <4> HIDE DEF h, n, k, j
      <4> QED
        BY <1>4, <1>10
    <3> HIDE DEF h, n, k, j
    <3> QED
      BY <2>1, <3>1, <1>10
  <2> QED
    BY <2>2, <1>8, <1>12 DEF Span
<1> HIDE DEF c, g, h, r, n, k, j
<1>14. CASE Size(h, c) # Full
  <2>1. g = h
    BY <1>5, <1>14
  <2>2. Fits(h, c, k)
    <3> SUFFICES ASSUME NEW o \in DOMAIN h, NEW i \in 1 .. Size(h, o), Ptr(h, o, i) = c
                 PROVE  k < Key(h, o, i)
      BY DEF Fits
    <3>1. Size(h, o) \in Nat
      BY <1>3, HeapFacts
    <3>2. i \in 0 .. Size(h, o) /\ Ptr(h, n, j) = Ptr(h, o, i) /\ Ptr(h, n, j) # NULL
      BY <3>1, <1>5 DEF c
    <3>3. n = o /\ j = i
      BY <3>2, <1>2, <1>3, <1>4 DEF Tree
    <3> QED
      BY <3>3, <1>4, <1>10
  <2>3. BInserting'
    <3>1. r # NULL
      BY <1>2, <1>3 DEF Tree
    <3> QED
      BY <3>1, <2>1, <2>2, <1>1, <1>5, <1>6, <1>9, <1>11, <1>14 DEF BInserting, h, g, r, k
  <2>4. BSpanned'
    BY <2>1, <1>1, <1>5, <1>8, <1>13 DEF BSpanned, h, g, r, k
  <2>5. BCalled' /\ BSearching'
    BY <1>1, <1>2 DEF BInv, BCalled, BSearching
  <2>6. BInv'
    BY <2>1, <2>3, <2>4, <2>5, <1>1, <1>3 DEF BInv, h, g, r
  <2> QED
    BY <2>1, <2>6 DEF g, h
<1>15. CASE Size(h, c) = Full
  <2> DEFINE new == B!Fresh
             mid == Key(h, c, MinFactor)
  <2>1. g = B!Split(h, n, c, new) /\ new \in BAddress \ DOMAIN h
    BY <1>5, <1>15, FreshFacts DEF h
  <2>2. /\ MinFactor \in 1 .. Full /\ MinFactor < Full /\ MinFactor - 1 # Full
    BY Factors
  <2>3. mid \in Int /\ mid \in BKeys
    BY <2>2, <1>3, <1>6, <1>15, HeapFacts
  <2>4. PlaceOf(h, n, j, mid)
    <3> DEFINE s == Size(h, n)
               A(i) == Key(h, n, i)
    <3>1. j > 1 => A(j - 1) < mid
      <4>1. mid \in f[c]
        BY <2>2, <1>6, <1>8, <1>15 DEF Spanned
      <4>2. j > 1 => mid > A(j - 1)
        BY <4>1, <1>12 DEF Span
      <4>3. j > 1 => A(j - 1) \in Int
        BY <1>4, <1>10
      <4> QED
        BY <4>2, <4>3, <2>3
    <3>2. mid < A(j)
      <4>1. MinFactor < Size(h, c) /\ MinFactor \in 1 .. Size(h, c)
        BY <2>2, <1>15
      <4> QED
        BY <4>1, <1>2, <1>3, <1>4, <1>6 DEF Bounded, c
    <3>3. \A i, x \in 1 .. s : i < x => A(i) < A(x)
      BY <1>2 DEF InOrder
    <3>4. s \in Nat /\ j \in 1 .. s /\ \A i \in 1 .. s : A(i) \in Int
      BY <1>4, <1>10
    <3> SUFFICES j \in 1 .. s + 1 /\ \A i \in 1 .. s : (i < j => A(i) < mid) /\ (i >= j => mid < A(i))
      BY DEF PlaceOf
    <3> HIDE DEF s, A, mid
    <3>5. j \in 1 .. s + 1
      BY <3>4
    <3>6. ASSUME NEW i \in 1 .. s, i < j PROVE A(i) < mid
      <4>1. j > 1 /\ j - 1 \in 1 .. s /\ (i = j - 1 \/ i < j - 1)
        BY <3>4, <3>6
      <4>2. A(i) \in Int /\ A(j - 1) \in Int
        BY <4>1, <3>4
      <4>3. i < j - 1 => A(i) < A(j - 1)
        BY <4>1, <3>3
      <4> QED
        BY <4>1, <4>2, <4>3, <3>1, <2>3
    <3>7. ASSUME NEW i \in 1 .. s, i >= j PROVE mid < A(i)
      <4>1. i = j \/ j < i
        BY <3>4, <3>7
      <4>2. A(i) \in Int /\ A(j) \in Int
        BY <3>4
      <4>3. j < i => A(j) < A(i)
        BY <3>3, <3>4
      <4> QED
        BY <4>1, <4>2, <4>3, <3>2, <2>3
    <3> QED
      BY <3>5, <3>6, <3>7
  <2> HIDE DEF new
  <2>5. /\ IsHeap(g)
        /\ Halved(h, g, c, new)
        /\ Gained(h, g, n, j, mid, c, new)
        /\ \A o \in DOMAIN h \ {n, c} : SameNode(h, g, o)
        /\ Carried(h, g, n, j, c, new)
    <3>1. /\ j \in 1 .. Size(h, n) + 1
          /\ \A i \in 1 .. Size(h, n) : /\ i < j => Key(h, n, i) < Key(h, c, MinFactor)
                                        /\ i >= j => Key(h, c, MinFactor) < Key(h, n, i)
      BY <2>4 DEF PlaceOf
    <3>2. /\ IsHeap(h) /\ n \in DOMAIN h /\ c \in DOMAIN h /\ n # c /\ new \in BAddress \ DOMAIN h
          /\ Size(h, c) = Full
      BY <2>1, <1>2, <1>3, <1>6, <1>7, <1>15 DEF c, n
    <3> QED
      BY <2>1, <3>1, <3>2, SplitMeant
  <2>6. SplitOf(h, g, n, j, c, new)
    <3>1. Ptr(h, n, IF j = Size(h, n) + 1 THEN 0 ELSE j) = c
      BY <1>4 DEF c
    <3> QED
      BY <3>1, <2>1, <2>5, <1>2, <1>3, <1>6, <1>7, <1>15 DEF SplitOf
  <2>7. /\ \A o \in DOMAIN h : InOrder(h, o)
        /\ \A o \in DOMAIN h \ {n} : Size(h, o) \in 1 .. Full
        /\ Size(h, n) \in 0 .. Full - 1
    <3>1. Size(h, n) \in 1 .. Full
      BY <1>2, <1>3 DEF Shaped
    <3> QED
      BY <3>1, <1>2, <1>3, Factors DEF Shaped
  <2>8. /\ Tree(g, r) /\ Shaped(g) /\ Bounded(g)
        /\ \E e : Spanned(g, r, e) /\ \A o \in DOMAIN h : e[o] = f[o]
    <3>1. n = r \/ j <= Size(h, n)
      BY <1>1
    <3> QED
      BY <3>1, <2>4, <2>6, <2>7, <1>3, <1>8, <1>12, SplitGood
  <2>9. PICK R : S \subseteq R /\ On(g, k, R, R)
    BY <2>4, <2>6, <2>7, <1>2, <1>6, <1>9, <1>11, SplitOn
  <2>10. /\ Size(g, c) = MinFactor - 1 /\ DOMAIN g = DOMAIN h \cup {new}
         /\ Size(g, n) = Size(h, n) + 1
    <3>1. /\ DOMAIN g = DOMAIN h \cup {new} /\ new # n /\ new # c /\ n # c /\ new # NULL
          /\ Size(g, c) = MinFactor - 1 /\ Size(g, new) = MinFactor - 1 /\ Size(h, c) = Full
          /\ Size(h, n) \in Nat /\ Size(g, n) = Size(h, n) + 1 /\ j \in 1 .. Size(h, n) + 1
          /\ \A o \in DOMAIN h \ {n, c} : Size(g, o) = Size(h, o) /\ Size(h, o) \in Nat
      BY <2>6, SplitSizes
    <3> QED
      BY <3>1
  <2>11. Fits(g, c, k)
    <3> SUFFICES ASSUME NEW o \in DOMAIN g, NEW i \in 1 .. Size(g, o), Ptr(g, o, i) = c,
                        NEW x \in 1 .. Size(g, c)
                 PROVE  Key(g, c, x) < Key(g, o, i)
      BY DEF Fits
    <3>1. IsHeap(g) /\ Size(g, o) \in Nat
      BY <2>5, HeapFacts
    <3>2. i \in 0 .. Size(g, o)
      BY <3>1
    <3>3. j \in 1 .. Size(h, n) + 1 /\ j \in 0 .. Size(g, n) /\ Ptr(g, n, j) = c /\ Key(g, n, j) = mid
      <4>1. j \in 1 .. Size(h, n) + 1 /\ j \in 0 .. Size(g, n) /\ ~(j < j)
        BY <2>10, <1>4
      <4> QED
        BY <4>1, <2>5 DEF Gained
    <3>4. o = n /\ i = j
      <4>1. n \in DOMAIN g
        BY <2>10, <1>2
      <4> QED
        BY <4>1, <3>2, <3>3, <2>8, <1>5 DEF Tree
    <3>5. x \in 1 .. MinFactor - 1
      BY <2>10
    <3>6. mid = Key(h, c, MinFactor) /\ PlaceOf(h, n, j, mid) /\ InOrder(h, c)
      BY <2>4, <2>7, <1>6
    <3>7. Key(g, c, x) < mid
      <4> HIDE DEF mid
      <4>1. \A i_1 \in 1 .. MinFactor - 1 :
              /\ i_1 \in 1 .. Full /\ Key(g, c, i_1) = Key(h, c, i_1) /\ Key(h, c, i_1) < mid
              /\ MinFactor + i_1 \in 1 .. Full /\ Key(g, new, i_1) = Key(h, c, MinFactor + i_1)
              /\ mid < Key(h, c, MinFactor + i_1)
        BY <3>6, <2>6, SplitKeys
      <4> QED
        BY <4>1, <3>5
    <3> QED
      BY <3>3, <3>4, <3>7
  <2>12. BInserting'
    <3>1. r # NULL
      BY <1>2, <1>3 DEF Tree
    <3>2. c \in DOMAIN g /\ Size(g, c) # Full /\ c \in R
      BY <2>2, <2>9, <2>10, <1>6, <1>11
    <3> QED
      BY <3>1, <3>2, <2>9, <2>11, <1>1, <1>5 DEF BInserting, g, r, k
  <2>13. BSpanned'
    <3>1. PICK e : Spanned(g, r, e) /\ \A o \in DOMAIN h : e[o] = f[o]
      BY <2>8
    <3>2. k \in e[c]
      BY <3>1, <1>6, <1>13
    <3> QED
      BY <3>1, <3>2, <1>1, <1>5 DEF BSpanned, g, r, k
  <2>14. BCalled' /\ BSearching'
    BY <1>1, <1>2 DEF BInv, BCalled, BSearching
  <2>15. Divided(h, g)
    BY <2>5, <2>6 DEF Divided
  <2>16. BInv'
    BY <2>5, <2>8, <2>12, <2>13, <2>14, <1>1 DEF BInv, g, r
  <2> QED
    BY <2>15, <2>16 DEF g, h
<1> QED
  BY <1>14, <1>15

LEMMA BSplitRoot ==
  ASSUME BInv, B!SplitRoot
  PROVE  BInv' /\ \E u : Topping(b_nodes, u) /\ Divided(u, b_nodes')
<1> DEFINE h   == b_nodes
           r   == b_root
           k   == b_call.key
           g   == b_nodes'
           top == B!Fresh
           new == CHOOSE a \in B!Free : a # B!Fresh
           u   == Topped(h, top, r)
<1>1. /\ b_pc = "insert" /\ b_node # NULL /\ b_node = r /\ Size(h, r) = Full
      /\ \E a, b \in B!Free : a # b
      /\ g = B!Split(u, top, r, new) /\ b_root' = top /\ b_node' = top
      /\ b_pc' = b_pc /\ b_call' = b_call
  BY Meant DEF B!SplitRoot, B!Inserting, Topped
<1>2. /\ top \in BAddress \ DOMAIN h /\ new \in BAddress \ DOMAIN h /\ new # top
  <2>1. B!Free # {}
    BY <1>1
  <2> QED
    BY <2>1, <1>1, FreshFacts
<1>3. IsHeap(h) /\ Tree(h, r) /\ Shaped(h) /\ Bounded(h) /\ r \in DOMAIN h /\ k \in BKeys
  BY <1>1 DEF BInv, BInserting, BCalled
<1>4. PICK S : r \in S /\ On(h, k, S, S)
  BY <1>1 DEF BInv, BInserting
<1>5. PICK f0 : Spanned(h, r, f0)
  BY DEF BInv, BSpanned
<1>6. \E x : x = u
  OBVIOUS
<1>7. PICK v : v = u
  BY <1>6
<1> HIDE DEF h, r, k, g, top, new
<1>8. /\ IsHeap(v) /\ DOMAIN v = DOMAIN h \cup {top}
      /\ Size(v, top) = 0 /\ Ptr(v, top, 0) = r
      /\ \A n \in DOMAIN h : v[n] = h[n] /\ SameNode(h, v, n)
      /\ Tree(v, top)
  BY <1>2, <1>3, <1>7, TopFacts
<1>9. /\ \A n \in DOMAIN v : InOrder(v, n)
      /\ \A n \in DOMAIN v \ {top} : Size(v, n) \in 1 .. Full
      /\ Bounded(v)
      /\ \E e : Spanned(v, top, e) /\ e[top] = BKeys /\ e[r] = BKeys
      /\ On(v, k, S \cup {top}, S \cup {top})
  BY <1>2, <1>3, <1>4, <1>5, <1>7, TopGood
<1>10. PICK f : Spanned(v, top, f) /\ f[top] = BKeys /\ f[r] = BKeys
  BY <1>9
<1>11. /\ top \in DOMAIN v /\ r \in DOMAIN v /\ top # r /\ new \in BAddress \ DOMAIN v
       /\ Size(v, r) = Full
  BY <1>1, <1>2, <1>3, <1>8 DEF SameNode, h, r
<1>12. PlaceOf(v, top, 1, Key(v, r, MinFactor)) /\ 1 \in 1 .. Size(v, top) + 1
  <2>1. 1 \in 1 .. Size(v, top) + 1 /\ \A i \in 1 .. Size(v, top) : FALSE
    BY <1>8
  <2> QED
    BY <2>1 DEF PlaceOf
<1>13. /\ IsHeap(g)
       /\ Halved(v, g, r, new)
       /\ Gained(v, g, top, 1, Key(v, r, MinFactor), r, new)
       /\ \A n \in DOMAIN v \ {top, r} : SameNode(v, g, n)
       /\ Carried(v, g, top, 1, r, new)
  <2>1. \A i \in 1 .. Size(v, top) : /\ i < 1 => Key(v, top, i) < Key(v, r, MinFactor)
                                     /\ i >= 1 => Key(v, r, MinFactor) < Key(v, top, i)
    BY <1>8
  <2>2. g = B!Split(v, top, r, new)
    BY <1>1, <1>7
  <2> QED
    BY <2>1, <2>2, <1>8, <1>11, <1>12, SplitMeant
<1>14. SplitOf(v, g, top, 1, r, new)
  <2>1. Ptr(v, top, IF 1 = Size(v, top) + 1 THEN 0 ELSE 1) = r
    BY <1>8
  <2> QED
    BY <2>1, <1>8, <1>11, <1>12, <1>13 DEF SplitOf
<1>15. f[r] = Span(v, f, top, 1)
  <2>1. ~(1 > 1)
    OBVIOUS
  <2> QED
    BY <2>1, <1>10 DEF Span
<1>16. /\ Tree(g, top) /\ Shaped(g) /\ Bounded(g)
       /\ \E e : Spanned(g, top, e) /\ \A n \in DOMAIN v : e[n] = f[n]
  <2>1. Size(v, top) \in 0 .. Full - 1
    BY <1>8, Factors
  <2> QED
    BY <2>1, <1>8, <1>9, <1>10, <1>12, <1>14, <1>15, SplitGood
<1>17. PICK R : S \cup {top} \subseteq R /\ On(g, k, R, R)
  BY <1>3, <1>4, <1>9, <1>11, <1>12, <1>14, SplitOn
<1>18. top \in DOMAIN g /\ top # NULL
  BY <1>2, <1>11, <1>13, BKeysAssumption DEF Halved
<1>19. Fits(g, top, k)
  <2>1. ASSUME NEW n \in DOMAIN g, NEW i \in 1 .. Size(g, n)
        PROVE  Ptr(g, n, i) # top
    <3>1. Size(g, n) \in Nat
      BY <1>13, HeapFacts
    <3>2. i \in 0 .. Size(g, n)
      BY <3>1
    <3> QED
      BY <3>2, <1>16, <1>18 DEF Tree
  <2> QED
    BY <2>1 DEF Fits
<1>20. BInserting'
  BY <1>1, <1>17, <1>18, <1>19 DEF BInserting, g, k
<1>21. BSpanned'
  <2>1. PICK e : Spanned(g, top, e) /\ \A n \in DOMAIN v : e[n] = f[n]
    BY <1>16
  <2>2. k \in e[top]
    BY <2>1, <1>3, <1>10, <1>11
  <2> QED
    BY <2>1, <2>2, <1>1 DEF BSpanned, g, k
<1>22. BCalled' /\ BSearching'
  BY <1>1 DEF BInv, BCalled, BSearching
<1>23. BInv'
  BY <1>1, <1>13, <1>16, <1>20, <1>21, <1>22 DEF BInv, g
<1>24. Topping(h, v) /\ Divided(v, g)
  <2>1. Topping(h, v)
    BY <1>2, <1>8 DEF Topping
  <2>2. Divided(v, g)
    BY <1>13, <1>14 DEF Divided
  <2> QED
    BY <2>1, <2>2
<1> QED
  BY <1>23, <1>24 DEF g, h

LEMMA BAddValue ==
  ASSUME BInv, B!AddValue
  PROVE  /\ BInv'
         /\ \E n, j : \E size \in Uninit :
              /\ Key(b_nodes, n, j) = b_call.key
              /\ Refilled(b_nodes, b_nodes', n, j, B!WithValue(Arrays(b_nodes, n, j), b_call.value, size))
<1> DEFINE h == b_nodes
           n == b_node
           k == b_call.key
           j == B!At(n, k)
           g == b_nodes'
<1>1. /\ b_pc = "search" /\ b_call.op = "add" /\ n # NULL /\ j <= Size(h, n) /\ Key(h, n, j) = k
      /\ b_root' = b_root /\ b_pc' = "idle"
  BY Meant DEF B!AddValue, B!Found, B!Searching, B!Return
<1>2. PICK size \in Uninit :
        g = [h EXCEPT ![n].keys[j].values = B!WithValue(@, b_call.value, size)]
  BY DEF B!AddValue
<1>3. /\ IsHeap(h) /\ Tree(h, b_root) /\ Shaped(h) /\ Bounded(h) /\ n \in DOMAIN h
      /\ k \in BKeys /\ b_call.value \in BValues
  BY <1>1 DEF BInv, BSearching, BCalled
<1>4. PICK f : Spanned(h, b_root, f)
  BY DEF BInv, BSpanned
<1>5. /\ h[n] \in BNode /\ Size(h, n) \in Nat /\ DOMAIN h[n].keys = 1 .. Size(h, n)
      /\ h[n].keys \in Seq(BKey) /\ \A i \in 1 .. Size(h, n) : h[n].keys[i] \in BKey
  BY <1>3, HeapFacts
<1>6. j \in 1 .. Size(h, n)
  <2>1. j \in 1 .. Size(h, n) + 1
    BY <1>3, AtFacts DEF Shaped
  <2> HIDE DEF h, n, j
  <2> QED
    BY <2>1, <1>1, <1>5
<1> DEFINE old == h[n].keys[j].values
           w   == B!WithValue(old, b_call.value, size)
           e   == [h[n].keys[j] EXCEPT !.values = w]
           s   == [h[n].keys EXCEPT ![j] = e]
<1>7. old \in Seq(BArray) /\ h[n].keys[j] \in BKey
  BY <1>5, <1>6 DEF BKey
<1>8. w \in Seq(BArray)
  <2> HIDE DEF old
  <2>1. ASSUME NEW z \in {1, size}
        PROVE  B!NewArray(b_call.value, z) \in BArray
    <3>1. z \in 0 .. ArraySize
      BY UninitAssumption
    <3> QED
      BY <3>1, <1>3 DEF B!NewArray, BArray
  <2>2. CASE old = <<>>
    <3>1. w = <<B!NewArray(b_call.value, 1)>>
      BY <2>2 DEF B!WithValue
    <3>2. PICK z : z = B!NewArray(b_call.value, 1)
      OBVIOUS
    <3>3. <<z>> \in Seq(BArray)
      BY <3>2, <2>1
    <3> QED
      BY <3>1, <3>2, <3>3
  <2>3. CASE old # <<>>
    <3> DEFINE tail == old[Len(old)]
               more == [value |-> [tail.value EXCEPT ![tail.size + 1] = b_call.value], size |-> tail.size + 1]
    <3>1. tail \in BArray
      <4>1. Len(old) \in 1 .. Len(old)
        BY <2>3, <1>7
      <4> QED
        BY <4>1, <1>7
    <3>2. w = IF tail.size = ArraySize THEN Append(old, B!NewArray(b_call.value, size))
              ELSE [old EXCEPT ![Len(old)] = more]
      BY <2>3 DEF B!WithValue
    <3>3. CASE tail.size = ArraySize
      <4>1. PICK z : z = B!NewArray(b_call.value, size)
        OBVIOUS
      <4>2. Append(old, z) \in Seq(BArray)
        BY <4>1, <2>1, <1>7
      <4> HIDE DEF w
      <4> QED
        BY <4>1, <4>2, <3>2, <3>3
    <3>4. CASE tail.size # ArraySize
      <4>1. more \in BArray
        <5>1. /\ tail.value \in [1 .. ArraySize -> BValues \cup {NULL}] /\ tail.size \in 0 .. ArraySize
              /\ ArraySize \in Nat
          BY <3>1, UninitAssumption DEF BArray
        <5>2. tail.size + 1 \in 0 .. ArraySize
          BY <5>1, <3>4
        <5>3. [tail.value EXCEPT ![tail.size + 1] = b_call.value] \in [1 .. ArraySize -> BValues \cup {NULL}]
          BY <5>1, <1>3
        <5> QED
          BY <5>2, <5>3 DEF BArray
      <4> HIDE DEF w, more
      <4>2. [old EXCEPT ![Len(old)] = more] \in Seq(BArray)
        BY <4>1, <1>7, ReplaceFacts
      <4> QED
        BY <4>2, <3>2, <3>4
    <3> QED
      BY <3>3, <3>4
  <2> QED
    BY <2>2, <2>3
<1> HIDE DEF w
<1>9. e \in BKey /\ e.key = h[n].keys[j].key /\ e.left = h[n].keys[j].left /\ e.values = w
  BY <1>7, <1>8 DEF BKey
<1>10. /\ s \in Seq(BKey) /\ Len(s) = Size(h, n)
       /\ \A i \in 1 .. Size(h, n) : s[i] = IF i = j THEN e ELSE h[n].keys[i]
  <2> HIDE DEF e, h, n, j
  <2>1. s \in Seq(BKey)
    BY <1>5, <1>9, ReplaceFacts
  <2>2. DOMAIN s = 1 .. Size(h, n)
    BY <1>5
  <2>3. \A i \in 1 .. Size(h, n) : s[i] = IF i = j THEN e ELSE h[n].keys[i]
    BY <1>5
  <2>4. DOMAIN s = 1 .. Len(s) /\ Len(s) \in Nat
    BY <2>1
  <2> HIDE DEF s
  <2>5. Len(s) = Size(h, n)
    BY <2>2, <2>4, <1>5
  <2> QED
    BY <2>1, <2>3, <2>5
<1>11. g = [h EXCEPT ![n] = [h[n] EXCEPT !.keys = s]]
  BY <1>2 DEF w
<1> HIDE DEF s, e
<1>12. /\ DOMAIN g = DOMAIN h /\ g[n] = [h[n] EXCEPT !.keys = s]
       /\ \A o \in DOMAIN h \ {n} : g[o] = h[o]
       /\ g[n].keys = s /\ g[n].child = h[n].child /\ g[n] \in BNode
  <2>1. [h[n] EXCEPT !.keys = s] \in BNode /\ [h[n] EXCEPT !.keys = s].keys = s
        /\ [h[n] EXCEPT !.keys = s].child = h[n].child
    BY <1>5, <1>10 DEF BNode
  <2> HIDE DEF h, n, g
  <2> QED
    BY <2>1, <1>3, <1>11
<1> HIDE DEF h, n, g, j
<1>13. IsHeap(g)
  <2>1. \A o \in DOMAIN g : g[o] \in BNode
    BY <1>3, <1>12 DEF IsHeap
  <2>2. g = [o \in DOMAIN g |-> g[o]]
    BY <1>11
  <2> QED
    BY <2>1, <2>2, <1>3, <1>12 DEF IsHeap
<1>14. \A o \in DOMAIN h : SameNode(h, g, o)
  <2>1. \A o \in DOMAIN h \ {n} : SameNode(h, g, o)
    BY <1>12 DEF SameNode, Size, Key, Ptr
  <2>2. SameNode(h, g, n)
    <3>1. Size(g, n) = Size(h, n)
      BY <1>10, <1>12 DEF Size
    <3>2. \A i \in 1 .. Size(h, n) : s[i].key = h[n].keys[i].key /\ s[i].left = h[n].keys[i].left
      BY <1>9, <1>10
    <3>3. \A i \in 0 .. Size(h, n) : i = 0 \/ i \in 1 .. Size(h, n)
      BY <1>5
    <3> QED
      BY <3>1, <3>2, <3>3, <1>12 DEF SameNode, Key, Ptr
  <2> QED
    BY <2>1, <2>2
<1>15. Tree(g, b_root) /\ Shaped(g) /\ Bounded(g) /\ Spanned(g, b_root, f)
  BY <1>3, <1>4, <1>12, <1>14, SameShape
<1>16. BInv'
  BY <1>1, <1>13, <1>15, BIdle DEF g
<1>17. Refilled(h, g, n, j, w)
  <2>1. Arrays(g, n, j) = w
    BY <1>6, <1>9, <1>10, <1>12 DEF Arrays
  <2>2. ASSUME NEW o \in DOMAIN h, NEW i \in 1 .. Size(h, o), ~(o = n /\ i = j)
        PROVE  Arrays(g, o, i) = Arrays(h, o, i)
    <3>1. CASE o = n
      BY <3>1, <2>2, <1>10, <1>12 DEF Arrays
    <3>2. CASE o # n
      BY <3>2, <1>12 DEF Arrays
    <3> QED
      BY <3>1, <3>2
  <2> QED
    BY <2>1, <2>2, <1>3, <1>6, <1>12, <1>14 DEF Refilled
<1>18. w = B!WithValue(Arrays(h, n, j), b_call.value, size)
  BY DEF w, Arrays
<1> QED
  BY <1>1, <1>16, <1>17, <1>18 DEF g, h, k

LEMMA BClear ==
  ASSUME BInv, B!Clear
  PROVE  BInv'
<1>1. /\ b_nodes' = [a \in B!Allocated \ B!Reachable |-> b_nodes[a]]
      /\ b_root' = NULL /\ b_pc' = "idle"
  BY DEF B!Clear, B!Return
<1>2. B!Reachable = B!Allocated
  BY ReachableMeant DEF BInv
<1>3. b_nodes' = [a \in {} |-> b_nodes[a]]
  BY <1>1, <1>2
<1>4. PICK g : g = b_nodes'
  OBVIOUS
<1>5. DOMAIN g = {} /\ \A S : g \in [{} -> S]
  BY <1>3, <1>4
<1>6. IsHeap(g) /\ Tree(g, NULL) /\ Shaped(g) /\ Bounded(g) /\ Spanned(g, NULL, g)
  BY <1>5, NoNode
<1> QED
  BY <1>1, <1>4, <1>6, BIdle

LEMMA BNext == BInv /\ B!Next => BInv'
<1> SUFFICES ASSUME BInv, B!Next PROVE BInv'
  OBVIOUS
<1>1. ASSUME NEW c \in B!Calls, B!Invoke(c) PROVE BInv'
  BY <1>1, BInvoke
<1>2. CASE B!ContainsKey \/ B!ContainsPair \/ B!Finish
  BY <1>2, BQuiet DEF B!ContainsKey, B!ContainsPair, B!Finish, B!Return
<1>3. CASE B!Enter \/ B!Pass \/ B!Leave
  BY <1>3, BQuiet DEF B!Enter, B!Pass, B!Leave, B!Walking
<1> QED
  BY <1>1, <1>2, <1>3, BFollow, BAddValue, BStart, BCreate, BSplitRoot, BAppend, BInsert,
     BDescend, BClear DEF B!Next

-----------------------------------------------------------------------------
\* The theorems.

LEMMA BAlways == MCSpec => []BInv
<1>1. MCInit => BInv
  BY BInitial DEF MCInit
<1>2. BInv /\ [MCNext]_<<impl, vars, bvars>> => BInv'
  <2> SUFFICES ASSUME BInv, [MCNext]_<<impl, vars, bvars>> PROVE BInv'
    OBVIOUS
  <2>1. CASE UNCHANGED bvars
    BY <2>1 DEF bvars, BInv, BCalled, BSpanned, BSearching, BInserting
  <2>2. CASE B!Next
    BY <2>2, BNext
  <2> QED
    BY <2>1, <2>2 DEF MCNext
<1> QED
  BY <1>1, <1>2, PTL DEF MCSpec

\* The nodes of the B-tree always form one tree below its root, whatever was split and
\* in which order: clear_multimap() frees each of them, once (opt_mm_impl_BT.c).
THEOREM NodesMakeOneTree == MCSpec => []OneTree
<1>1. BInv => OneTree
  BY OneTreeMeant DEF BInv, OneTree
<1> QED
  BY <1>1, BAlways, PTL

\* The asserts of splitChild() and insertHelper() hold whenever the program runs with
\* them compiled out: no node has too many keys or none, the keys of a node ascend, and
\* no key is inserted into a full node.
THEOREM NodesStayInShape == MCSpec => []NodesInShape
<1>1. BInv => NodesInShape
  <2> SUFFICES ASSUME BInv, NEW n \in DOMAIN b_nodes
               PROVE  /\ Size(b_nodes, n) \in 1 .. Full
                      /\ \A i, j \in 1 .. Size(b_nodes, n) : i < j => Key(b_nodes, n, i) < Key(b_nodes, n, j)
                      /\ b_pc = "insert" /\ b_node = n /\ n # b_root => Size(b_nodes, n) # Full
    BY Meant DEF NodesInShape, B!NodesInShape, B!Allocated, B!Inserting
  <2>1. Size(b_nodes, n) \in 1 .. Full /\ InOrder(b_nodes, n)
    BY DEF BInv, Shaped
  <2>2. b_pc = "insert" /\ b_node = n /\ n # b_root => Size(b_nodes, n) # Full
    BY DEF BInv, BInserting, Tree
  <2> QED
    BY <2>1, <2>2 DEF InOrder
<1> QED
  BY <1>1, BAlways, PTL

-----------------------------------------------------------------------------
\* The keys of all nodes, by node and number, and the pairs that are stored at them.

Spots(h)            == {q \in (DOMAIN h) \X (1 .. Full) : q[2] <= Size(h, q[1])}
SameKey(h, q, g, r) == /\ Key(h, q[1], q[2]) = Key(g, r[1], r[2])
                       /\ Arrays(h, q[1], q[2]) = Arrays(g, r[1], r[2])

\* Where the pair p is stored in the first array of a key.
Stores(h, q, x, p) == /\ Key(h, q[1], q[2]) = p[1] /\ x <= Arrays(h, q[1], q[2])[1].size
                      /\ Arrays(h, q[1], q[2])[1].value[x] = p[2]
SlotsAt(h, Z, p)   == {s \in Z \X (1 .. ArraySize) : Stores(h, s[1], s[2], p)}
Slots(h, p)        == SlotsAt(h, Spots(h), p)

HasArray(h) == \A q \in Spots(h) : Len(Arrays(h, q[1], q[2])) # 0
OneArray(h) == \A q \in Spots(h) : Len(Arrays(h, q[1], q[2])) = 1

\* The keys of h are those of g in Z.
Moved(h, g, Z) ==
  \E F \in [Spots(h) -> Z] : \E G \in [Z -> Spots(h)] :
    /\ \A q \in Spots(h) : G[F[q]] = q /\ SameKey(h, q, g, F[q])
    /\ \A q \in Z : F[G[q]] = q

LEMMA SlotsFinite ==
  ASSUME NEW h, NEW Z, IsFiniteSet(Z), NEW p
  PROVE  IsFiniteSet(SlotsAt(h, Z, p)) /\ Cardinality(SlotsAt(h, Z, p)) \in Nat
<1>1. IsFiniteSet(1 .. ArraySize)
  BY UninitAssumption, FS_Interval
<1>2. IsFiniteSet(Z \X (1 .. ArraySize))
  BY <1>1, FS_Product
<1>3. SlotsAt(h, Z, p) \in SUBSET (Z \X (1 .. ArraySize))
  BY DEF SlotsAt
<1>4. IsFiniteSet(SlotsAt(h, Z, p))
  BY <1>2, <1>3, FS_Subset
<1> QED
  BY <1>4, FS_CardinalityType

LEMMA SpotsFinite ==
  ASSUME NEW h, IsFiniteSet(DOMAIN h)
  PROVE  IsFiniteSet(Spots(h))
<1>1. IsFiniteSet(1 .. Full)
  BY Factors, FS_Interval
<1>2. IsFiniteSet((DOMAIN h) \X (1 .. Full))
  BY <1>1, FS_Product
<1>3. Spots(h) \in SUBSET ((DOMAIN h) \X (1 .. Full))
  BY DEF Spots
<1> QED
  BY <1>2, <1>3, FS_Subset

LEMMA MovedSlots ==
  ASSUME NEW h, IsFiniteSet(DOMAIN h), NEW g, NEW Z, Moved(h, g, Z), NEW p
  PROVE  Cardinality(SlotsAt(g, Z, p)) = Cardinality(Slots(h, p))
<1>1. PICK F \in [Spots(h) -> Z], G \in [Z -> Spots(h)] :
        /\ \A q \in Spots(h) : G[F[q]] = q /\ SameKey(h, q, g, F[q])
        /\ \A q \in Z : F[G[q]] = q
  BY DEF Moved
<1> DEFINE S == Slots(h, p)
           T == SlotsAt(g, Z, p)
           f == [s \in S |-> <<F[s[1]], s[2]>>]
<1>2. \A s : s \in S <=> /\ s \in Spots(h) \X (1 .. ArraySize) /\ Stores(h, s[1], s[2], p)
  BY DEF Slots, SlotsAt
<1>3. \A s : s \in T <=> /\ s \in Z \X (1 .. ArraySize) /\ Stores(g, s[1], s[2], p)
  BY DEF SlotsAt
<1>4. \A q \in Spots(h) : \A x : Stores(h, q, x, p) <=> Stores(g, F[q], x, p)
  BY <1>1 DEF Stores, SameKey
<1> HIDE DEF S, T
<1>5. \A s \in S : s = <<s[1], s[2]>> /\ s[1] \in Spots(h) /\ s[2] \in 1 .. ArraySize
  BY <1>2
<1>6. f \in [S -> T]
  <2>1. ASSUME NEW s \in S PROVE <<F[s[1]], s[2]>> \in T
    BY <1>1, <1>2, <1>3, <1>4, <1>5
  <2> QED
    BY <2>1
<1>7. \A s, t \in S : f[s] = f[t] => s = t
  <2> SUFFICES ASSUME NEW s \in S, NEW t \in S, f[s] = f[t] PROVE s = t
    OBVIOUS
  <2>1. F[s[1]] = F[t[1]] /\ s[2] = t[2]
    OBVIOUS
  <2>2. s[1] = t[1]
    BY <2>1, <1>1, <1>5
  <2> QED
    BY <2>1, <2>2, <1>5
<1>8. \A t \in T : \E s \in S : f[s] = t
  <2> SUFFICES ASSUME NEW t \in T PROVE \E s \in S : f[s] = t
    OBVIOUS
  <2>1. t = <<t[1], t[2]>> /\ t[1] \in Z /\ t[2] \in 1 .. ArraySize /\ Stores(g, t[1], t[2], p)
    BY <1>3
  <2>2. G[t[1]] \in Spots(h) /\ F[G[t[1]]] = t[1]
    BY <2>1, <1>1
  <2> DEFINE s == <<G[t[1]], t[2]>>
  <2>3. s \in S
    <3>1. s[1] = G[t[1]] /\ s[2] = t[2] /\ s \in Spots(h) \X (1 .. ArraySize)
      BY <2>1, <2>2
    <3>2. Stores(h, s[1], s[2], p)
      BY <3>1, <2>1, <2>2, <1>4
    <3> QED
      BY <3>1, <3>2, <1>2
  <2>4. f[s] = t
    BY <2>1, <2>2, <2>3
  <2> QED
    BY <2>3, <2>4
<1>9. ExistsBijection(S, T)
  <2> HIDE DEF f
  <2>1. f \in Bijection(S, T)
    BY <1>6, <1>7, <1>8 DEF Bijection, Injection, Surjection, IsInjective
  <2> QED
    BY <2>1 DEF ExistsBijection
<1>10. IsFiniteSet(S)
  BY SpotsFinite, SlotsFinite DEF S, Slots
<1> QED
  BY <1>9, <1>10, FS_Bijection DEF S, T

\* If no key has been added, each pair is stored as often as it was.
LEMMA AllMoved ==
  ASSUME NEW h, IsFiniteSet(DOMAIN h), NEW g, Moved(h, g, Spots(g))
  PROVE  /\ HasArray(h) => HasArray(g)
         /\ OneArray(g) => OneArray(h)
         /\ \A p : Cardinality(Slots(g, p)) = Cardinality(Slots(h, p))
<1>1. PICK F \in [Spots(h) -> Spots(g)], G \in [Spots(g) -> Spots(h)] :
        /\ \A q \in Spots(h) : G[F[q]] = q /\ SameKey(h, q, g, F[q])
        /\ \A q \in Spots(g) : F[G[q]] = q
  BY DEF Moved
<1>2. HasArray(h) => HasArray(g)
  BY <1>1 DEF HasArray, SameKey
<1>3. OneArray(g) => OneArray(h)
  BY <1>1 DEF OneArray, SameKey
<1>4. \A p : Cardinality(Slots(g, p)) = Cardinality(Slots(h, p))
  BY MovedSlots DEF Slots
<1> QED
  BY <1>2, <1>3, <1>4

\* Where a key of h is after a split, and where one of the result was.
SplitSpot(p, j, c, new, q) ==
  IF q[1] = c THEN IF q[2] < MinFactor THEN q
                   ELSE IF q[2] = MinFactor THEN <<p, j>> ELSE <<new, q[2] - MinFactor>>
  ELSE IF q[1] = p /\ q[2] >= j THEN <<p, q[2] + 1>> ELSE q

SplitOrig(p, j, c, new, q) ==
  IF q[1] = new THEN <<c, q[2] + MinFactor>>
  ELSE IF q[1] = p /\ q[2] = j THEN <<c, MinFactor>>
  ELSE IF q[1] = p /\ q[2] > j THEN <<p, q[2] - 1>> ELSE q

LEMMA SpotIs ==
  ASSUME NEW h
  PROVE  /\ \A q \in Spots(h) : /\ q = <<q[1], q[2]>> /\ q[1] \in DOMAIN h
                                /\ q[2] \in 1 .. Full /\ q[2] <= Size(h, q[1])
         /\ \A n \in DOMAIN h : \A i \in 1 .. Full : i <= Size(h, n) => <<n, i>> \in Spots(h)
BY DEF Spots

LEMMA SplitMoves ==
  ASSUME NEW h, NEW g, NEW p, NEW j, NEW c, NEW new, SplitOf(h, g, p, j, c, new),
         Carried(h, g, p, j, c, new), Size(g, p) <= Full
  PROVE  Moved(h, g, Spots(g))
<1> DEFINE To(q)   == SplitSpot(p, j, c, new, q)
           From(q) == SplitOrig(p, j, c, new, q)
           t == MinFactor
<1>1. /\ DOMAIN g = DOMAIN h \cup {new} /\ new # p /\ new # c /\ p # c /\ new # NULL
      /\ Size(g, c) = t - 1 /\ Size(g, new) = t - 1 /\ Size(h, c) = Full
      /\ Size(h, p) \in Nat /\ Size(g, p) = Size(h, p) + 1 /\ j \in 1 .. Size(h, p) + 1
      /\ \A n \in DOMAIN h \ {p, c} : Size(g, n) = Size(h, n) /\ Size(h, n) \in Nat
  BY SplitSizes
<1>2. t \in Nat /\ t >= 2 /\ Full = 2 * t - 1
  BY Factors
<1>3. p \in DOMAIN h /\ c \in DOMAIN h /\ new \notin DOMAIN h
  BY DEF SplitOf
<1>4. /\ \A i \in 1 .. t - 1 : /\ Key(g, c, i) = Key(h, c, i) /\ Arrays(g, c, i) = Arrays(h, c, i)
                               /\ Key(g, new, i) = Key(h, c, t + i)
                               /\ Arrays(g, new, i) = Arrays(h, c, t + i)
      /\ \A i \in 1 .. Size(h, p) + 1 :
           /\ i < j => Key(g, p, i) = Key(h, p, i) /\ Arrays(g, p, i) = Arrays(h, p, i)
           /\ i = j => Key(g, p, i) = Key(h, c, t) /\ Arrays(g, p, i) = Arrays(h, c, t)
           /\ i > j => Key(g, p, i) = Key(h, p, i - 1) /\ Arrays(g, p, i) = Arrays(h, p, i - 1)
      /\ \A n \in DOMAIN h \ {p, c} : \A i \in 1 .. Size(h, n) :
           Key(g, n, i) = Key(h, n, i) /\ Arrays(g, n, i) = Arrays(h, n, i)
  BY <1>1 DEF SplitOf, Carried, Halved, Gained, SameNode
<1> HIDE DEF t
\* One spot at a time, by its node.
<1>5. ASSUME NEW q \in Spots(h)
      PROVE  To(q) \in Spots(g) /\ From(To(q)) = q /\ SameKey(h, q, g, To(q))
  <2> DEFINE n == q[1]
             i == q[2]
  <2>1. /\ q = <<n, i>> /\ n \in DOMAIN h /\ i \in Nat /\ i >= 1 /\ i <= Full /\ i <= Size(h, n)
        /\ n # new
    BY <1>2, <1>3, SpotIs
  <2> HIDE DEF n, i
  <2>2. \A m \in DOMAIN g : \A x \in 1 .. Full : x <= Size(g, m) => <<m, x>> \in Spots(g)
    BY SpotIs
  <2>3. CASE n = c /\ i < t
    <3>1. i \in 1 .. t - 1 /\ i \in 1 .. Full
      BY <2>1, <2>3, <1>2
    <3>2. To(q) = <<c, i>> /\ From(To(q)) = q
      BY <2>1, <2>3, <1>1 DEF SplitSpot, SplitOrig, t
    <3> QED
      BY <3>1, <3>2, <2>1, <2>2, <2>3, <1>1, <1>3, <1>4 DEF SameKey
  <2>4. CASE n = c /\ i = t
    <3>1. j \in 1 .. Full /\ j \in 1 .. Size(h, p) + 1
      BY <1>1, <1>2
    <3>2. To(q) = <<p, j>> /\ From(To(q)) = q
      BY <2>1, <2>4, <1>1 DEF SplitSpot, SplitOrig, t
    <3> QED
      BY <3>1, <3>2, <2>1, <2>2, <2>4, <1>1, <1>3, <1>4 DEF SameKey
  <2>5. CASE n = c /\ i > t
    <3>1. i - t \in 1 .. t - 1 /\ i - t \in 1 .. Full /\ t + (i - t) = i /\ i - t + t = i /\ ~(i < t) /\ i # t
      BY <2>1, <2>5, <1>2
    <3>2. To(q) = <<new, i - t>> /\ From(To(q)) = <<c, i - t + t>>
      BY <3>1, <2>1, <2>5, <1>1 DEF SplitSpot, SplitOrig, t
    <3> QED
      BY <3>1, <3>2, <2>1, <2>2, <2>5, <1>1, <1>3, <1>4 DEF SameKey
  <2>6. CASE n = p /\ i < j
    <3>1. i \in 1 .. Full /\ i \in 1 .. Size(h, p) + 1 /\ ~(i >= j) /\ ~(i = j) /\ ~(i > j)
      BY <2>1, <2>6, <1>1, <1>2
    <3>2. To(q) = <<p, i>> /\ From(To(q)) = q
      BY <3>1, <2>1, <2>6, <1>1 DEF SplitSpot, SplitOrig
    <3> QED
      BY <3>1, <3>2, <2>1, <2>2, <2>6, <1>1, <1>3, <1>4 DEF SameKey
  <2>7. CASE n = p /\ i >= j
    <3>1. /\ i + 1 \in 1 .. Full /\ i + 1 \in 1 .. Size(h, p) + 1 /\ i + 1 > j /\ i + 1 # j
          /\ i + 1 - 1 = i
      BY <2>1, <2>7, <1>1, <1>2
    <3>2. To(q) = <<p, i + 1>> /\ From(To(q)) = <<p, i + 1 - 1>>
      BY <3>1, <2>1, <2>7, <1>1 DEF SplitSpot, SplitOrig
    <3> QED
      BY <3>1, <3>2, <2>1, <2>2, <2>7, <1>1, <1>3, <1>4 DEF SameKey
  <2>8. CASE n \notin {p, c}
    <3>1. To(q) = <<n, i>> /\ From(To(q)) = q
      BY <2>1, <2>8 DEF SplitSpot, SplitOrig
    <3>2. i \in 1 .. Full /\ i \in 1 .. Size(h, n)
      BY <2>1, <2>8, <1>1, <1>2
    <3> QED
      BY <3>1, <3>2, <2>1, <2>2, <2>8, <1>1, <1>3, <1>4 DEF SameKey
  <2> QED
    BY <2>1, <2>3, <2>4, <2>5, <2>6, <2>7, <2>8, <1>1, <1>2
<1>6. ASSUME NEW q \in Spots(g)
      PROVE  From(q) \in Spots(h) /\ To(From(q)) = q
  <2> DEFINE n == q[1]
             i == q[2]
  <2>1. /\ q = <<n, i>> /\ n \in DOMAIN h \cup {new} /\ i \in Nat /\ i >= 1 /\ i <= Full /\ i <= Size(g, n)
    BY <1>1, <1>2, SpotIs
  <2> HIDE DEF n, i
  <2>2. \A m \in DOMAIN h : \A x \in 1 .. Full : x <= Size(h, m) => <<m, x>> \in Spots(h)
    BY SpotIs
  <2>3. CASE n = new
    <3>1. /\ i + t \in 1 .. Full /\ i + t <= Size(h, c) /\ ~(i + t < t) /\ i + t # t /\ i + t - t = i
      BY <2>1, <2>3, <1>1, <1>2
    <3>2. From(q) = <<c, i + t>>
      BY <2>1, <2>3 DEF SplitOrig, t
    <3>3. \A x \in Int : ~(x < t) /\ x # t => To(<<c, x>>) = <<new, x - t>>
      BY DEF SplitSpot, t
    <3>4. <<c, i + t>> \in Spots(h)
      BY <3>1, <2>2, <1>3
    <3>5. To(<<c, i + t>>) = <<new, i>>
      <4>1. i + t \in Int /\ (i + t) - t = i
        BY <2>1, <1>2
      <4> HIDE DEF To
      <4> QED
        BY <4>1, <3>1, <3>3
    <3> HIDE DEF To, From
    <3> QED
      BY <3>2, <3>4, <3>5, <2>1, <2>3
  <2>4. CASE n = p /\ i = j
    <3>1. t \in 1 .. Full /\ t <= Size(h, c) /\ ~(t < t)
      BY <1>1, <1>2
    <3>2. From(q) = <<c, t>> /\ To(From(q)) = <<p, j>>
      BY <3>1, <2>1, <2>4, <1>1 DEF SplitSpot, SplitOrig, t
    <3> QED
      BY <3>1, <3>2, <2>1, <2>2, <2>4, <1>3
  <2>5. CASE n = p /\ i > j
    <3>1. i - 1 \in 1 .. Full /\ i - 1 <= Size(h, p) /\ i - 1 >= j /\ i - 1 + 1 = i /\ i # j
      BY <2>1, <2>5, <1>1, <1>2
    <3>2. From(q) = <<p, i - 1>> /\ To(From(q)) = <<p, i - 1 + 1>>
      BY <3>1, <2>1, <2>5, <1>1 DEF SplitSpot, SplitOrig
    <3> QED
      BY <3>1, <3>2, <2>1, <2>2, <2>5, <1>3
  <2>6. CASE n = p /\ i < j
    <3>1. i \in 1 .. Full /\ i <= Size(h, p) /\ ~(i >= j) /\ i # j /\ ~(i > j)
      BY <2>1, <2>6, <1>1, <1>2
    <3>2. From(q) = <<p, i>> /\ To(From(q)) = <<p, i>>
      BY <3>1, <2>1, <2>6, <1>1 DEF SplitSpot, SplitOrig
    <3> QED
      BY <3>1, <3>2, <2>1, <2>2, <2>6, <1>3
  <2>7. CASE n = c
    <3>1. i \in 1 .. Full /\ i <= Size(h, c) /\ i < t
      BY <2>1, <2>7, <1>1, <1>2
    <3>2. From(q) = <<c, i>> /\ To(From(q)) = <<c, i>>
      BY <3>1, <2>1, <2>7, <1>1 DEF SplitSpot, SplitOrig, t
    <3> QED
      BY <3>1, <3>2, <2>1, <2>2, <2>7, <1>3
  <2>8. CASE n \notin {new, p, c}
    <3>1. From(q) = <<n, i>> /\ To(From(q)) = <<n, i>>
      BY <2>1, <2>8 DEF SplitSpot, SplitOrig
    <3>2. i \in 1 .. Full /\ i <= Size(h, n)
      BY <2>1, <2>8, <1>1, <1>2
    <3> QED
      BY <3>1, <3>2, <2>1, <2>2, <2>8
  <2> QED
    BY <2>1, <2>3, <2>4, <2>5, <2>6, <2>7, <2>8, <1>1
<1> HIDE DEF To, From
<1> DEFINE F == [q \in Spots(h) |-> To(q)]
           G == [q \in Spots(g) |-> From(q)]
<1>7. F \in [Spots(h) -> Spots(g)] /\ G \in [Spots(g) -> Spots(h)]
  BY <1>5, <1>6
<1>8. \A q \in Spots(h) : G[F[q]] = q /\ SameKey(h, q, g, F[q])
  BY <1>5
<1>9. \A q \in Spots(g) : F[G[q]] = q
  BY <1>6
<1> HIDE DEF F, G
<1> QED
  BY <1>7, <1>8, <1>9 DEF Moved

LEMMA DividedMoves ==
  ASSUME NEW h, NEW g, Divided(h, g), Shaped(g), IsFiniteSet(DOMAIN h)
  PROVE  Moved(h, g, Spots(g)) /\ IsFiniteSet(DOMAIN g)
<1>1. PICK p, j, c, new : SplitOf(h, g, p, j, c, new) /\ Carried(h, g, p, j, c, new)
  BY DEF Divided
<1>2. DOMAIN g = DOMAIN h \cup {new} /\ p \in DOMAIN g
  BY <1>1 DEF SplitOf, Halved
<1>3. Size(g, p) <= Full
  BY <1>2, Factors DEF Shaped
<1>4. IsFiniteSet(DOMAIN g)
  BY <1>2, FS_AddElement
<1> QED
  BY <1>1, <1>3, <1>4, SplitMoves

\* Another root without a key.
LEMMA ToppingMoves ==
  ASSUME NEW h, NEW u, Topping(h, u), IsFiniteSet(DOMAIN h)
  PROVE  Moved(h, u, Spots(u)) /\ IsFiniteSet(DOMAIN u)
<1>1. PICK top : /\ DOMAIN u = DOMAIN h \cup {top} /\ top \notin DOMAIN h /\ Size(u, top) = 0
                 /\ \A n \in DOMAIN h : u[n] = h[n]
  BY DEF Topping
<1>2. \A n \in DOMAIN h : Size(u, n) = Size(h, n)
  BY <1>1 DEF Size
<1>3. \A q \in Spots(u) : q[1] # top
  <2> SUFFICES ASSUME NEW q \in Spots(u), q[1] = top PROVE FALSE
    OBVIOUS
  <2>1. q[2] \in 1 .. Full /\ q[2] <= Size(u, q[1])
    BY SpotIs
  <2> QED
    BY <2>1, <1>1
<1>4. Spots(u) = Spots(h)
  <2>1. \A q \in Spots(u) : q \in Spots(h)
    <3> SUFFICES ASSUME NEW q \in Spots(u) PROVE q \in Spots(h)
      OBVIOUS
    <3>1. q \in (DOMAIN h) \X (1 .. Full) /\ q[2] <= Size(u, q[1])
      BY <1>1, <1>3 DEF Spots
    <3> QED
      BY <3>1, <1>2 DEF Spots
  <2>2. \A q \in Spots(h) : q \in Spots(u)
    BY <1>1, <1>2 DEF Spots
  <2> QED
    BY <2>1, <2>2
<1> DEFINE F == [q \in Spots(h) |-> q]
<1>5. \A q \in Spots(h) : SameKey(h, q, u, q)
  BY <1>1 DEF Spots, SameKey, Key, Arrays
<1>6. Moved(h, u, Spots(u))
  <2>1. F \in [Spots(h) -> Spots(u)] /\ F \in [Spots(u) -> Spots(h)]
    BY <1>4
  <2>2. /\ \A q \in Spots(h) : F[F[q]] = q /\ SameKey(h, q, u, F[q])
        /\ \A q \in Spots(u) : F[F[q]] = q
    BY <1>4, <1>5
  <2> HIDE DEF F
  <2> QED
    BY <2>1, <2>2 DEF Moved
<1> QED
  BY <1>1, <1>6, FS_AddElement

\* Where a key is after another was put into node n as number m, and where it was.
PutSpot(n, m, q) == IF q[1] = n /\ q[2] >= m THEN <<n, q[2] + 1>> ELSE q
PutOrig(n, m, q) == IF q[1] = n /\ q[2] > m THEN <<n, q[2] - 1>> ELSE q

LEMMA PutMoves ==
  ASSUME NEW h, IsHeap(h), NEW g, NEW n \in DOMAIN h, NEW m \in 1 .. Size(h, n) + 1, NEW k, NEW vs,
         PutKey(h, g, n, m, k), Equipped(h, g, n, m, vs), Size(g, n) <= Full
  PROVE  /\ <<n, m>> \in Spots(g) /\ Key(g, n, m) = k /\ Arrays(g, n, m) = vs
         /\ Moved(h, g, Spots(g) \ {<<n, m>>})
<1> DEFINE To(q)   == PutSpot(n, m, q)
           From(q) == PutOrig(n, m, q)
           Z == Spots(g) \ {<<n, m>>}
<1>1. /\ DOMAIN g = DOMAIN h /\ Size(g, n) = Size(h, n) + 1
      /\ \A o \in DOMAIN h \ {n} : Size(g, o) = Size(h, o)
      /\ \A o \in DOMAIN h : Size(h, o) \in Nat
      /\ m \in Nat /\ m >= 1 /\ m <= Size(h, n) + 1 /\ Full \in Nat
  BY HeapFacts, Factors DEF PutKey, SameNode
<1>2. /\ \A i \in 1 .. Size(h, n) + 1 :
           /\ i < m => Key(g, n, i) = Key(h, n, i) /\ Arrays(g, n, i) = Arrays(h, n, i)
           /\ i = m => Key(g, n, i) = k /\ Arrays(g, n, i) = vs
           /\ i > m => Key(g, n, i) = Key(h, n, i - 1) /\ Arrays(g, n, i) = Arrays(h, n, i - 1)
      /\ \A o \in DOMAIN h \ {n} : \A i \in 1 .. Size(h, o) :
           Key(g, o, i) = Key(h, o, i) /\ Arrays(g, o, i) = Arrays(h, o, i)
  BY <1>1 DEF PutKey, Equipped, SameNode
<1>3. /\ \A o \in DOMAIN h : \A x \in 1 .. Full :
           /\ x <= Size(h, o) => <<o, x>> \in Spots(h)
           /\ x <= Size(g, o) => <<o, x>> \in Spots(g)
      /\ \A q \in Spots(h) : q = <<q[1], q[2]>> /\ q[1] \in DOMAIN h /\ q[2] \in 1 .. Full /\ q[2] <= Size(h, q[1])
      /\ \A q \in Spots(g) : q = <<q[1], q[2]>> /\ q[1] \in DOMAIN h /\ q[2] \in 1 .. Full /\ q[2] <= Size(g, q[1])
  BY <1>1, SpotIs
<1>4. ASSUME NEW q \in Spots(h)
      PROVE  To(q) \in Z /\ From(To(q)) = q /\ SameKey(h, q, g, To(q))
  <2> DEFINE o == q[1]
             i == q[2]
  <2>1. q = <<o, i>> /\ o \in DOMAIN h /\ i \in Nat /\ i >= 1 /\ i <= Full /\ i <= Size(h, o)
    BY <1>1, <1>3
  <2> HIDE DEF o, i
  <2>2. CASE o = n /\ i < m
    <3>1. i \in 1 .. Full /\ i \in 1 .. Size(h, n) + 1 /\ i <= Size(g, n) /\ ~(i >= m) /\ i # m /\ ~(i > m)
      BY <2>1, <2>2, <1>1
    <3>2. To(q) = <<n, i>> /\ From(To(q)) = q
      BY <3>1, <2>1, <2>2 DEF PutSpot, PutOrig
    <3> QED
      BY <3>1, <3>2, <2>1, <2>2, <1>2, <1>3 DEF SameKey
  <2>3. CASE o = n /\ i >= m
    <3>1. /\ i + 1 \in 1 .. Full /\ i + 1 \in 1 .. Size(h, n) + 1 /\ i + 1 <= Size(g, n)
          /\ i + 1 # m /\ i + 1 > m /\ i + 1 - 1 = i
      BY <2>1, <2>3, <1>1
    <3>2. To(q) = <<n, i + 1>> /\ From(To(q)) = <<n, i + 1 - 1>>
      BY <3>1, <2>1, <2>3 DEF PutSpot, PutOrig
    <3> QED
      BY <3>1, <3>2, <2>1, <2>3, <1>2, <1>3 DEF SameKey
  <2>4. CASE o # n
    <3>1. i \in 1 .. Full /\ i \in 1 .. Size(h, o) /\ i <= Size(g, o)
      BY <2>1, <2>4, <1>1
    <3>2. To(q) = <<o, i>> /\ From(To(q)) = q
      BY <2>1, <2>4 DEF PutSpot, PutOrig
    <3> QED
      BY <3>1, <3>2, <2>1, <2>4, <1>2, <1>3 DEF SameKey
  <2> QED
    BY <2>1, <2>2, <2>3, <2>4, <1>1
<1>5. ASSUME NEW q \in Z
      PROVE  From(q) \in Spots(h) /\ To(From(q)) = q
  <2> DEFINE o == q[1]
             i == q[2]
  <2>1. /\ q = <<o, i>> /\ o \in DOMAIN h /\ i \in Nat /\ i >= 1 /\ i <= Full /\ i <= Size(g, o)
        /\ ~(o = n /\ i = m)
    BY <1>1, <1>3
  <2> HIDE DEF o, i, Z
  <2>2. CASE o = n /\ i < m
    <3>1. i \in 1 .. Full /\ i <= Size(h, n) /\ ~(i >= m) /\ ~(i > m)
      BY <2>1, <2>2, <1>1
    <3>2. From(q) = <<n, i>> /\ To(From(q)) = q
      BY <3>1, <2>1, <2>2 DEF PutSpot, PutOrig
    <3> QED
      BY <3>1, <3>2, <2>1, <2>2, <1>3
  <2>3. CASE o = n /\ i > m
    <3>1. i - 1 \in 1 .. Full /\ i - 1 <= Size(h, n) /\ i - 1 >= m /\ i - 1 + 1 = i
      BY <2>1, <2>3, <1>1
    <3>2. From(q) = <<n, i - 1>> /\ To(From(q)) = <<n, i - 1 + 1>>
      BY <3>1, <2>1, <2>3 DEF PutSpot, PutOrig
    <3> QED
      BY <3>1, <3>2, <2>1, <2>3, <1>3
  <2>4. CASE o # n
    <3>1. From(q) = <<o, i>> /\ To(From(q)) = q
      BY <2>1, <2>4 DEF PutSpot, PutOrig
    <3>2. i \in 1 .. Full /\ i <= Size(h, o)
      BY <2>1, <2>4, <1>1
    <3> QED
      BY <3>1, <3>2, <2>1, <2>4, <1>3
  <2> QED
    BY <2>1, <2>2, <2>3, <2>4, <1>1
<1>6. <<n, m>> \in Spots(g) /\ Key(g, n, m) = k /\ Arrays(g, n, m) = vs
  <2>1. m \in 1 .. Full /\ m \in 1 .. Size(h, n) + 1 /\ m <= Size(g, n)
    BY <1>1
  <2> QED
    BY <2>1, <1>2, <1>3
<1> HIDE DEF To, From, Z
<1> DEFINE F == [q \in Spots(h) |-> To(q)]
           G == [q \in Z |-> From(q)]
<1>7. F \in [Spots(h) -> Z] /\ G \in [Z -> Spots(h)]
  BY <1>4, <1>5
<1>8. \A q \in Spots(h) : G[F[q]] = q /\ SameKey(h, q, g, F[q])
  BY <1>4
<1>9. \A q \in Z : F[G[q]] = q
  BY <1>5
<1> HIDE DEF F, G
<1>10. Moved(h, g, Z)
  BY <1>7, <1>8, <1>9 DEF Moved
<1> QED
  BY <1>6, <1>10 DEF Z

\* One spot more, with one value.
LEMMA OneMore ==
  ASSUME NEW g, NEW Z, IsFiniteSet(Z), NEW q, q \notin Z, NEW k, NEW v, NEW vs,
         Key(g, q[1], q[2]) = k, Arrays(g, q[1], q[2]) = vs, vs[1].size = 1, vs[1].value[1] = v,
         NEW a, NEW b, NEW p, p = <<a, b>>
  PROVE  /\ p = <<k, v>> => Cardinality(SlotsAt(g, Z \cup {q}, p)) = Cardinality(SlotsAt(g, Z, p)) + 1
         /\ p # <<k, v>> => SlotsAt(g, Z \cup {q}, p) = SlotsAt(g, Z, p)
<1> DEFINE S == SlotsAt(g, Z, p)
           T == SlotsAt(g, Z \cup {q}, p)
<1>1. \A s : s \in S <=> s \in Z \X (1 .. ArraySize) /\ Stores(g, s[1], s[2], p)
  BY DEF SlotsAt
<1>2. \A s : s \in T <=> s \in (Z \cup {q}) \X (1 .. ArraySize) /\ Stores(g, s[1], s[2], p)
  BY DEF SlotsAt
<1>3. 1 \in 1 .. ArraySize /\ \A x \in 1 .. ArraySize : x <= 1 => x = 1
  BY UninitAssumption
<1>4. \A x \in 1 .. ArraySize : Stores(g, q, x, p) <=> x = 1 /\ p = <<k, v>>
  <2>1. p[1] = a /\ p[2] = b
    OBVIOUS
  <2>2. \A x \in 1 .. ArraySize : Stores(g, q, x, p) <=> k = a /\ x <= 1 /\ vs[1].value[x] = b
    BY <2>1 DEF Stores
  <2>3. p = <<k, v>> <=> k = a /\ v = b
    OBVIOUS
  <2> QED
    BY <2>2, <2>3, <1>3
<1> HIDE DEF S, T
<1>5. \A s \in T : s \in S \/ (s = <<q, 1>> /\ p = <<k, v>>)
  <2> SUFFICES ASSUME NEW s \in T PROVE s \in S \/ (s = <<q, 1>> /\ p = <<k, v>>)
    OBVIOUS
  <2>1. s = <<s[1], s[2]>> /\ s[1] \in Z \cup {q} /\ s[2] \in 1 .. ArraySize /\ Stores(g, s[1], s[2], p)
    BY <1>2
  <2>2. CASE s[1] = q
    <3>1. s[2] = 1 /\ p = <<k, v>>
      BY <2>1, <2>2, <1>4
    <3> QED
      BY <3>1, <2>1, <2>2
  <2>3. CASE s[1] \in Z
    BY <2>1, <2>3, <1>1
  <2> QED
    BY <2>1, <2>2, <2>3
<1>6. S \subseteq T
  BY <1>1, <1>2
<1>7. p = <<k, v>> => <<q, 1>> \in T
  <2> SUFFICES ASSUME p = <<k, v>> PROVE <<q, 1>> \in T
    OBVIOUS
  <2>1. Stores(g, q, 1, p)
    BY <1>3, <1>4
  <2>2. <<q, 1>> \in (Z \cup {q}) \X (1 .. ArraySize) /\ <<q, 1>>[1] = q /\ <<q, 1>>[2] = 1
    BY <1>3
  <2> QED
    BY <2>1, <2>2, <1>2
<1>8. <<q, 1>> \notin S
  BY <1>1
<1>9. IsFiniteSet(S)
  BY SlotsFinite DEF S
<1>10. p = <<k, v>> => T = S \cup {<<q, 1>>}
  BY <1>5, <1>6, <1>7
<1>11. p # <<k, v>> => T = S
  BY <1>5, <1>6
<1> QED
  BY <1>8, <1>9, <1>10, <1>11, FS_AddElement DEF S, T

-----------------------------------------------------------------------------
\* The invariant of the counts, and of the traversal.

\* The pointers that a traversal has followed, of the nodes E that it has entered, when T is
\* the stack: of a node on the stack those before the next key.
Followed(h, E, T) ==
  {q \in E \X (0 .. Full) : /\ q[2] <= Size(h, q[1])
                            /\ \A s \in DOMAIN T : T[s].node = q[1] => q[2] < T[s].next}

\* It has entered what these lead to, and nothing else; n is to be entered next.
Entered(h, r, n, E, T, D) ==
  /\ E \subseteq DOMAIN h
  /\ \A s \in DOMAIN T : T[s].node \in E /\ T[s].next \in 1 .. Size(h, T[s].node) + 1
  /\ \A s, t \in DOMAIN T : T[s].node = T[t].node => s = t
  /\ n \in (DOMAIN h \ E) \cup {NULL} /\ r \in E \cup {n, NULL}
  /\ \A q \in D : Ptr(h, q[1], q[2]) \in E \cup {n, NULL}
  /\ \A a \in E \cup {n} : a \in {r, NULL} \/ \E q \in D : Ptr(h, q[1], q[2]) = a

\* A key is passed before the pointer to the subtree before it is followed.
Past(h, D)  == {q \in D : q \in Spots(h)}
Times(s, p) == Cardinality({i \in DOMAIN s : s[i] = p})

BPair  == BKeys \X BValues
BFrame == [node : BAddress, next : Nat]

Counts == OneArray(b_nodes) => \A p \in BPair : added[p] = Cardinality(Slots(b_nodes, p))

\* Each pair has been passed as often as it is stored at the keys that have been passed.
PassedAre(D) ==
  OneArray(b_nodes) =>
    /\ b_passed \in Seq(BKeys \X (BValues \cup {NULL}))
    /\ \A p \in BPair : Times(b_passed, p) = Cardinality(SlotsAt(b_nodes, Past(b_nodes, D), p))

Walks ==
  IF b_pc = "walk"
  THEN /\ b_stack \in Seq(BFrame)
       /\ \E E, D : /\ D = Followed(b_nodes, E, b_stack)
                    /\ Entered(b_nodes, b_root, b_node, E, b_stack, D)
                    /\ PassedAre(D)
  ELSE b_stack = <<>>

\* Only a traversal ends with this call.
OthersCalled == b_pc \in {"search", "insert", "clear"} => b_call.op # "traverse"

CInv == /\ IsFiniteSet(DOMAIN b_nodes) /\ HasArray(b_nodes)
        /\ added \in [BPair -> Nat]
        /\ OthersCalled /\ Counts /\ Walks /\ EveryPairPassed

LEMMA CIdle ==
  ASSUME IsFiniteSet(DOMAIN b_nodes'), HasArray(b_nodes'), (added \in [BPair -> Nat])', Counts',
         b_pc' # "walk", b_stack' = <<>>, b_call'.op # "traverse"
  PROVE  CInv'
BY DEF CInv, OthersCalled, Walks, EveryPairPassed, B!EveryPairPassed

LEMMA CQuiet ==
  ASSUME CInv, b_pc \in {"search", "insert", "clear"}, UNCHANGED <<b_nodes, added, b_stack, b_call>>,
         b_pc' # "walk"
  PROVE  CInv'
<1>1. /\ IsFiniteSet(DOMAIN b_nodes') /\ HasArray(b_nodes') /\ (added \in [BPair -> Nat])' /\ Counts'
      /\ b_stack' = <<>> /\ b_call'.op # "traverse"
  BY DEF CInv, Counts, Walks, OthersCalled
<1> QED
  BY <1>1, CIdle

\* A heap without nodes.
LEMMA NoSlots ==
  ASSUME NEW h, DOMAIN h = {}
  PROVE  /\ IsFiniteSet(DOMAIN h) /\ HasArray(h) /\ Spots(h) = {}
         /\ \A p : Cardinality(Slots(h, p)) = 0
<1>1. Spots(h) = {}
  BY DEF Spots
<1>2. \A p : Slots(h, p) = {}
  BY <1>1 DEF Slots, SlotsAt
<1> QED
  BY <1>1, <1>2, FS_EmptySet DEF HasArray

LEMMA CInitial == B!Init => CInv
<1> SUFFICES ASSUME B!Init PROVE CInv
  OBVIOUS
<1>1. /\ b_nodes = <<>> /\ b_pc = "idle" /\ b_call = NULL /\ b_stack = <<>>
      /\ added = [p \in BPair |-> 0]
  BY DEF B!Init, B!NothingAdded, BPair
<1>2. DOMAIN b_nodes = {}
  BY <1>1, EmptyFacts
<1>3. IsFiniteSet(DOMAIN b_nodes) /\ HasArray(b_nodes) /\ Counts
  BY <1>1, <1>2, NoSlots DEF Counts
<1> QED
  BY <1>1, <1>3 DEF CInv, OthersCalled, Walks, EveryPairPassed, B!EveryPairPassed

LEMMA CClear ==
  ASSUME BInv, CInv, B!Clear
  PROVE  CInv'
<1>1. /\ b_nodes' = [a \in B!Allocated \ B!Reachable |-> b_nodes[a]] /\ b_pc = "clear"
      /\ b_pc' = "idle" /\ added' = [p \in BPair |-> 0] /\ b_stack' = b_stack /\ b_call' = b_call
  BY DEF B!Clear, B!Return, B!NothingAdded, BPair
<1>2. B!Reachable = B!Allocated
  BY ReachableMeant DEF BInv
<1>3. PICK g : g = b_nodes'
  OBVIOUS
<1>4. DOMAIN g = {}
  BY <1>1, <1>2, <1>3
<1>5. /\ IsFiniteSet(DOMAIN g) /\ HasArray(g) /\ \A p : Cardinality(Slots(g, p)) = 0
  BY <1>4, NoSlots
<1>6. Counts'
  BY <1>1, <1>3, <1>5 DEF Counts
<1> QED
  BY <1>1, <1>3, <1>5, <1>6, CIdle DEF CInv, OthersCalled, Walks

LEMMA CDivide ==
  ASSUME BInv, CInv, B!Descend \/ B!SplitRoot
  PROVE  CInv'
<1>1. /\ b_pc = "insert" /\ b_pc' = b_pc /\ UNCHANGED <<added, b_stack, b_call>>
  BY DEF B!Descend, B!SplitRoot, B!InsertingHere, B!Inserting
<1> SUFFICES /\ IsFiniteSet(DOMAIN b_nodes') /\ HasArray(b_nodes')
             /\ OneArray(b_nodes') => OneArray(b_nodes)
             /\ \A p : Cardinality(Slots(b_nodes', p)) = Cardinality(Slots(b_nodes, p))
  <2>1. Counts'
    BY <1>1 DEF CInv, Counts
  <2> QED
    BY <1>1, <2>1, CIdle DEF CInv, OthersCalled, Walks
<1>2. CASE B!Descend
  <2>1. BInv' /\ (b_nodes' = b_nodes \/ Divided(b_nodes, b_nodes'))
    BY <1>2, BDescend
  <2>2. CASE b_nodes' = b_nodes
    BY <2>2 DEF CInv
  <2>3. CASE Divided(b_nodes, b_nodes')
    <3>1. PICK g : g = b_nodes'
      OBVIOUS
    <3>2. Moved(b_nodes, g, Spots(g)) /\ IsFiniteSet(DOMAIN g)
      BY <2>1, <2>3, <3>1, DividedMoves DEF BInv, CInv
    <3> QED
      BY <3>1, <3>2, AllMoved DEF CInv
  <2> QED
    BY <2>1, <2>2, <2>3
<1>3. CASE B!SplitRoot
  <2>1. BInv' /\ \E u : Topping(b_nodes, u) /\ Divided(u, b_nodes')
    BY <1>3, BSplitRoot
  <2>2. PICK u : Topping(b_nodes, u) /\ Divided(u, b_nodes')
    BY <2>1
  <2>3. PICK g : g = b_nodes'
    OBVIOUS
  <2>4. Moved(b_nodes, u, Spots(u)) /\ IsFiniteSet(DOMAIN u)
    BY <2>2, ToppingMoves DEF CInv
  <2>5. Moved(u, g, Spots(g)) /\ IsFiniteSet(DOMAIN g)
    BY <2>1, <2>2, <2>3, <2>4, DividedMoves DEF BInv
  <2>6. /\ HasArray(b_nodes) => HasArray(u)
        /\ OneArray(u) => OneArray(b_nodes)
        /\ \A p : Cardinality(Slots(u, p)) = Cardinality(Slots(b_nodes, p))
    BY <2>4, AllMoved DEF CInv
  <2>7. /\ HasArray(u) => HasArray(g)
        /\ OneArray(g) => OneArray(u)
        /\ \A p : Cardinality(Slots(g, p)) = Cardinality(Slots(u, p))
    BY <2>4, <2>5, AllMoved
  <2> QED
    BY <2>3, <2>5, <2>6, <2>7 DEF CInv
<1> QED
  BY <1>2, <1>3

\* A pair is added: it is stored once more, and the others as often as they were.
LEMMA CAdd ==
  ASSUME BInv, CInv, b_pc \in {"search", "insert"}, b_call.op = "add", added' = B!Counted, b_pc' = "idle",
         b_call' = b_call, b_stack' = b_stack, NEW g, g = b_nodes',
         IsFiniteSet(DOMAIN g), HasArray(g), OneArray(g) => OneArray(b_nodes),
         OneArray(g) => \A p \in BPair :
           /\ p = <<b_call.key, b_call.value>> => Cardinality(Slots(g, p)) = Cardinality(Slots(b_nodes, p)) + 1
           /\ p # <<b_call.key, b_call.value>> => Cardinality(Slots(g, p)) = Cardinality(Slots(b_nodes, p))
  PROVE  CInv'
<1> DEFINE c == <<b_call.key, b_call.value>>
<1>1. c \in BPair
  BY DEF BInv, BCalled, BPair
<1>2. added' = [added EXCEPT ![c] = @ + 1] /\ added \in [BPair -> Nat]
  BY DEF B!Counted, CInv
<1> HIDE DEF c
<1>3. /\ (added \in [BPair -> Nat])' /\ added'[c] = added[c] + 1
      /\ \A p \in BPair : p # c => added'[p] = added[p]
  BY <1>1, <1>2
<1>4. Counts'
  BY <1>3 DEF Counts, CInv, c
<1> QED
  BY <1>3, <1>4, CIdle DEF CInv, Walks

\* mm_add_value() gives a new key one array with one value.
LEMMA NewKeyArray ==
  /\ Len(B!NewKey.values) = 1 /\ B!NewKey.values[1].size = 1
  /\ B!NewKey.values[1].value[1] = b_call.value /\ B!NewKey.key = b_call.key
<1>1. PICK z : z = B!NewArray(b_call.value, 1)
  OBVIOUS
<1>2. z.size = 1 /\ z.value[1] = b_call.value
  BY <1>1, UninitAssumption DEF B!NewArray
<1>3. B!NewKey.values = <<z>> /\ B!NewKey.key = b_call.key
  BY <1>1 DEF B!NewKey, B!WithValue
<1> QED
  BY <1>2, <1>3

LEMMA CExtend ==
  ASSUME BInv, CInv, B!AppendKey \/ B!InsertBefore
  PROVE  CInv'
<1>1. /\ b_pc = "insert" /\ b_pc' = "idle" /\ b_call.op = "add"
      /\ added' = B!Counted /\ b_stack' = b_stack /\ b_call' = b_call
  BY DEF B!AppendKey, B!InsertBefore, B!InsertingHere, B!Inserting, B!Return, BInv, BCalled
<1>2. BInv' /\ Extended(b_nodes, b_nodes', B!NewKey)
  BY BAppend, BInsert
<1> DEFINE h == b_nodes
<1>3. PICK g : g = b_nodes'
  OBVIOUS
<1>4. PICK e : e = B!NewKey
  OBVIOUS
<1>5. /\ Len(e.values) = 1 /\ e.values[1].size = 1
      /\ e.values[1].value[1] = b_call.value /\ e.key = b_call.key
  BY <1>4, NewKeyArray
<1>6. \E n \in DOMAIN h : \E m \in 1 .. Size(h, n) + 1 :
        PutKey(h, g, n, m, e.key) /\ Equipped(h, g, n, m, e.values)
  BY <1>2, <1>3, <1>4 DEF Extended
<1>7. PICK n \in DOMAIN h : \E m \in 1 .. Size(h, n) + 1 :
        PutKey(h, g, n, m, e.key) /\ Equipped(h, g, n, m, e.values)
  BY <1>6
<1>8. PICK m \in 1 .. Size(h, n) + 1 : PutKey(h, g, n, m, e.key) /\ Equipped(h, g, n, m, e.values)
  BY <1>7
<1>9. IsHeap(h) /\ IsFiniteSet(DOMAIN h) /\ HasArray(h)
  BY DEF BInv, CInv
<1> HIDE DEF h
<1>10. DOMAIN g = DOMAIN h /\ Size(g, n) <= Full
  <2>1. DOMAIN g = DOMAIN h
    BY <1>8 DEF PutKey
  <2>2. Shaped(g)
    BY <1>2, <1>3 DEF BInv
  <2> QED
    BY <2>1, <2>2, Factors DEF Shaped
<1> DEFINE q == <<n, m>>
           Z == Spots(g) \ {q}
<1>11. /\ q \in Spots(g) /\ Key(g, n, m) = e.key /\ Arrays(g, n, m) = e.values
       /\ Moved(h, g, Z)
  BY <1>8, <1>9, <1>10, PutMoves
<1>12. q[1] = n /\ q[2] = m
  OBVIOUS
<1> HIDE DEF q, Z
<1>13. PICK F \in [Spots(h) -> Z], G \in [Z -> Spots(h)] :
        /\ \A x \in Spots(h) : G[F[x]] = x /\ SameKey(h, x, g, F[x])
        /\ \A x \in Z : F[G[x]] = x
  BY <1>11 DEF Moved
<1>14. Spots(g) = Z \cup {q} /\ q \notin Z
  BY <1>11 DEF Z
<1>15. HasArray(g)
  <2> SUFFICES ASSUME NEW x \in Spots(g) PROVE Len(Arrays(g, x[1], x[2])) # 0
    BY DEF HasArray
  <2>1. CASE x = q
    BY <2>1, <1>5, <1>11, <1>12
  <2>2. CASE x \in Z
    BY <2>2, <1>9, <1>13 DEF HasArray, SameKey
  <2> QED
    BY <2>1, <2>2, <1>14
<1>16. OneArray(g) => OneArray(h)
  BY <1>13, <1>14 DEF OneArray, SameKey
<1>17. IsFiniteSet(DOMAIN g) /\ IsFiniteSet(Z)
  BY <1>9, <1>10, SpotsFinite, FS_Subset DEF Z
<1>18. ASSUME NEW p \in BPair
       PROVE  /\ p = <<b_call.key, b_call.value>> => Cardinality(Slots(g, p)) = Cardinality(Slots(h, p)) + 1
              /\ p # <<b_call.key, b_call.value>> => Cardinality(Slots(g, p)) = Cardinality(Slots(h, p))
  <2>1. p = <<p[1], p[2]>>
    BY DEF BPair
  <2>2. Cardinality(SlotsAt(g, Z, p)) = Cardinality(Slots(h, p))
    BY <1>9, <1>11, MovedSlots
  <2>3. PICK vs : vs = e.values
    OBVIOUS
  <2>4. /\ Key(g, q[1], q[2]) = b_call.key /\ Arrays(g, q[1], q[2]) = vs /\ vs[1].size = 1
        /\ vs[1].value[1] = b_call.value
    BY <2>3, <1>5, <1>11, <1>12
  <2>5. /\ p = <<b_call.key, b_call.value>> =>
              Cardinality(SlotsAt(g, Z \cup {q}, p)) = Cardinality(SlotsAt(g, Z, p)) + 1
        /\ p # <<b_call.key, b_call.value>> => SlotsAt(g, Z \cup {q}, p) = SlotsAt(g, Z, p)
    BY <2>1, <2>4, <1>14, <1>17, OneMore
  <2> QED
    BY <2>2, <2>5, <1>14 DEF Slots
<1> QED
  BY <1>1, <1>3, <1>15, <1>16, <1>17, <1>18, CAdd DEF h

LEMMA CCreate ==
  ASSUME BInv, CInv, B!CreateRoot
  PROVE  CInv'
<1>1. /\ b_pc = "insert" /\ b_pc' = "idle" /\ b_call.op = "add"
      /\ added' = B!Counted /\ b_stack' = b_stack /\ b_call' = b_call
  BY DEF B!CreateRoot, B!Inserting, B!Return, BInv, BCalled
<1>2. /\ BInv' /\ DOMAIN b_nodes = {}
      /\ \E a : b_nodes' = [x \in {a} |-> [keys |-> <<B!NewKey>>, child |-> NULL]]
  BY BCreate
<1>3. PICK a : b_nodes' = [x \in {a} |-> [keys |-> <<B!NewKey>>, child |-> NULL]]
  BY <1>2
<1>4. PICK e : e = B!NewKey
  OBVIOUS
<1>5. PICK g : g = b_nodes'
  OBVIOUS
<1>6. /\ Len(e.values) = 1 /\ e.values[1].size = 1
      /\ e.values[1].value[1] = b_call.value /\ e.key = b_call.key
  BY <1>4, NewKeyArray
<1>7. g = [x \in {a} |-> [keys |-> <<e>>, child |-> NULL]]
  BY <1>3, <1>4, <1>5
<1>8. DOMAIN g = {a} /\ Size(g, a) = 1 /\ Key(g, a, 1) = e.key /\ Arrays(g, a, 1) = e.values
  BY <1>7 DEF Size, Key, Arrays
<1> DEFINE q == <<a, 1>>
<1>9. Spots(g) = {q}
  <2>1. 1 \in 1 .. Full /\ \A i \in 1 .. Full : i <= 1 => i = 1
    BY Factors
  <2> QED
    BY <2>1, <1>8 DEF Spots
<1>10. q[1] = a /\ q[2] = 1
  OBVIOUS
<1> HIDE DEF q
<1>11. IsFiniteSet(DOMAIN g) /\ HasArray(g)
  <2>1. IsFiniteSet(DOMAIN g)
    BY <1>8, FS_Singleton
  <2>2. Len(Arrays(g, q[1], q[2])) # 0
    BY <1>6, <1>8, <1>10
  <2> QED
    BY <2>1, <2>2, <1>9 DEF HasArray
<1>12. Spots(b_nodes) = {} /\ \A p : Cardinality(Slots(b_nodes, p)) = 0
  BY <1>2, NoSlots
<1>13. OneArray(b_nodes)
  BY <1>12 DEF OneArray
<1>14. ASSUME NEW p \in BPair
       PROVE  /\ p = <<b_call.key, b_call.value>> =>
                   Cardinality(Slots(g, p)) = Cardinality(Slots(b_nodes, p)) + 1
              /\ p # <<b_call.key, b_call.value>> =>
                   Cardinality(Slots(g, p)) = Cardinality(Slots(b_nodes, p))
  <2>1. p = <<p[1], p[2]>>
    BY DEF BPair
  <2>2. PICK vs : vs = e.values
    OBVIOUS
  <2>3. /\ Key(g, q[1], q[2]) = b_call.key /\ Arrays(g, q[1], q[2]) = vs /\ vs[1].size = 1
        /\ vs[1].value[1] = b_call.value
    BY <2>2, <1>6, <1>8, <1>10
  <2>4. PICK Z : Z = Spots(b_nodes)
    OBVIOUS
  <2>5. IsFiniteSet(Z) /\ q \notin Z
    BY <2>4, <1>12, FS_EmptySet
  <2>6. /\ p = <<b_call.key, b_call.value>> =>
              Cardinality(SlotsAt(g, Z \cup {q}, p)) = Cardinality(SlotsAt(g, Z, p)) + 1
        /\ p # <<b_call.key, b_call.value>> => SlotsAt(g, Z \cup {q}, p) = SlotsAt(g, Z, p)
    BY <2>1, <2>3, <2>5, OneMore
  <2>7. SlotsAt(g, Z, p) = {} /\ Z \cup {q} = Spots(g)
    BY <2>4, <1>9, <1>12 DEF SlotsAt
  <2>8. Cardinality(SlotsAt(g, Z, p)) = 0
    BY <2>7, FS_EmptySet
  <2> QED
    BY <2>6, <2>7, <2>8, <1>12 DEF Slots
<1> QED
  BY <1>1, <1>5, <1>11, <1>13, <1>14, CAdd

\* A value is added to a key of one array, which has room for it.
LEMMA WithValueFacts ==
  ASSUME NEW old \in Seq(BArray), Len(old) # 0, NEW v \in BValues, NEW size \in Uninit,
         NEW vs, vs = B!WithValue(old, v, size)
  PROVE  /\ Len(vs) # 0
         /\ Len(vs) = 1 => /\ Len(old) = 1 /\ old[1].size \in 0 .. ArraySize - 1
                           /\ vs[1].size = old[1].size + 1
                           /\ \A x \in 1 .. ArraySize :
                                vs[1].value[x] = IF x = old[1].size + 1 THEN v ELSE old[1].value[x]
<1> DEFINE n    == Len(old)
           tail == old[n]
           more == [value |-> [tail.value EXCEPT ![tail.size + 1] = v], size |-> tail.size + 1]
<1>1. n \in Nat /\ n \in 1 .. n /\ DOMAIN old = 1 .. n /\ n # 0 /\ old # <<>>
  OBVIOUS
<1>2. /\ tail.value \in [1 .. ArraySize -> BValues \cup {NULL}] /\ tail.size \in 0 .. ArraySize
      /\ ArraySize \in Nat
  <2>1. tail \in BArray
    BY <1>1
  <2> QED
    BY <2>1, UninitAssumption DEF BArray
<1>3. vs = IF tail.size = ArraySize THEN Append(old, B!NewArray(v, size)) ELSE [old EXCEPT ![n] = more]
  BY <1>1 DEF B!WithValue
<1>4. CASE tail.size = ArraySize
  <2>1. PICK z : z = B!NewArray(v, size)
    OBVIOUS
  <2>2. vs = Append(old, z)
    BY <2>1, <1>3, <1>4
  <2>3. Len(vs) = n + 1
    BY <2>2
  <2> HIDE DEF n
  <2>4. Len(vs) # 0 /\ Len(vs) # 1
    BY <2>3, <1>1
  <2> QED
    BY <2>4
<1>5. CASE tail.size # ArraySize
  <2>1. vs = [old EXCEPT ![n] = more]
    BY <1>3, <1>5
  <2> DEFINE s == tail.size
             w == more
  <2>2. s \in 0 .. ArraySize - 1
    BY <1>2, <1>5
  <2>3. /\ w.size = s + 1
        /\ \A x \in 1 .. ArraySize : w.value[x] = IF x = s + 1 THEN v ELSE tail.value[x]
    BY <1>2
  <2> HIDE DEF more, w, s
  <2>4. Len(vs) = n /\ vs[n] = w
    BY <2>1, <1>1 DEF w
  <2> QED
    BY <2>2, <2>3, <2>4, <1>1 DEF s
<1> QED
  BY <1>4, <1>5

LEMMA CAddValue ==
  ASSUME BInv, CInv, B!AddValue
  PROVE  CInv'
<1> DEFINE h == b_nodes
           v == b_call.value
<1>1. /\ b_pc = "search" /\ b_pc' = "idle" /\ b_call.op = "add" /\ v \in BValues
      /\ added' = B!Counted /\ b_stack' = b_stack /\ b_call' = b_call
  BY DEF B!AddValue, B!Searching, B!Return, BInv, BCalled
<1>2. PICK n, j : \E size \in Uninit :
        /\ Key(h, n, j) = b_call.key
        /\ Refilled(h, b_nodes', n, j, B!WithValue(Arrays(h, n, j), v, size))
  BY BAddValue
<1>3. PICK size \in Uninit :
        /\ Key(h, n, j) = b_call.key
        /\ Refilled(h, b_nodes', n, j, B!WithValue(Arrays(h, n, j), v, size))
  BY <1>2
<1>4. PICK g : g = b_nodes'
  OBVIOUS
<1>5. PICK vs : vs = B!WithValue(Arrays(h, n, j), v, size)
  OBVIOUS
<1>6. IsHeap(h) /\ Shaped(h) /\ IsFiniteSet(DOMAIN h) /\ HasArray(h)
  BY DEF BInv, CInv
<1> HIDE DEF h, v
<1>7. /\ n \in DOMAIN h /\ j \in 1 .. Size(h, n) /\ DOMAIN g = DOMAIN h
      /\ \A o \in DOMAIN h : /\ Size(g, o) = Size(h, o)
                             /\ \A i \in 1 .. Size(h, o) : Key(g, o, i) = Key(h, o, i)
      /\ Arrays(g, n, j) = vs
      /\ \A o \in DOMAIN h : \A i \in 1 .. Size(h, o) :
           Arrays(g, o, i) = Arrays(h, o, i) \/ (o = n /\ i = j)
  BY <1>3, <1>4, <1>5 DEF Refilled, SameNode
<1> DEFINE q == <<n, j>>
           old == Arrays(h, n, j)
           s == old[1].size
<1>8. Size(h, n) \in 1 .. Full /\ j \in 1 .. Full /\ j <= Size(h, n)
  <2>1. Size(h, n) \in 1 .. Full
    BY <1>6, <1>7 DEF Shaped
  <2> QED
    BY <2>1, <1>7, Factors
<1>9. q \in Spots(h) /\ q[1] = n /\ q[2] = j
  BY <1>7, <1>8 DEF Spots
<1>10. Spots(g) = Spots(h)
  BY <1>7 DEF Spots
<1>11. \A x \in Spots(h) : /\ Key(g, x[1], x[2]) = Key(h, x[1], x[2])
                           /\ x # q => Arrays(g, x[1], x[2]) = Arrays(h, x[1], x[2])
  <2> SUFFICES ASSUME NEW x \in Spots(h)
               PROVE  /\ Key(g, x[1], x[2]) = Key(h, x[1], x[2])
                      /\ x # q => Arrays(g, x[1], x[2]) = Arrays(h, x[1], x[2])
    OBVIOUS
  <2>1. x = <<x[1], x[2]>> /\ x[1] \in DOMAIN h /\ x[2] \in 1 .. Full /\ x[2] <= Size(h, x[1])
    BY SpotIs
  <2>2. x[2] \in 1 .. Size(h, x[1])
    <3>1. Size(h, x[1]) \in Nat
      BY <2>1, <1>6, HeapFacts
    <3> QED
      BY <3>1, <2>1, Factors
  <2> QED
    BY <2>1, <2>2, <1>7
<1>12. old \in Seq(BArray) /\ Len(old) # 0
  <2>1. h[n].keys[j] \in BKey
    BY <1>6, <1>7, HeapFacts
  <2>2. Len(Arrays(h, q[1], q[2])) # 0
    BY <1>6, <1>9 DEF HasArray
  <2> QED
    BY <2>1, <2>2, <1>9 DEF BKey, Arrays
<1> HIDE DEF q, old
<1>13. /\ Len(vs) # 0
       /\ Len(vs) = 1 => /\ Len(old) = 1 /\ s \in 0 .. ArraySize - 1 /\ vs[1].size = s + 1
                         /\ \A x \in 1 .. ArraySize :
                              vs[1].value[x] = IF x = s + 1 THEN v ELSE old[1].value[x]
  <2>1. vs = B!WithValue(old, v, size) /\ v \in BValues
    BY <1>1, <1>5 DEF old, v
  <2> QED
    BY <2>1, <1>12, WithValueFacts
<1>14. HasArray(g)
  <2> SUFFICES ASSUME NEW x \in Spots(h) PROVE Len(Arrays(g, x[1], x[2])) # 0
    BY <1>10 DEF HasArray
  <2>1. CASE x = q
    BY <2>1, <1>7, <1>9, <1>13
  <2>2. CASE x # q
    BY <2>2, <1>6, <1>11 DEF HasArray
  <2> QED
    BY <2>1, <2>2
<1>15. OneArray(g) => Len(vs) = 1
  BY <1>7, <1>9, <1>10 DEF OneArray
<1>16. OneArray(g) => OneArray(h)
  <2> SUFFICES ASSUME OneArray(g), NEW x \in Spots(h) PROVE Len(Arrays(h, x[1], x[2])) = 1
    BY DEF OneArray
  <2>1. CASE x = q
    BY <2>1, <1>9, <1>13, <1>15 DEF old
  <2>2. CASE x # q
    BY <2>2, <1>10, <1>11 DEF OneArray
  <2> QED
    BY <2>1, <2>2
<1>17. ASSUME OneArray(g), NEW p \in BPair
       PROVE  /\ p = <<b_call.key, b_call.value>> => Cardinality(Slots(g, p)) = Cardinality(Slots(h, p)) + 1
              /\ p # <<b_call.key, b_call.value>> => Cardinality(Slots(g, p)) = Cardinality(Slots(h, p))
  <2>1. /\ s \in 0 .. ArraySize - 1 /\ vs[1].size = s + 1 /\ s + 1 \in 1 .. ArraySize
        /\ \A x \in 1 .. ArraySize : vs[1].value[x] = IF x = s + 1 THEN v ELSE old[1].value[x]
        /\ \A x \in 1 .. ArraySize : x <= s + 1 <=> x <= s \/ x = s + 1
        /\ ~(s + 1 <= s)
    <3>1. s \in 0 .. ArraySize - 1 /\ ArraySize \in Nat
      BY <1>13, <1>15, <1>17, UninitAssumption
    <3> HIDE DEF s
    <3>2. /\ s + 1 \in 1 .. ArraySize /\ ~(s + 1 <= s)
          /\ \A x \in 1 .. ArraySize : x <= s + 1 <=> x <= s \/ x = s + 1
      BY <3>1
    <3> QED
      BY <3>1, <3>2, <1>13, <1>15, <1>17
  <2>2. p = <<p[1], p[2]>>
    BY DEF BPair
  <2>3. p = <<b_call.key, v>> <=> p[1] = b_call.key /\ p[2] = v
    BY <2>2
  <2>4. Key(h, q[1], q[2]) = b_call.key /\ Key(g, q[1], q[2]) = b_call.key
        /\ Arrays(g, q[1], q[2]) = vs /\ Arrays(h, q[1], q[2]) = old
    BY <1>3, <1>7, <1>9, <1>11 DEF old
  <2> HIDE DEF s
  <2>5. \A x \in 1 .. ArraySize :
          Stores(g, q, x, p) <=> Stores(h, q, x, p) \/ (x = s + 1 /\ p = <<b_call.key, v>>)
    <3>1. \A x \in 1 .. ArraySize :
            Stores(h, q, x, p) <=> b_call.key = p[1] /\ x <= s /\ old[1].value[x] = p[2]
      BY <2>4 DEF Stores, s
    <3>2. \A x \in 1 .. ArraySize :
            Stores(g, q, x, p) <=> b_call.key = p[1] /\ x <= s + 1 /\ vs[1].value[x] = p[2]
      BY <2>1, <2>4 DEF Stores
    <3> QED
      BY <3>1, <3>2, <2>1, <2>3
  <2>6. ~Stores(h, q, s + 1, p)
    BY <2>1, <2>4 DEF Stores, s
  <2>7. \A x \in Spots(h) : x # q => \A y : Stores(g, x, y, p) <=> Stores(h, x, y, p)
    BY <1>11 DEF Stores
  <2> DEFINE S == Slots(h, p)
             T == Slots(g, p)
             new == <<q, s + 1>>
  <2>8. \A z : z \in S <=> z \in Spots(h) \X (1 .. ArraySize) /\ Stores(h, z[1], z[2], p)
    BY DEF Slots, SlotsAt
  <2>9. \A z : z \in T <=> z \in Spots(h) \X (1 .. ArraySize) /\ Stores(g, z[1], z[2], p)
    BY <1>10 DEF Slots, SlotsAt
  <2>10. new[1] = q /\ new[2] = s + 1 /\ new \in Spots(h) \X (1 .. ArraySize)
    BY <2>1, <1>9
  <2> HIDE DEF S, T, new
  <2>11. ASSUME NEW z \in Spots(h) \X (1 .. ArraySize)
         PROVE  z \in T <=> z \in S \/ (z = new /\ p = <<b_call.key, v>>)
    <3>1. z = <<z[1], z[2]>> /\ z[1] \in Spots(h) /\ z[2] \in 1 .. ArraySize
      OBVIOUS
    <3>2. CASE z[1] = q
      <4>1. z[2] = s + 1 <=> z = new
        BY <3>1, <3>2 DEF new
      <4>2. z \in T <=> Stores(g, q, z[2], p)
        BY <3>2, <2>9
      <4>3. z \in S <=> Stores(h, q, z[2], p)
        BY <3>2, <2>8
      <4> QED
        BY <4>1, <4>2, <4>3, <3>1, <2>5
    <3>3. CASE z[1] # q
      BY <3>1, <3>3, <2>7, <2>8, <2>9, <2>10
    <3> QED
      BY <3>2, <3>3
  <2>12. new \notin S
    BY <2>6, <2>8, <2>10
  <2>13. p = <<b_call.key, v>> => T = S \cup {new}
    BY <2>8, <2>9, <2>10, <2>11
  <2>14. p # <<b_call.key, v>> => T = S
    BY <2>8, <2>9, <2>11
  <2>15. IsFiniteSet(S)
    BY <1>6, SpotsFinite, SlotsFinite DEF S, Slots
  <2>16. p = <<b_call.key, v>> => Cardinality(T) = Cardinality(S) + 1
    BY <2>12, <2>13, <2>15, FS_AddElement
  <2> QED
    BY <2>14, <2>16 DEF S, T, v
<1> QED
  BY <1>1, <1>4, <1>6, <1>7, <1>14, <1>16, <1>17, CAdd DEF h, v

-----------------------------------------------------------------------------
\* The traversal.

\* One more pointer is followed, of a node that has been entered or is entered now.
LEMMA FollowOne ==
  ASSUME NEW h, NEW r, Tree(h, r), NULL \notin DOMAIN h, NEW x, NEW E, NEW T, NEW D, Entered(h, r, x, E, T, D),
         \A q \in D : q = <<q[1], q[2]>> /\ q[1] \in E /\ q[2] \in 0 .. Size(h, q[1]),
         NEW F, F = E \cup ({x} \ {NULL}),
         NEW m \in F, NEW i \in 0 .. Size(h, m), <<m, i>> \notin D, NEW U,
         \A s \in DOMAIN U : U[s].node \in F /\ U[s].next \in 1 .. Size(h, U[s].node) + 1,
         \A s, t \in DOMAIN U : U[s].node = U[t].node => s = t
  PROVE  Entered(h, r, Ptr(h, m, i), F, U, D \cup {<<m, i>>})
<1> DEFINE y == Ptr(h, m, i)
           C == D \cup {<<m, i>>}
<1>1. /\ E \subseteq DOMAIN h /\ x \in (DOMAIN h \ E) \cup {NULL} /\ r \in E \cup {x, NULL}
      /\ \A q \in D : Ptr(h, q[1], q[2]) \in E \cup {x, NULL}
      /\ \A a \in E \cup {x} : a \in {r, NULL} \/ \E q \in D : Ptr(h, q[1], q[2]) = a
  BY DEF Entered
<1>2. F \subseteq DOMAIN h /\ m \in DOMAIN h
  BY <1>1
<1>3. y \in (DOMAIN h \ {r}) \cup {NULL}
  BY <1>2 DEF Tree
<1>4. ASSUME y # NULL, y \in F PROVE FALSE
  <2>1. y \in E \cup {x} /\ y \notin {r, NULL}
    BY <1>3, <1>4
  <2>2. PICK q \in D : Ptr(h, q[1], q[2]) = y
    BY <2>1, <1>1
  <2>3. q = <<q[1], q[2]>> /\ q[1] \in DOMAIN h /\ q[2] \in 0 .. Size(h, q[1])
    BY <1>1
  <2>4. q[1] = m /\ q[2] = i
    BY <2>2, <2>3, <1>2, <1>4 DEF Tree
  <2> QED
    BY <2>3, <2>4
<1>5. \A q \in C : Ptr(h, q[1], q[2]) \in F \cup {y, NULL}
  <2>1. ASSUME NEW q \in D PROVE Ptr(h, q[1], q[2]) \in F \cup {NULL}
    BY <1>1
  <2>2. <<m, i>>[1] = m /\ <<m, i>>[2] = i
    OBVIOUS
  <2> QED
    BY <2>1, <2>2
<1>6. \A a \in F \cup {y} : a \in {r, NULL} \/ \E q \in C : Ptr(h, q[1], q[2]) = a
  <2>1. <<m, i>> \in C /\ <<m, i>>[1] = m /\ <<m, i>>[2] = i
    OBVIOUS
  <2>2. \A a \in F : a \in {r, NULL} \/ \E q \in D : Ptr(h, q[1], q[2]) = a
    BY <1>1
  <2> QED
    BY <2>1, <2>2
<1>7. r \in F \cup {y, NULL}
  BY <1>1
<1> HIDE DEF y, C
<1>8. Entered(h, r, y, F, U, C)
  BY <1>2, <1>3, <1>4, <1>5, <1>6, <1>7 DEF Entered
<1> QED
  BY <1>8 DEF y, C

LEMMA FollowedIs ==
  ASSUME NEW h, NEW E, NEW T, NEW D, D = Followed(h, E, T), \A n \in E : Size(h, n) \in 0 .. Full
  PROVE  /\ \A q \in D : q = <<q[1], q[2]>> /\ q[1] \in E /\ q[2] \in 0 .. Size(h, q[1])
         /\ \A n \in E : \A i \in 0 .. Size(h, n) :
              <<n, i>> \in D <=> \A s \in DOMAIN T : T[s].node = n => i < T[s].next
<1>1. \A q \in D : q = <<q[1], q[2]>> /\ q[1] \in E /\ q[2] \in 0 .. Full /\ q[2] <= Size(h, q[1])
  BY DEF Followed
<1>2. \A n \in E : \A i \in 0 .. Size(h, n) : i \in 0 .. Full /\ i <= Size(h, n)
  BY Factors
<1>3. \A n \in E : \A i \in 0 .. Full : i <= Size(h, n) => i \in 0 .. Size(h, n)
  BY Factors
<1>4. \A n \in E : \A i \in 0 .. Size(h, n) :
        <<n, i>> \in D <=> \A s \in DOMAIN T : T[s].node = n => i < T[s].next
  BY <1>2 DEF Followed
<1> QED
  BY <1>1, <1>3, <1>4

LEMMA SameFollowed ==
  ASSUME NEW h, NEW E, NEW T, NEW D, \A n \in E : Size(h, n) \in 0 .. Full,
         \A q \in D : q = <<q[1], q[2]>> /\ q[1] \in E /\ q[2] \in 0 .. Size(h, q[1]),
         \A n \in E : \A i \in 0 .. Size(h, n) :
            <<n, i>> \in D <=> \A s \in DOMAIN T : T[s].node = n => i < T[s].next
  PROVE  D = Followed(h, E, T)
<1>1. PICK C : C = Followed(h, E, T)
  OBVIOUS
<1>2. /\ \A q \in C : q = <<q[1], q[2]>> /\ q[1] \in E /\ q[2] \in 0 .. Size(h, q[1])
      /\ \A n \in E : \A i \in 0 .. Size(h, n) :
           <<n, i>> \in C <=> \A s \in DOMAIN T : T[s].node = n => i < T[s].next
  BY <1>1, FollowedIs
<1>3. C \subseteq D
  BY <1>2
<1>4. D \subseteq C
  BY <1>2
<1> QED
  BY <1>1, <1>3, <1>4

\* What a traversal is at.
LEMMA WalkFacts ==
  ASSUME BInv, CInv, b_pc = "walk"
  PROVE  /\ IsHeap(b_nodes) /\ Tree(b_nodes, b_root) /\ NULL \notin DOMAIN b_nodes
         /\ \A n \in DOMAIN b_nodes : Size(b_nodes, n) \in 1 .. Full /\ Size(b_nodes, n) \in 0 .. Full
         /\ b_stack \in Seq(BFrame)
         /\ \E E, D : /\ D = Followed(b_nodes, E, b_stack)
                      /\ Entered(b_nodes, b_root, b_node, E, b_stack, D)
                      /\ PassedAre(D)
<1>1. \A n \in DOMAIN b_nodes : Size(b_nodes, n) \in 0 .. Full
  BY Factors DEF BInv, Shaped
<1> QED
  BY <1>1, BKeysAssumption DEF BInv, IsHeap, Shaped, CInv, Walks

LEMMA CWalk ==
  ASSUME CInv, b_pc' = "walk", UNCHANGED <<b_nodes, b_root, added>>, (b_stack \in Seq(BFrame))',
         NEW E, NEW D, D = Followed(b_nodes, E, b_stack'),
         Entered(b_nodes, b_root, b_node', E, b_stack', D), PassedAre(D)'
  PROVE  CInv'
<1>1. Walks'
  BY DEF Walks
<1>2. Counts'
  BY DEF CInv, Counts
<1> QED
  BY <1>1, <1>2 DEF CInv, OthersCalled, EveryPairPassed, B!EveryPairPassed

LEMMA CInvoke ==
  ASSUME BInv, CInv, NEW c \in B!Calls, B!Invoke(c)
  PROVE  CInv'
<1>1. /\ b_pc = "idle" /\ b_call' = c /\ b_node' = b_root /\ b_passed' = <<>> /\ b_stack' = b_stack
      /\ UNCHANGED <<b_root, b_nodes, added>>
      /\ b_pc' = CASE c.op \in B!Searches -> "search" [] c.op = "traverse" -> "walk" [] OTHER -> "clear"
  BY DEF B!Invoke
<1>2. b_stack = <<>>
  BY <1>1 DEF CInv, Walks
<1>3. CASE c.op = "traverse"
  <2>1. b_pc' = "walk"
    BY <1>1, <1>3 DEF B!Searches
  <2> DEFINE h == b_nodes
  <2>2. {} = Followed(h, {}, b_stack')
    BY DEF Followed
  <2>3. Entered(h, b_root, b_node', {}, b_stack', {})
    <3>1. DOMAIN b_stack' = {}
      BY <1>1, <1>2
    <3>2. b_root \in DOMAIN h \cup {NULL}
      BY DEF BInv, Tree
    <3> QED
      BY <3>1, <3>2, <1>1 DEF Entered
  <2>4. PassedAre({})'
    <3>1. \A p : Cardinality(SlotsAt(h, Past(h, {}), p)) = 0
      <4>1. \A p : SlotsAt(h, Past(h, {}), p) = {}
        BY DEF SlotsAt, Past
      <4> QED
        BY <4>1, FS_EmptySet
    <3>2. \A p : Times(<<>>, p) = 0
      <4>1. \A p : {i \in DOMAIN <<>> : <<>>[i] = p} = {}
        BY EmptyFacts
      <4> QED
        BY <4>1, FS_EmptySet DEF Times
    <3>3. <<>> \in Seq(BKeys \X (BValues \cup {NULL}))
      OBVIOUS
    <3> QED
      BY <3>1, <3>2, <3>3, <1>1 DEF PassedAre
  <2>5. (b_stack \in Seq(BFrame))'
    BY <1>1, <1>2
  <2> QED
    BY <2>1, <2>2, <2>3, <2>4, <2>5, <1>1, CWalk
<1>4. CASE c.op # "traverse"
  <2>1. b_pc' # "walk"
    BY <1>1, <1>4
  <2>2. Counts'
    BY <1>1 DEF CInv, Counts
  <2> QED
    BY <2>1, <2>2, <1>1, <1>2, <1>4, CIdle DEF CInv
<1> QED
  BY <1>3, <1>4

LEMMA PushFacts ==
  ASSUME NEW T \in Seq(BFrame), NEW f \in BFrame, NEW U, U = <<f>> \o T
  PROVE  /\ U \in Seq(BFrame) /\ 1 \in DOMAIN U /\ U[1] = f
         /\ \A s \in DOMAIN U : s # 1 => s - 1 \in DOMAIN T /\ U[s] = T[s - 1] /\ s = s - 1 + 1
         /\ \A s \in DOMAIN T : s + 1 \in DOMAIN U /\ U[s + 1] = T[s]
<1>1. /\ <<f>> \in Seq(BFrame) /\ Len(<<f>>) = 1 /\ <<f>>[1] = f /\ Len(T) \in Nat
      /\ DOMAIN T = 1 .. Len(T)
  OBVIOUS
<1>2. /\ U \in Seq(BFrame) /\ Len(U) = 1 + Len(T) /\ DOMAIN U = 1 .. Len(U)
      /\ \A s \in 1 .. Len(U) : U[s] = IF s <= 1 THEN <<f>>[s] ELSE T[s - 1]
  BY <1>1
<1>3. \A s \in DOMAIN U : s # 1 => s - 1 \in DOMAIN T /\ U[s] = T[s - 1] /\ s = s - 1 + 1
  BY <1>1, <1>2
<1>4. \A s \in DOMAIN T : s + 1 \in DOMAIN U /\ U[s + 1] = T[s]
  BY <1>1, <1>2
<1> QED
  BY <1>1, <1>2, <1>3, <1>4

LEMMA CEnter ==
  ASSUME BInv, CInv, B!Enter
  PROVE  CInv'
<1>1. /\ b_pc = "walk" /\ b_pc' = "walk" /\ b_node # NULL /\ b_node' = Ptr(b_nodes, b_node, 0)
      /\ b_stack' = <<[node |-> b_node, next |-> 1]>> \o b_stack
      /\ UNCHANGED <<b_root, b_nodes, b_passed, added>>
  BY Meant DEF B!Enter, B!Walking
<1>2. PICK h, x, T, U : h = b_nodes /\ x = b_node /\ T = b_stack /\ U = b_stack'
  OBVIOUS
<1>3. /\ IsHeap(h) /\ Tree(h, b_root) /\ NULL \notin DOMAIN h
      /\ \A n \in DOMAIN h : Size(h, n) \in 1 .. Full /\ Size(h, n) \in 0 .. Full
      /\ T \in Seq(BFrame)
      /\ \E E, D : D = Followed(h, E, T) /\ Entered(h, b_root, x, E, T, D) /\ PassedAre(D)
  BY <1>1, <1>2, WalkFacts
<1>4. PICK E, D : D = Followed(h, E, T) /\ Entered(h, b_root, x, E, T, D) /\ PassedAre(D)
  BY <1>3
<1>5. /\ E \subseteq DOMAIN h /\ x \in DOMAIN h \ E
      /\ \A s \in DOMAIN T : T[s].node \in E /\ T[s].next \in 1 .. Size(h, T[s].node) + 1
      /\ \A s, t \in DOMAIN T : T[s].node = T[t].node => s = t
  BY <1>1, <1>2, <1>4 DEF Entered
<1>6. \A n \in E : Size(h, n) \in 0 .. Full
  BY <1>3, <1>5
<1>7. /\ \A q \in D : q = <<q[1], q[2]>> /\ q[1] \in E /\ q[2] \in 0 .. Size(h, q[1])
      /\ \A n \in E : \A i \in 0 .. Size(h, n) :
           <<n, i>> \in D <=> \A s \in DOMAIN T : T[s].node = n => i < T[s].next
  BY <1>4, <1>6, FollowedIs
<1>8. PICK f \in BFrame : f = [node |-> x, next |-> 1]
  BY <1>3, <1>5 DEF BFrame, IsHeap
<1>9. f.node = x /\ f.next = 1
  BY <1>8
<1>10. /\ U \in Seq(BFrame) /\ 1 \in DOMAIN U /\ U[1] = f
       /\ \A s \in DOMAIN U : s # 1 => s - 1 \in DOMAIN T /\ U[s] = T[s - 1] /\ s = s - 1 + 1
       /\ \A s \in DOMAIN T : s + 1 \in DOMAIN U /\ U[s + 1] = T[s]
  BY <1>1, <1>2, <1>3, <1>8, PushFacts
<1>11. PICK F : F = E \cup {x}
  OBVIOUS
<1>12. /\ \A n \in F : Size(h, n) \in 0 .. Full /\ n \in DOMAIN h
       /\ x \in F /\ 0 \in 0 .. Size(h, x) /\ 1 \in 1 .. Size(h, x) + 1
  BY <1>3, <1>5, <1>6, <1>11, Factors
<1>13. \A s \in DOMAIN U : U[s].node \in F /\ U[s].next \in 1 .. Size(h, U[s].node) + 1
  BY <1>5, <1>9, <1>10, <1>11, <1>12
<1>14. \A s, t \in DOMAIN U : U[s].node = U[t].node => s = t
  <2>1. \A s \in DOMAIN U : U[s].node = x => s = 1
    BY <1>5, <1>10
  <2> SUFFICES ASSUME NEW s \in DOMAIN U, NEW t \in DOMAIN U, U[s].node = U[t].node PROVE s = t
    OBVIOUS
  <2>2. CASE s = 1 \/ t = 1
    BY <2>1, <2>2, <1>9, <1>10
  <2>3. CASE s # 1 /\ t # 1
    <3>1. s - 1 = t - 1
      BY <2>3, <1>5, <1>10
    <3> QED
      BY <3>1, <2>3, <1>10
  <2> QED
    BY <2>2, <2>3
<1>15. PICK C : C = D \cup {<<x, 0>>}
  OBVIOUS
<1>16. C = Followed(h, F, U)
  <2>1. \A q \in C : q = <<q[1], q[2]>> /\ q[1] \in F /\ q[2] \in 0 .. Size(h, q[1])
    BY <1>7, <1>11, <1>12, <1>15
  <2>2. ASSUME NEW n \in F, NEW i \in 0 .. Size(h, n)
        PROVE  <<n, i>> \in C <=> \A s \in DOMAIN U : U[s].node = n => i < U[s].next
    <3>1. i \in Nat
      BY <1>12
    <3>2. CASE n = x
      <4>1. \A s \in DOMAIN U : U[s].node = n <=> s = 1
        BY <3>2, <1>9, <1>10, <1>14
      <4>2. (\A s \in DOMAIN U : U[s].node = n => i < U[s].next) <=> i < 1
        BY <4>1, <1>9, <1>10
      <4>3. <<n, i>> \notin D
        BY <3>2, <1>5, <1>7
      <4>4. <<n, i>> \in C <=> i = 0
        BY <4>3, <3>2, <1>15
      <4> QED
        BY <4>2, <4>4, <3>1
    <3>3. CASE n # x
      <4>1. n \in E /\ (<<n, i>> \in C <=> <<n, i>> \in D)
        BY <3>3, <1>11, <1>15
      <4>2. (\A s \in DOMAIN U : U[s].node = n => i < U[s].next)
              <=> \A s \in DOMAIN T : T[s].node = n => i < T[s].next
        BY <3>3, <1>9, <1>10
      <4> QED
        BY <4>1, <4>2, <1>7
    <3> QED
      BY <3>2, <3>3
  <2> QED
    BY <2>1, <2>2, <1>12, SameFollowed
<1>17. <<x, 0>> \notin D
  BY <1>5, <1>7
<1>18. F = E \cup ({x} \ {NULL})
  BY <1>1, <1>2, <1>11
<1>19. Entered(h, b_root, Ptr(h, x, 0), F, U, C)
  BY <1>3, <1>4, <1>7, <1>12, <1>13, <1>14, <1>15, <1>17, <1>18, FollowOne
<1>20. Past(h, C) = Past(h, D)
  BY <1>15 DEF Past, Spots
<1>21. PassedAre(C)'
  BY <1>1, <1>2, <1>4, <1>20 DEF PassedAre
<1> QED
  BY <1>1, <1>2, <1>10, <1>16, <1>19, <1>21, CWalk

LEMMA CLeave ==
  ASSUME BInv, CInv, B!Leave
  PROVE  CInv'
<1>1. /\ b_pc = "walk" /\ b_pc' = "walk" /\ b_node' = b_node /\ b_stack' = Tail(b_stack)
      /\ b_stack # <<>> /\ b_stack[1].next > Size(b_nodes, b_stack[1].node)
      /\ UNCHANGED <<b_root, b_nodes, b_passed, added>>
  BY Meant DEF B!Leave, B!Walking
<1>2. PICK h, x, T, U : h = b_nodes /\ x = b_node /\ T = b_stack /\ U = b_stack'
  OBVIOUS
<1>3. /\ \A n \in DOMAIN h : Size(h, n) \in 1 .. Full /\ Size(h, n) \in 0 .. Full
      /\ T \in Seq(BFrame)
      /\ \E E, D : D = Followed(h, E, T) /\ Entered(h, b_root, x, E, T, D) /\ PassedAre(D)
  BY <1>1, <1>2, WalkFacts
<1>4. PICK E, D : D = Followed(h, E, T) /\ Entered(h, b_root, x, E, T, D) /\ PassedAre(D)
  BY <1>3
<1>5. /\ E \subseteq DOMAIN h
      /\ \A s \in DOMAIN T : T[s].node \in E /\ T[s].next \in 1 .. Size(h, T[s].node) + 1
      /\ \A s, t \in DOMAIN T : T[s].node = T[t].node => s = t
  BY <1>4 DEF Entered
<1>6. \A n \in E : Size(h, n) \in 0 .. Full
  BY <1>3, <1>5
<1>7. /\ \A q \in D : q = <<q[1], q[2]>> /\ q[1] \in E /\ q[2] \in 0 .. Size(h, q[1])
      /\ \A n \in E : \A i \in 0 .. Size(h, n) :
           <<n, i>> \in D <=> \A s \in DOMAIN T : T[s].node = n => i < T[s].next
  BY <1>4, <1>6, FollowedIs
<1>8. /\ U \in Seq(BFrame) /\ 1 \in DOMAIN T
      /\ \A s \in DOMAIN U : s + 1 \in DOMAIN T /\ U[s] = T[s + 1] /\ s \in Nat /\ s # 0
      /\ \A s \in DOMAIN T : s # 1 => s - 1 \in DOMAIN U /\ U[s - 1] = T[s]
  <2>1. /\ T \in Seq(BFrame) /\ T # <<>> /\ U = Tail(T) /\ Len(T) \in Nat /\ Len(T) # 0
        /\ DOMAIN T = 1 .. Len(T)
    BY <1>1, <1>2, <1>3
  <2>2. /\ U \in Seq(BFrame) /\ Len(U) = Len(T) - 1 /\ DOMAIN U = 1 .. Len(U)
        /\ \A s \in 1 .. Len(U) : U[s] = T[s + 1]
    BY <2>1
  <2>3. \A s \in DOMAIN U : s + 1 \in DOMAIN T /\ s \in Nat /\ s # 0
    BY <2>1, <2>2
  <2>4. \A s \in DOMAIN T : s # 1 => s - 1 \in DOMAIN U /\ U[s - 1] = T[s]
    <3> SUFFICES ASSUME NEW s \in DOMAIN T, s # 1 PROVE s - 1 \in DOMAIN U /\ U[s - 1] = T[s]
      OBVIOUS
    <3>1. s - 1 \in 1 .. Len(U) /\ s - 1 + 1 = s
      BY <2>1, <2>2
    <3> QED
      BY <3>1, <2>2
  <2> QED
    BY <2>1, <2>2, <2>3, <2>4
<1>9. /\ \A s \in DOMAIN U : U[s].node \in E /\ U[s].next \in 1 .. Size(h, U[s].node) + 1
      /\ \A s, t \in DOMAIN U : U[s].node = U[t].node => s = t
  <2>1. \A s, t \in DOMAIN U : s + 1 = t + 1 => s = t
    BY <1>8
  <2> QED
    BY <2>1, <1>5, <1>8
<1>10. D = Followed(h, E, U)
  <2>1. ASSUME NEW n \in E, NEW i \in 0 .. Size(h, n)
        PROVE  <<n, i>> \in D <=> \A s \in DOMAIN U : U[s].node = n => i < U[s].next
    <3>1. T[1].node = n => i < T[1].next
      <4>1. T[1].next > Size(h, T[1].node) /\ T[1].next \in Nat
        BY <1>1, <1>2, <1>5, <1>6, <1>8
      <4> QED
        BY <4>1, <1>6
    <3>2. (\A s \in DOMAIN U : U[s].node = n => i < U[s].next)
            <=> \A s \in DOMAIN T : T[s].node = n => i < T[s].next
      BY <3>1, <1>8
    <3> QED
      BY <3>2, <1>7
  <2>2. \A q \in D : q = <<q[1], q[2]>> /\ q[1] \in E /\ q[2] \in 0 .. Size(h, q[1])
    BY <1>7
  <2> QED
    BY <2>1, <2>2, <1>6, SameFollowed
<1>11. Entered(h, b_root, x, E, U, D)
  BY <1>4, <1>9 DEF Entered
<1>12. PassedAre(D)'
  BY <1>1, <1>4 DEF PassedAre
<1> QED
  BY <1>1, <1>2, <1>8, <1>10, <1>11, <1>12, CWalk

-----------------------------------------------------------------------------
\* What passing a key adds.

LEMMA FlattenOne ==
  ASSUME NEW s
  PROVE  B!FlattenSeq([a \in 1 .. 1 |-> s]) = s
<1> DEFINE e == [a \in 1 .. 1 |-> s]
           Rec(g) == g = [i \in 1 .. 1 |-> IF i = 1 THEN e[i] ELSE g[i - 1] \o e[i]]
<1>1. Len(e) = 1 /\ e # <<>> /\ e[1] = s
  <2>1. e \in Seq({s})
    OBVIOUS
  <2> QED
    BY <2>1
<1>2. \A g : Rec(g) <=> g = e
  OBVIOUS
<1>3. (CHOOSE g : Rec(g)) = e
  BY <1>2
<1> QED
  BY <1>1, <1>3 DEF B!FlattenSeq

\* Concatenating counts both.
LEMMA TimesAdd ==
  ASSUME NEW S, NEW s \in Seq(S), NEW t \in Seq(S), NEW p
  PROVE  /\ Times(s, p) \in Nat /\ Times(t, p) \in Nat
         /\ Times(s \o t, p) = Times(s, p) + Times(t, p)
<1> DEFINE n == Len(s)
           m == Len(t)
           u == s \o t
           A == {i \in DOMAIN s : s[i] = p}
           B0 == {i \in DOMAIN t : t[i] = p}
           C == {i \in DOMAIN u : u[i] = p}
           N == {i \in C : i > n}
           f == [i \in B0 |-> i + n]
<1>1. /\ n \in Nat /\ m \in Nat /\ DOMAIN s = 1 .. n /\ DOMAIN t = 1 .. m /\ DOMAIN u = 1 .. n + m
      /\ \A i \in 1 .. n : u[i] = s[i]
      /\ \A i \in 1 .. m : u[i + n] = t[i]
  <2>1. /\ n \in Nat /\ m \in Nat /\ DOMAIN s = 1 .. n /\ DOMAIN t = 1 .. m
        /\ u \in Seq(S) /\ Len(u) = n + m
        /\ \A i \in 1 .. n + m : u[i] = IF i <= n THEN s[i] ELSE t[i - n]
    OBVIOUS
  <2>2. \A i \in 1 .. m : i + n \in 1 .. n + m /\ ~(i + n <= n) /\ i + n - n = i
    BY <2>1
  <2> HIDE DEF u, n, m
  <2> QED
    BY <2>1, <2>2
<1> HIDE DEF n, m, u
<1>2. A \in SUBSET (1 .. n) /\ B0 \in SUBSET (1 .. m)
  BY <1>1
<1>3. IsFiniteSet(A) /\ IsFiniteSet(B0)
  <2>1. IsFiniteSet(1 .. n) /\ IsFiniteSet(1 .. m)
    BY <1>1, FS_Interval
  <2> QED
    BY <2>1, <1>2, FS_Subset
<1>4. C = A \cup N /\ A \cap N = {}
  BY <1>1
<1>5. f \in Bijection(B0, N)
  <2>1. f \in [B0 -> N]
    BY <1>1
  <2>2. \A i, j \in B0 : f[i] = f[j] => i = j
    BY <1>1
  <2>3. \A x \in N : \E i \in B0 : f[i] = x
    <3> SUFFICES ASSUME NEW x \in N PROVE \E i \in B0 : f[i] = x
      OBVIOUS
    <3>1. x - n \in 1 .. m /\ x = (x - n) + n
      BY <1>1
    <3>2. x - n \in B0
      BY <3>1, <1>1
    <3> QED
      BY <3>1, <3>2
  <2> HIDE DEF f, N, B0
  <2> QED
    BY <2>1, <2>2, <2>3 DEF Bijection, Injection, Surjection, IsInjective
<1>6. IsFiniteSet(N) /\ Cardinality(N) = Cardinality(B0)
  <2>1. ExistsBijection(B0, N)
    BY <1>5 DEF ExistsBijection
  <2> HIDE DEF N, B0
  <2> QED
    BY <2>1, <1>3, FS_Bijection
<1>7. Cardinality(A) \in Nat /\ Cardinality(B0) \in Nat
  BY <1>3, FS_CardinalityType
<1>8. Cardinality(C) = Cardinality(A) + Cardinality(N)
  <2>1. Cardinality(A \cap N) = 0
    BY <1>4, FS_EmptySet
  <2>2. Cardinality(A \cup N) = Cardinality(A) + Cardinality(N) - Cardinality(A \cap N)
    BY <1>3, <1>6, FS_Union
  <2> HIDE DEF A, N, C
  <2>3. Cardinality(C) = Cardinality(A \cup N)
    BY <1>4
  <2>4. Cardinality(A \cup N) = Cardinality(A) + Cardinality(N)
    BY <2>1, <2>2, <1>6, <1>7
  <2> QED
    BY <2>3, <2>4
<1> QED
  BY <1>6, <1>7, <1>8 DEF Times, n, m, u

\* A key that is not among Z adds what is stored at it.
LEMMA SlotsAdd ==
  ASSUME NEW h, NEW Z, IsFiniteSet(Z), NEW q, q \notin Z, NEW p
  PROVE  Cardinality(SlotsAt(h, Z \cup {q}, p)) = Cardinality(SlotsAt(h, Z, p)) + Cardinality(SlotsAt(h, {q}, p))
<1> DEFINE A == SlotsAt(h, Z, p)
           N == SlotsAt(h, {q}, p)
<1>1. IsFiniteSet(A) /\ Cardinality(A) \in Nat
  BY SlotsFinite
<1>2. IsFiniteSet(N) /\ Cardinality(N) \in Nat
  <2>1. IsFiniteSet({q})
    BY FS_Singleton
  <2> QED
    BY <2>1, SlotsFinite
<1>3. SlotsAt(h, Z \cup {q}, p) = A \cup N /\ A \cap N = {}
  BY DEF SlotsAt
<1>4. Cardinality(A \cap N) = 0
  BY <1>3, FS_EmptySet
<1>5. Cardinality(A \cup N) = Cardinality(A) + Cardinality(N) - Cardinality(A \cap N)
  BY <1>1, <1>2, FS_Union
<1> HIDE DEF A, N
<1>6. Cardinality(A \cup N) = Cardinality(A) + Cardinality(N)
  BY <1>1, <1>2, <1>4, <1>5
<1>7. SlotsAt(h, Z \cup {q}, p) = A \cup N
  BY <1>3
<1> QED
  BY <1>6, <1>7 DEF A, N

\* The values of a key with one array, as they are passed.
LEMMA TimesOfArray ==
  ASSUME NEW h, NEW q, NEW a, Arrays(h, q[1], q[2]) = <<a>>, a.size \in 0 .. ArraySize,
         NEW w, w = [x \in 1 .. a.size |-> <<Key(h, q[1], q[2]), a.value[x]>>], NEW p \in BPair
  PROVE  Cardinality(SlotsAt(h, {q}, p)) = Times(w, p)
<1> DEFINE S == SlotsAt(h, {q}, p)
           T == {i \in DOMAIN w : w[i] = p}
           f == [i \in T |-> <<q, i>>]
<1>1. ArraySize \in Nat /\ a.size \in Nat /\ a.size <= ArraySize
  BY UninitAssumption
<1>2. \A i : i \in T <=> i \in 1 .. a.size /\ Key(h, q[1], q[2]) = p[1] /\ a.value[i] = p[2]
  <2>1. p = <<p[1], p[2]>>
    BY DEF BPair
  <2> QED
    BY <2>1
<1>3. \A s : s \in S <=> /\ s \in {q} \X (1 .. ArraySize) /\ Stores(h, q, s[2], p)
  BY DEF SlotsAt
<1>4. \A x : Stores(h, q, x, p) <=> Key(h, q[1], q[2]) = p[1] /\ x <= a.size /\ a.value[x] = p[2]
  <2>1. <<a>>[1] = a
    OBVIOUS
  <2> QED
    BY <2>1 DEF Stores
<1> HIDE DEF S, T
<1>5. f \in [T -> S]
  <2>1. ASSUME NEW i \in T PROVE <<q, i>> \in S
    <3>1. i \in 1 .. ArraySize /\ i <= a.size
      BY <1>1, <1>2
    <3>2. <<q, i>> \in {q} \X (1 .. ArraySize) /\ <<q, i>>[2] = i
      BY <3>1
    <3> QED
      BY <3>1, <3>2, <1>2, <1>3, <1>4
  <2> QED
    BY <2>1
<1>6. \A i, j \in T : f[i] = f[j] => i = j
  OBVIOUS
<1>7. \A s \in S : \E i \in T : f[i] = s
  <2> SUFFICES ASSUME NEW s \in S PROVE \E i \in T : f[i] = s
    OBVIOUS
  <2>1. s = <<q, s[2]>> /\ s[2] \in 1 .. ArraySize /\ Stores(h, q, s[2], p)
    BY <1>3
  <2>2. s[2] \in 1 .. a.size
    BY <2>1, <1>1, <1>4
  <2>3. s[2] \in T
    BY <2>1, <2>2, <1>2, <1>4
  <2> QED
    BY <2>1, <2>3
<1>8. IsFiniteSet(T)
  <2>1. IsFiniteSet(1 .. a.size)
    BY <1>1, FS_Interval
  <2>2. T \in SUBSET (1 .. a.size)
    BY <1>2
  <2> QED
    BY <2>1, <2>2, FS_Subset
<1>9. ExistsBijection(T, S)
  <2> HIDE DEF f
  <2>1. f \in Bijection(T, S)
    BY <1>5, <1>6, <1>7 DEF Bijection, Injection, Surjection, IsInjective
  <2> QED
    BY <2>1 DEF ExistsBijection
<1> QED
  BY <1>8, <1>9, FS_Bijection DEF S, T, Times

\* What is passed with a key, and with one that has one array.
PassedAt(key) ==
  LET values == B!FlattenSeq([x \in DOMAIN key.values |-> B!Stored(key.values[x])])
  IN  [x \in DOMAIN values |-> <<key.key, values[x]>>]

LEMMA PassedOne ==
  ASSUME IsHeap(b_nodes), NEW m \in DOMAIN b_nodes, NEW i \in 1 .. Size(b_nodes, m),
         Len(Arrays(b_nodes, m, i)) = 1, NEW key, key = B!KeysOf(m)[i]
  PROVE  \E a \in BArray : \E w \in Seq(BKeys \X (BValues \cup {NULL})) :
           /\ Arrays(b_nodes, m, i) = <<a>>
           /\ w = [x \in 1 .. a.size |-> <<Key(b_nodes, m, i), a.value[x]>>]
           /\ w = PassedAt(key)
<1>1. /\ key \in BKey /\ key.key = Key(b_nodes, m, i) /\ key.values = Arrays(b_nodes, m, i)
  <2>1. b_nodes[m].keys[i] \in BKey
    BY HeapFacts
  <2> QED
    BY <2>1 DEF B!KeysOf, Key, Arrays
<1>2. PICK vs : vs = key.values
  OBVIOUS
<1>3. vs \in Seq(BArray) /\ Len(vs) = 1 /\ key.key \in BKeys
  BY <1>1, <1>2 DEF BKey
<1>4. vs[1] \in BArray /\ DOMAIN vs = 1 .. 1 /\ vs = <<vs[1]>>
  <2>1. vs[1] \in BArray /\ DOMAIN vs = 1 .. 1 /\ vs = [x \in 1 .. 1 |-> vs[x]]
    <3>1. \A s \in Seq(BArray) : DOMAIN s = 1 .. Len(s) /\ s = [x \in 1 .. Len(s) |-> s[x]]
      OBVIOUS
    <3> QED
      BY <3>1, <1>3
  <2>2. PICK e : e = vs[1]
    OBVIOUS
  <2>3. <<e>> = [x \in 1 .. 1 |-> e]
    OBVIOUS
  <2> QED
    BY <2>1, <2>2, <2>3
<1>5. PICK a \in BArray : a = vs[1]
  BY <1>4
<1>6. a.size \in 0 .. ArraySize /\ a.size \in Nat /\ a.value \in [1 .. ArraySize -> BValues \cup {NULL}]
  BY UninitAssumption DEF BArray
<1>7. PICK v : v = B!Stored(a)
  OBVIOUS
<1>8. v = [x \in 1 .. a.size |-> a.value[x]]
  BY <1>7 DEF B!Stored
<1>9. \A x \in DOMAIN vs : B!Stored(vs[x]) = v
  BY <1>4, <1>5, <1>7
<1>10. [x \in DOMAIN vs |-> B!Stored(vs[x])] = [x \in 1 .. 1 |-> v]
  BY <1>4, <1>9
<1>11. B!FlattenSeq([x \in DOMAIN vs |-> B!Stored(vs[x])]) = v
  BY <1>10, FlattenOne
<1>12. PICK w : w = [x \in 1 .. a.size |-> <<key.key, a.value[x]>>]
  OBVIOUS
<1>13. w = PassedAt(key)
  <2>1. B!FlattenSeq([x \in DOMAIN key.values |-> B!Stored(key.values[x])]) = v
    BY <1>2, <1>11
  <2>2. PassedAt(key) = [x \in DOMAIN v |-> <<key.key, v[x]>>]
    BY <2>1 DEF PassedAt
  <2> QED
    BY <2>2, <1>8, <1>12
<1>14. w \in Seq(BKeys \X (BValues \cup {NULL}))
  <2>1. \A x \in 1 .. a.size : x \in 1 .. ArraySize
    BY <1>6, UninitAssumption
  <2>2. \A x \in 1 .. a.size : a.value[x] \in BValues \cup {NULL}
    BY <2>1, <1>6
  <2>3. w \in [1 .. a.size -> BKeys \X (BValues \cup {NULL})]
    BY <2>2, <1>3, <1>12
  <2> QED
    BY <2>3, <1>6
<1>15. Arrays(b_nodes, m, i) = <<a>>
  BY <1>1, <1>2, <1>4, <1>5
<1>16. w = [x \in 1 .. a.size |-> <<Key(b_nodes, m, i), a.value[x]>>]
  BY <1>1, <1>12
<1> QED
  BY <1>13, <1>14, <1>15, <1>16

LEMMA CPass ==
  ASSUME BInv, CInv, B!Pass
  PROVE  CInv'
<1>1. /\ b_pc = "walk" /\ b_pc' = "walk" /\ b_node = NULL /\ b_stack # <<>>
      /\ b_stack[1].next <= Size(b_nodes, b_stack[1].node)
      /\ b_node' = B!KeysOf(b_stack[1].node)[b_stack[1].next].left
      /\ b_stack' = [b_stack EXCEPT ![1].next = @ + 1]
      /\ UNCHANGED <<b_root, b_nodes, added>>
  <2>1. /\ b_pc = "walk" /\ b_pc' = "walk" /\ b_node = NULL /\ b_stack # <<>>
        /\ b_stack' = [b_stack EXCEPT ![1].next = @ + 1] /\ UNCHANGED <<b_root, b_nodes, added>>
    BY DEF B!Pass, B!Walking
  <2>2. /\ Head(b_stack).next <= B!NumKeys(Head(b_stack).node)
        /\ b_node' = B!KeysOf(Head(b_stack).node)[Head(b_stack).next].left
    BY DEF B!Pass
  <2>3. Head(b_stack) = b_stack[1]
    OBVIOUS
  <2> QED
    BY <2>1, <2>2, <2>3, Meant
<1>2. PICK h, T, U, m, i :
        h = b_nodes /\ T = b_stack /\ U = b_stack' /\ m = T[1].node /\ i = T[1].next
  OBVIOUS
<1>3. /\ IsHeap(h) /\ Tree(h, b_root) /\ NULL \notin DOMAIN h
      /\ \A n \in DOMAIN h : Size(h, n) \in 1 .. Full /\ Size(h, n) \in 0 .. Full
      /\ T \in Seq(BFrame)
      /\ \E E, D : D = Followed(h, E, T) /\ Entered(h, b_root, NULL, E, T, D) /\ PassedAre(D)
  BY <1>1, <1>2, WalkFacts
<1>4. PICK E, D : D = Followed(h, E, T) /\ Entered(h, b_root, NULL, E, T, D) /\ PassedAre(D)
  BY <1>3
<1>5. /\ E \subseteq DOMAIN h
      /\ \A s \in DOMAIN T : T[s].node \in E /\ T[s].next \in 1 .. Size(h, T[s].node) + 1
      /\ \A s, t \in DOMAIN T : T[s].node = T[t].node => s = t
  BY <1>4 DEF Entered
<1>6. \A n \in E : Size(h, n) \in 0 .. Full
  BY <1>3, <1>5
<1>7. /\ \A q \in D : q = <<q[1], q[2]>> /\ q[1] \in E /\ q[2] \in 0 .. Size(h, q[1])
      /\ \A n \in E : \A j \in 0 .. Size(h, n) :
           <<n, j>> \in D <=> \A s \in DOMAIN T : T[s].node = n => j < T[s].next
  BY <1>4, <1>6, FollowedIs
<1>8. 1 \in DOMAIN T /\ T[1] \in BFrame
  BY <1>1, <1>2, <1>3
<1>9. /\ m \in E /\ m \in DOMAIN h /\ i \in 1 .. Size(h, m) /\ i \in 0 .. Size(h, m) /\ i # 0
      /\ i \in 1 .. Full /\ i + 1 \in 1 .. Size(h, m) + 1 /\ i <= Size(h, m) /\ i \in Nat
  <2>1. m \in E /\ m \in DOMAIN h /\ i \in 1 .. Size(h, m) + 1 /\ i <= Size(h, m)
    BY <1>1, <1>2, <1>5, <1>8
  <2>2. Size(h, m) \in 0 .. Full
    BY <2>1, <1>6
  <2> QED
    BY <2>1, <2>2, Factors
<1>10. /\ U \in Seq(BFrame) /\ DOMAIN U = DOMAIN T
       /\ U[1].node = m /\ U[1].next = i + 1
       /\ \A s \in DOMAIN T : s # 1 => U[s] = T[s]
  <2>1. PICK f : f = [T[1] EXCEPT !.next = @ + 1]
    OBVIOUS
  <2>2. f \in BFrame /\ f.node = m /\ f.next = i + 1
    BY <2>1, <1>2, <1>8, <1>9 DEF BFrame
  <2>3. U = [T EXCEPT ![1] = f]
    BY <2>1, <1>1, <1>2
  <2> QED
    BY <2>2, <2>3, <1>3, <1>8
<1>11. /\ \A s \in DOMAIN U : U[s].node = T[s].node
       /\ \A s \in DOMAIN U : U[s].node \in E /\ U[s].next \in 1 .. Size(h, U[s].node) + 1
       /\ \A s, t \in DOMAIN U : U[s].node = U[t].node => s = t
  <2>1. \A s \in DOMAIN U : U[s].node = T[s].node
    BY <1>2, <1>10
  <2>2. \A s \in DOMAIN U : U[s].node \in E /\ U[s].next \in 1 .. Size(h, U[s].node) + 1
    BY <1>5, <1>9, <1>10
  <2> QED
    BY <2>1, <2>2, <1>5, <1>10
<1>12. <<m, i>> \notin D
  BY <1>2, <1>7, <1>8, <1>9
<1>13. PICK C : C = D \cup {<<m, i>>}
  OBVIOUS
<1>14. C = Followed(h, E, U)
  <2>1. \A q \in C : q = <<q[1], q[2]>> /\ q[1] \in E /\ q[2] \in 0 .. Size(h, q[1])
    BY <1>7, <1>9, <1>13
  <2>2. ASSUME NEW n \in E, NEW j \in 0 .. Size(h, n)
        PROVE  <<n, j>> \in C <=> \A s \in DOMAIN U : U[s].node = n => j < U[s].next
    <3>1. j \in Nat
      BY <1>6
    <3>2. CASE n = m
      <4>1. \A s \in DOMAIN U : U[s].node = n <=> s = 1
        BY <3>2, <1>8, <1>10, <1>11
      <4>2. (\A s \in DOMAIN U : U[s].node = n => j < U[s].next) <=> j < i + 1
        BY <4>1, <1>8, <1>10
      <4>3. \A s \in DOMAIN T : T[s].node = n <=> s = 1
        BY <3>2, <1>2, <1>5, <1>8
      <4>4. <<n, j>> \in D <=> j < i
        BY <4>3, <1>2, <1>7, <1>8
      <4>5. <<n, j>> \in C <=> j < i \/ j = i
        BY <4>4, <3>2, <1>13
      <4> QED
        BY <4>2, <4>5, <3>1, <1>9
    <3>3. CASE n # m
      <4>1. <<n, j>> \in C <=> <<n, j>> \in D
        BY <3>3, <1>13
      <4>2. (\A s \in DOMAIN U : U[s].node = n => j < U[s].next)
              <=> \A s \in DOMAIN T : T[s].node = n => j < T[s].next
        BY <3>3, <1>2, <1>10
      <4> QED
        BY <4>1, <4>2, <1>7
    <3> QED
      BY <3>2, <3>3
  <2> QED
    BY <2>1, <2>2, <1>6, SameFollowed
<1>15. E = E \cup ({NULL} \ {NULL})
  OBVIOUS
<1>16. Entered(h, b_root, Ptr(h, m, i), E, U, C)
  BY <1>3, <1>4, <1>7, <1>9, <1>11, <1>12, <1>13, <1>15, FollowOne
<1>17. b_node' = Ptr(h, m, i)
  BY <1>1, <1>2, <1>9, Meant
<1>18. PassedAre(C)'
  <2> SUFFICES ASSUME OneArray(h)
               PROVE  /\ b_passed' \in Seq(BKeys \X (BValues \cup {NULL}))
                      /\ \A p \in BPair : Times(b_passed', p) = Cardinality(SlotsAt(h, Past(h, C), p))
    BY <1>1, <1>2 DEF PassedAre
  <2>1. PICK q : q = <<m, i>>
    OBVIOUS
  <2>2. q[1] = m /\ q[2] = i /\ q \in Spots(h)
    BY <2>1, <1>9 DEF Spots
  <2>3. PICK Z : Z = Past(h, D)
    OBVIOUS
  <2>4. Past(h, C) = Z \cup {q} /\ q \notin Z
    BY <2>1, <2>2, <2>3, <1>12, <1>13 DEF Past
  <2>5. IsFiniteSet(Z)
    <3>1. IsFiniteSet(Spots(h))
      BY <1>2, SpotsFinite DEF CInv
    <3>2. Z \in SUBSET Spots(h)
      BY <2>3 DEF Past
    <3> QED
      BY <3>1, <3>2, FS_Subset
  <2>6. /\ b_passed \in Seq(BKeys \X (BValues \cup {NULL}))
        /\ \A p \in BPair : Times(b_passed, p) = Cardinality(SlotsAt(h, Z, p))
    BY <2>3, <1>2, <1>4 DEF PassedAre
  <2>7. Len(Arrays(h, m, i)) = 1
    BY <2>2 DEF OneArray
  <2>8. PICK key : key = B!KeysOf(m)[i]
    OBVIOUS
  <2>9. b_passed' = b_passed \o PassedAt(key)
    <3>1. Head(b_stack).node = m /\ Head(b_stack).next = i
      BY <1>2
    <3> QED
      BY <3>1, <2>8 DEF B!Pass, PassedAt
  <2>10. PICK a \in BArray : \E w \in Seq(BKeys \X (BValues \cup {NULL})) :
           /\ Arrays(h, m, i) = <<a>>
           /\ w = [x \in 1 .. a.size |-> <<Key(h, m, i), a.value[x]>>]
           /\ w = PassedAt(key)
    <3>1. IsHeap(b_nodes) /\ m \in DOMAIN b_nodes /\ i \in 1 .. Size(b_nodes, m)
          /\ Len(Arrays(b_nodes, m, i)) = 1
      BY <2>7, <1>2, <1>3, <1>9
    <3>2. \E a \in BArray : \E w \in Seq(BKeys \X (BValues \cup {NULL})) :
           /\ Arrays(b_nodes, m, i) = <<a>>
           /\ w = [x \in 1 .. a.size |-> <<Key(b_nodes, m, i), a.value[x]>>]
           /\ w = PassedAt(key)
      BY <3>1, <2>8, PassedOne
    <3> QED
      BY <3>2, <1>2
  <2>11. PICK w \in Seq(BKeys \X (BValues \cup {NULL})) :
           /\ Arrays(h, m, i) = <<a>>
           /\ w = [x \in 1 .. a.size |-> <<Key(h, m, i), a.value[x]>>]
           /\ w = PassedAt(key)
    BY <2>10
  <2>12. b_passed' = b_passed \o w
    BY <2>9, <2>11
  <2>13. b_passed' \in Seq(BKeys \X (BValues \cup {NULL}))
    <3>1. \A S : \A s, t \in Seq(S) : s \o t \in Seq(S)
      OBVIOUS
    <3> QED
      BY <3>1, <2>6, <2>11, <2>12
  <2>14. ASSUME NEW p \in BPair
         PROVE  Times(b_passed', p) = Cardinality(SlotsAt(h, Past(h, C), p))
    <3>1. Times(b_passed \o w, p) = Times(b_passed, p) + Times(w, p)
      BY <2>6, <2>11, TimesAdd
    <3>2. Cardinality(SlotsAt(h, {q}, p)) = Times(w, p)
      <4>1. Arrays(h, q[1], q[2]) = <<a>> /\ Key(h, q[1], q[2]) = Key(h, m, i)
        BY <2>2, <2>11
      <4>2. a.size \in 0 .. ArraySize
        BY <2>10 DEF BArray
      <4>3. w = [x \in 1 .. a.size |-> <<Key(h, q[1], q[2]), a.value[x]>>]
        BY <4>1, <2>11
      <4> QED
        BY <4>1, <4>2, <4>3, TimesOfArray
    <3>3. Cardinality(SlotsAt(h, Z \cup {q}, p)) = Cardinality(SlotsAt(h, Z, p)) + Cardinality(SlotsAt(h, {q}, p))
      BY <2>4, <2>5, SlotsAdd
    <3>4. Times(b_passed, p) = Cardinality(SlotsAt(h, Z, p))
      BY <2>6
    <3> QED
      BY <3>1, <3>2, <3>3, <3>4, <2>4, <2>12
  <2> QED
    BY <2>13, <2>14
<1> QED
  BY <1>1, <1>2, <1>10, <1>14, <1>16, <1>17, <1>18, CWalk

LEMMA CFinish ==
  ASSUME BInv, CInv, B!Finish
  PROVE  CInv'
<1>1. /\ b_pc = "walk" /\ b_pc' = "idle" /\ b_node = NULL /\ b_stack = <<>>
      /\ UNCHANGED <<b_root, b_nodes, b_call, b_stack, b_passed, added>>
  BY DEF B!Finish, B!Walking, B!Return
<1>2. PICK h, r, T : h = b_nodes /\ r = b_root /\ T = b_stack
  OBVIOUS
<1>3. /\ IsHeap(h) /\ Tree(h, r) /\ NULL \notin DOMAIN h
      /\ \A n \in DOMAIN h : Size(h, n) \in 1 .. Full /\ Size(h, n) \in 0 .. Full
      /\ \E E, D : D = Followed(h, E, T) /\ Entered(h, r, NULL, E, T, D) /\ PassedAre(D)
  BY <1>1, <1>2, WalkFacts
<1>4. PICK E, D : D = Followed(h, E, T) /\ Entered(h, r, NULL, E, T, D) /\ PassedAre(D)
  BY <1>3
<1>5. /\ E \subseteq DOMAIN h /\ r \in E \cup {NULL}
      /\ \A q \in D : Ptr(h, q[1], q[2]) \in E \cup {NULL}
  BY <1>4 DEF Entered
<1>6. \A n \in E : Size(h, n) \in 0 .. Full
  BY <1>3, <1>5
<1>7. \A n \in E : \A i \in 0 .. Size(h, n) : <<n, i>> \in D
  <2>1. DOMAIN T = {}
    BY <1>1, <1>2, EmptyFacts
  <2>2. /\ \A q \in D : q = <<q[1], q[2]>> /\ q[1] \in E /\ q[2] \in 0 .. Size(h, q[1])
        /\ \A n \in E : \A i \in 0 .. Size(h, n) :
             <<n, i>> \in D <=> \A s \in DOMAIN T : T[s].node = n => i < T[s].next
    BY <1>4, <1>6, FollowedIs
  <2> QED
    BY <2>1, <2>2
\* Whatever can be reached has been entered: these are all nodes.
<1>8. E = DOMAIN h
  <2>1. CASE r = NULL
    BY <2>1, <1>3, <1>5 DEF Tree
  <2>2. CASE r # NULL
    <3>1. Closes(h, E)
      <4>1. ASSUME NEW n \in E, NEW i \in 0 .. Size(h, n) PROVE Ptr(h, n, i) \in E \cup {NULL}
        <5>1. <<n, i>> \in D /\ <<n, i>>[1] = n /\ <<n, i>>[2] = i
          BY <1>7
        <5> QED
          BY <5>1, <1>5
      <4> QED
        BY <4>1 DEF Closes
    <3> QED
      BY <3>1, <2>2, <1>3, <1>5 DEF Tree
  <2> QED
    BY <2>1, <2>2
<1>9. Past(h, D) = Spots(h)
  <2>1. ASSUME NEW q \in Spots(h) PROVE q \in D
    <3>1. q = <<q[1], q[2]>> /\ q[1] \in E /\ q[2] \in 1 .. Full /\ q[2] <= Size(h, q[1])
      BY <1>8 DEF Spots
    <3>2. q[2] \in 0 .. Size(h, q[1])
      BY <3>1, <1>6, Factors
    <3> QED
      BY <3>1, <3>2, <1>7
  <2> QED
    BY <2>1 DEF Past
<1>10. ASSUME OneArray(h), NEW p \in BPair PROVE Times(b_passed, p) = added[p]
  <2>1. Times(b_passed, p) = Cardinality(Slots(h, p))
    BY <1>10, <1>2, <1>4, <1>9 DEF PassedAre, Slots
  <2>2. added[p] = Cardinality(Slots(h, p))
    BY <1>10, <1>2 DEF CInv, Counts
  <2> QED
    BY <2>1, <2>2
<1>11. B!OneArrayEach => OneArray(h)
  <2> SUFFICES ASSUME B!OneArrayEach, NEW q \in Spots(h) PROVE Len(Arrays(h, q[1], q[2])) = 1
    BY DEF OneArray
  <2>1. q[1] \in DOMAIN h /\ q[2] \in 1 .. Full /\ q[2] <= Size(h, q[1])
    BY DEF Spots
  <2>2. q[2] \in 1 .. Size(h, q[1])
    BY <2>1, <1>3, Factors
  <2>3. Len(B!KeysOf(q[1])[q[2]].values) = 1
    BY <2>1, <2>2, <1>2, Meant DEF B!OneArrayEach, B!Allocated
  <2> QED
    BY <2>3, <1>2 DEF B!KeysOf, Arrays
<1>12. EveryPairPassed'
  <2>1. B!OneArrayEach' <=> B!OneArrayEach
    BY <1>1 DEF B!OneArrayEach, B!Allocated, B!NumKeys, B!KeysOf
  <2>2. ASSUME B!OneArrayEach, NEW p \in BKeys \X BValues
        PROVE  B!Cardinality({i \in DOMAIN b_passed' : b_passed'[i] = p}) = added'[p]
    <3>1. Times(b_passed, p) = added[p]
      BY <2>2, <1>10, <1>11 DEF BPair
    <3> QED
      BY <3>1, <1>1, SameCount DEF Times
  <2> QED
    BY <2>1, <2>2 DEF EveryPairPassed, B!EveryPairPassed
<1>13. /\ IsFiniteSet(DOMAIN b_nodes') /\ HasArray(b_nodes') /\ (added \in [BPair -> Nat])'
       /\ OthersCalled' /\ Counts' /\ Walks'
  BY <1>1 DEF CInv, OthersCalled, Counts, Walks
<1> QED
  BY <1>12, <1>13 DEF CInv

LEMMA CNext == BInv /\ CInv /\ B!Next => CInv'
<1> SUFFICES ASSUME BInv, CInv, B!Next PROVE CInv'
  OBVIOUS
<1>1. ASSUME NEW c \in B!Calls, B!Invoke(c) PROVE CInv'
  BY <1>1, CInvoke
<1>2. CASE B!Follow
  BY <1>2, CQuiet DEF B!Follow, B!Searching
<1>3. CASE B!ContainsKey \/ B!ContainsPair
  BY <1>3, CQuiet DEF B!ContainsKey, B!ContainsPair, B!Searching, B!Return
<1>4. CASE B!StartInsert
  BY <1>4, CQuiet DEF B!StartInsert, B!Searching
<1> QED
  BY <1>1, <1>2, <1>3, <1>4, CAddValue, CCreate, CExtend, CDivide, CEnter, CPass, CLeave, CFinish,
     CClear DEF B!Next

\* A traversal of the B-tree (mm_traverse_helper()) passes every pair, as often as it has been
\* added, whatever has been split since, as long as no key has needed a second array
\* (opt_mm_impl_BT.c).
THEOREM TraversalPassesEveryPair == MCSpec => []EveryPairPassed
<1>1. MCInit => CInv
  BY CInitial DEF MCInit
<1>2. BInv /\ CInv /\ [MCNext]_<<impl, vars, bvars>> => CInv'
  <2> SUFFICES ASSUME BInv, CInv, [MCNext]_<<impl, vars, bvars>> PROVE CInv'
    OBVIOUS
  <2>1. CASE UNCHANGED bvars
    BY <2>1 DEF bvars, CInv, OthersCalled, Counts, Walks, PassedAre, EveryPairPassed,
                B!EveryPairPassed, B!OneArrayEach, B!Allocated, B!NumKeys, B!KeysOf
  <2>2. CASE B!Next
    BY <2>2, CNext
  <2> QED
    BY <2>1, <2>2 DEF MCNext
<1>3. CInv => EveryPairPassed
  BY DEF CInv
<1> QED
  BY <1>1, <1>2, <1>3, BAlways, PTL DEF MCSpec
=============================================================================
