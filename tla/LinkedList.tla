----------------------------- MODULE LinkedList -----------------------------
(***************************************************************************)
(* The list of midWeek/reverse: append_value() and free_list() (list.c)    *)
(* and reverse_list() (reverse.s), which turns the pointers of the nodes   *)
(* round one by one.  A node stands for the value that it holds.  A call   *)
(* of malloc() returns any address that is not in use.                     *)
(***************************************************************************)
EXTENDS Integers, Sequences, SequencesExt

CONSTANTS Node, NULL

VARIABLES head, tail, next,  \* next: of the nodes that are allocated
          edx, ecx,          \* of reverse_list(): the previous and the current node
          pc,                \* "idle" or "reverse"
          expected           \* history: the nodes in the order the calls ask for

vars == <<head, tail, next, edx, ecx, pc, expected>>

Init == /\ head = NULL /\ tail = NULL /\ next = <<>>
        /\ edx = NULL /\ ecx = NULL
        /\ pc = "idle" /\ expected = <<>>

Allocated == DOMAIN next

append_value ==
    /\ pc = "idle"
    /\ \E node \in Node \ Allocated :
          LET linked == [n \in Allocated \cup {node} |-> IF n = node THEN NULL ELSE next[n]]
          IN  /\ IF tail # NULL THEN next' = [linked EXCEPT ![tail] = node] /\ UNCHANGED head
                 ELSE head' = node /\ next' = linked
              /\ tail' = node
              /\ expected' = Append(expected, node)
    /\ UNCHANGED <<edx, ecx, pc>>

(* reverse_list() up to its loop: an empty list is left as it is.          *)
reverse_switch ==
    /\ pc = "idle"
    /\ IF head = NULL THEN UNCHANGED <<head, tail, edx, ecx, pc>>
       ELSE /\ head' = tail /\ tail' = head
            /\ edx' = NULL /\ ecx' = head
            /\ pc' = "reverse"
    /\ expected' = Reverse(expected)
    /\ UNCHANGED next

\* Mutant: the loop ends before the last node is turned round.
EndsEarly ==
    /\ pc = "reverse"
    /\ next' = [next EXCEPT ![ecx] = edx]
    /\ edx' = ecx /\ ecx' = next[ecx]
    /\ pc' = IF ecx' = head THEN "idle" ELSE "reverse"
    /\ UNCHANGED <<head, tail, expected>>

(* An iteration of the loop: the next node is kept in %eax.                *)
reverse_loop ==
    /\ pc = "reverse"
    /\ next' = [next EXCEPT ![ecx] = edx]
    /\ edx' = ecx /\ ecx' = next[ecx]
    /\ pc' = IF ecx' = NULL THEN "idle" ELSE "reverse"
    /\ UNCHANGED <<head, tail, expected>>

\* The nodes that are reached from a node, at most all of them.
Walk(from) ==
    LET upTo[k \in Nat] ==
          IF k = 0 THEN IF from = NULL THEN <<>> ELSE <<from>>
          ELSE LET path == upTo[k - 1]
               IN  IF path = <<>> THEN path
                   ELSE IF next[Last(path)] = NULL THEN path
                        ELSE Append(path, next[Last(path)])
    IN  upTo[Len(expected)]

(* free_list() frees the nodes that it reaches.                            *)
free_list ==
    /\ pc = "idle"
    /\ next' = [n \in Allocated \ ToSet(Walk(head)) |-> next[n]]
    /\ head' = NULL /\ tail' = NULL
    /\ expected' = <<>>
    /\ UNCHANGED <<edx, ecx, pc>>

Next == append_value \/ reverse_switch \/ reverse_loop \/ free_list

Spec == Init /\ [][Next]_vars

-----------------------------------------------------------------------------

(* Between the calls the list holds its nodes in the order that the calls  *)
(* so far ask for, its tail is the last of them, and no other node is      *)
(* still allocated: the ends fit the pointers after every reversal, so     *)
(* that a later append finds the last node.                                *)
OrderKept ==
    pc = "idle" => /\ Walk(head) = expected
                   /\ tail = IF expected = <<>> THEN NULL ELSE Last(expected)
                   /\ Allocated = ToSet(expected)
=============================================================================
