------------------------------ MODULE MultiMap ------------------------------
(***************************************************************************)
(* What week5/multimap/multimap.h promises of a multimap, whatever it is   *)
(* built from: the pairs that were added, the answers to the two contains  *)
(* functions, and a traversal that passes every pair to a function, the    *)
(* keys in ascending order.  The values of a key are "not kept in any      *)
(* particular order": each is put anywhere among those that are there.     *)
(***************************************************************************)
EXTENDS Integers, Sequences, SequencesExt

CONSTANTS Keys,     \* the keys: a set of integers
          Values,   \* the values
          NULL      \* no call, no answer

VARIABLES content,  \* the keys that are present, each with its values
          call,     \* the function that is running, with its arguments
          answer,   \* what the last contains function returned
          passed    \* the pairs the last traversal has passed to its function

vars == <<content, call, answer, passed>>

Calls == [op : {"add", "contains_pair"}, key : Keys, value : Values]
           \cup [op : {"contains_key"}, key : Keys]
           \cup [op : {"traverse", "clear"}]

Present == DOMAIN content

Init == content = <<>> /\ call = NULL /\ answer = NULL /\ passed = <<>>

Invoke(c) == /\ call = NULL
             /\ call' = c /\ answer' = NULL /\ passed' = <<>>
             /\ UNCHANGED content

Running(op) == call # NULL /\ call.op = op

Return == call' = NULL

(* mm_add_value(): a new key begins with no values. *)
Add ==
    /\ Running("add")
    /\ LET k   == call.key
           old == IF k \in Present THEN content[k] ELSE <<>>
       IN  \E i \in 1..Len(old) + 1 :
             content' = [l \in Present \cup {k} |->
                            IF l = k THEN InsertAt(old, i, call.value) ELSE content[l]]
    /\ Return /\ UNCHANGED <<answer, passed>>

(* mm_contains_key() and mm_contains_pair() *)
ContainsKey ==
    /\ Running("contains_key")
    /\ answer' = (call.key \in Present)
    /\ Return /\ UNCHANGED <<content, passed>>

ContainsPair ==
    /\ Running("contains_pair")
    /\ answer' = /\ call.key \in Present
                 /\ \E i \in DOMAIN content[call.key] : content[call.key][i] = call.value
    /\ Return /\ UNCHANGED <<content, passed>>

Unvisited == {k \in Present : \A i \in DOMAIN passed : passed[i][1] # k}

(* mm_traverse(): all values of the smallest key that is left, until none is. *)
Pass ==
    /\ Running("traverse")
    /\ \E k \in Unvisited :
         /\ \A l \in Unvisited : k <= l
         /\ passed' = passed \o [i \in DOMAIN content[k] |-> <<k, content[k][i]>>]
    /\ UNCHANGED <<content, call, answer>>

Finish == Running("traverse") /\ Unvisited = {} /\ Return
          /\ UNCHANGED <<content, answer, passed>>

(* clear_multimap() *)
Clear == Running("clear") /\ content' = <<>> /\ Return /\ UNCHANGED <<answer, passed>>

Next ==
    \/ \E c \in Calls : Invoke(c)
    \/ Add \/ ContainsKey \/ ContainsPair \/ Pass \/ Finish \/ Clear

Spec == Init /\ [][Next]_vars
=============================================================================
