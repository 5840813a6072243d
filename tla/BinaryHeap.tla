----------------------------- MODULE BinaryHeap -----------------------------
(***************************************************************************)
(* The heap of floats of week5/cachesim (heap.c), whose workload sorts by  *)
(* adding values and taking the first one: one action for the beginning of *)
(* a call, and one for each level that a value is sifted over.  Its memory *)
(* is the simulated one, which the cache keeps flat (FlatMemory).          *)
(***************************************************************************)
EXTENDS Integers, BagsExt, Bags, FiniteSetsExt, FiniteSets

CONSTANTS Values, max_values

VARIABLES memory,      \* the array
          num_values,
          index,       \* of sift_up() and sift_down()
          pc,          \* "idle", "up" or "down"
          result,      \* what get_first_value() will return
          held         \* history: the bag of the values that have been added and
                       \* not been returned

vars == <<memory, num_values, index, pc, result, held>>

Slot == 0 .. max_values - 1

LEFT_CHILD(i)  == 2 * i + 1
RIGHT_CHILD(i) == 2 * i + 2
PARENT(i)      == (i - 1) \div 2

(* The simulated memory is cleared, and the heap empty.                    *)
Init == /\ memory = [i \in Slot |-> 0] /\ num_values = 0
        /\ index = 0 /\ pc = "idle" /\ result = 0
        /\ held = EmptyBag

swap_values(i, j) == [memory EXCEPT ![i] = memory[j], ![j] = memory[i]]

add_value(newval) ==
    /\ pc = "idle" /\ num_values < max_values
    /\ memory' = [memory EXCEPT ![num_values] = newval]
    /\ num_values' = num_values + 1
    /\ index' = num_values
    /\ pc' = IF num_values # 0 THEN "up" ELSE "idle"
    /\ held' = BagAdd(held, newval)
    /\ UNCHANGED result

(* A call of sift_up()                                                     *)
sift_up ==
    /\ pc = "up"
    /\ IF memory[index] < memory[PARENT(index)]
       THEN /\ memory' = swap_values(index, PARENT(index))
            /\ index' = PARENT(index)
            /\ pc' = IF index' # 0 THEN "up" ELSE "idle"
       ELSE pc' = "idle" /\ UNCHANGED <<memory, index>>
    /\ UNCHANGED <<num_values, result, held>>

get_first_value ==
    /\ pc = "idle" /\ num_values > 0
    /\ result' = memory[0]
    /\ num_values' = num_values - 1
    /\ IF num_values' # 0
       THEN memory' = [memory EXCEPT ![0] = memory[num_values']] /\ pc' = "down"
       ELSE UNCHANGED <<memory, pc>>
    /\ index' = 0
    /\ held' = BagRemove(held, result')

\* Mutant: a value that is smaller than the left child alone is not sifted on.
LeftOnly(i) == IF memory[LEFT_CHILD(i)] < memory[i] THEN {LEFT_CHILD(i)} ELSE {}

\* With which child sift_down() swaps a value, if with any.
SwapChild(i) ==
    LET left  == LEFT_CHILD(i)
        right == RIGHT_CHILD(i)
    IN  IF left >= num_values THEN {}
        ELSE IF right >= num_values THEN IF memory[left] < memory[i] THEN {left} ELSE {}
        ELSE IF memory[left] < memory[i] \/ memory[right] < memory[i]
             THEN {IF memory[left] < memory[right] THEN left ELSE right}
             ELSE {}

(* A call of sift_down(); below a left child alone there is no level.      *)
sift_down ==
    /\ pc = "down"
    /\ IF SwapChild(index) = {} THEN pc' = "idle" /\ UNCHANGED <<memory, index>>
       ELSE \E child \in SwapChild(index) :
                /\ memory' = swap_values(index, child)
                /\ index' = child
                /\ pc' = IF RIGHT_CHILD(index) < num_values THEN "down" ELSE "idle"
    /\ UNCHANGED <<num_values, result, held>>

Next == (\E newval \in Values : add_value(newval)) \/ sift_up \/ get_first_value \/ sift_down

Spec == Init /\ [][Next]_vars

-----------------------------------------------------------------------------

\* How often x has been added and not been returned.
Copies(x) == IF BagIn(x, held) THEN held[x] ELSE 0

(* Between the calls the array holds the values that have been added and   *)
(* not been returned, and none is smaller than the one that will be        *)
(* returned next: taking values gives them in order, whatever was added in *)
(* between.                                                                *)
FirstIsSmallest ==
    pc = "idle" =>
        /\ \A x \in Values : Copies(x) =
               Cardinality({i \in 0 .. num_values - 1 : memory[i] = x})
        /\ num_values > 0 => memory[0] = Min(BagToSet(held))
=============================================================================
