------------------------------- MODULE Accum -------------------------------
(***************************************************************************)
(* The shared accumulator of src/finWeek/cas: threads that run on several  *)
(* processors call add_to_accum (accum.c), which tries one compare-and-swap *)
(* (cmp_swap.s) and does not retry.  Each access to *accum is a step.      *)
(*                                                                         *)
(* added and raced are history variables: what reached the accumulator,    *)
(* and which threads have been overtaken since they read it.               *)
(***************************************************************************)
EXTENDS Integers

CONSTANTS
  Threads,       \* NUM_THREADS threads
  NumValues,     \* NUM_VALUES, the number of additions of each
  Values,        \* the values that are added
  Width          \* 2^32, the number of values of a uint32_t

ASSUME AccumAssumption ==
  /\ NumValues \in Nat
  /\ Width \in Nat \ {0}
  /\ Values \subseteq 0 .. Width - 1

VARIABLES
  accum,         \* the accumulator
  pc,            \* where each thread is in add_to_accum
  done,          \* i, the additions it has finished
  value, old,    \* the argument and the local variable of the call
  returned,      \* what the last call returned
  added, raced

accumVars == <<accum, pc, done, value, old, returned, added, raced>>

uint32 == 0 .. Width - 1

AccumTypeOK ==
  /\ accum \in uint32
  /\ pc \in [Threads -> {"call", "swap", "reread", "failed"}]
  /\ done \in [Threads -> 0 .. NumValues]
  /\ value \in [Threads -> Values \cup {0}]
  /\ old \in [Threads -> uint32]
  /\ returned \in [Threads -> uint32]
  /\ added \in uint32
  /\ raced \in [Threads -> BOOLEAN]

AccumInit ==
  /\ accum = 0
  /\ pc = [t \in Threads |-> "call"]
  /\ done = [t \in Threads |-> 0]
  /\ value = [t \in Threads |-> 0]
  /\ old = [t \in Threads |-> 0]
  /\ returned = [t \in Threads |-> 0]
  /\ added = 0
  /\ raced = [t \in Threads |-> FALSE]

-----------------------------------------------------------------------------
\* Mutant: old keeps the value of the thread's first call.
ReadOnce(t, v) ==
  /\ pc[t] = "call" /\ done[t] < NumValues
  /\ pc' = [pc EXCEPT ![t] = "swap"]
  /\ value' = [value EXCEPT ![t] = v]
  /\ old' = [old EXCEPT ![t] = IF done[t] = 0 THEN accum ELSE @]
  /\ raced' = [raced EXCEPT ![t] = FALSE]
  /\ UNCHANGED <<accum, done, returned, added>>

\* The next iteration of thread_func calls add_to_accum: old = *accum;
Read(t, v) ==
  /\ pc[t] = "call" /\ done[t] < NumValues
  /\ pc' = [pc EXCEPT ![t] = "swap"]
  /\ value' = [value EXCEPT ![t] = v]
  /\ old' = [old EXCEPT ![t] = accum]
  /\ raced' = [raced EXCEPT ![t] = FALSE]
  /\ UNCHANGED <<accum, done, returned, added>>

\* Mutant: the store does not depend on the comparison.
SwapBlind(t) ==
  /\ pc[t] = "swap"
  /\ pc' = [pc EXCEPT ![t] = "reread"]
  /\ accum' = (old[t] + value[t]) % Width
  /\ added' = (added + value[t]) % Width
  /\ raced' = [u \in Threads |-> u # t]
  /\ UNCHANGED <<done, value, old, returned>>

\* lock cmpxchg with *accum equal to old: the sum is stored.
Swap(t) ==
  /\ pc[t] = "swap" /\ accum = old[t]
  /\ pc' = [pc EXCEPT ![t] = "reread"]
  /\ accum' = (old[t] + value[t]) % Width
  /\ added' = (added + value[t]) % Width
  /\ raced' = [u \in Threads |-> u # t \/ raced[u]]
  /\ UNCHANGED <<done, value, old, returned>>

\* lock cmpxchg with another value in *accum: "Couldn't update the accumulator".
SwapFails(t) ==
  /\ pc[t] = "swap" /\ accum # old[t]
  /\ pc' = [pc EXCEPT ![t] = "failed"]
  /\ UNCHANGED <<accum, done, value, old, returned, added, raced>>

\* return *accum; whether the compare-and-swap failed or not.
Reread(t) ==
  /\ pc[t] \in {"reread", "failed"}
  /\ pc' = [pc EXCEPT ![t] = "call"]
  /\ returned' = [returned EXCEPT ![t] = accum]
  /\ done' = [done EXCEPT ![t] = @ + 1]
  /\ UNCHANGED <<accum, value, old, added, raced>>

\* main() has joined every thread.
Joined ==
  /\ \A t \in Threads : pc[t] = "call" /\ done[t] = NumValues
  /\ UNCHANGED accumVars

AccumNext ==
  \/ \E t \in Threads :
       \/ \E v \in Values : Read(t, v)
       \/ Swap(t) \/ SwapFails(t) \/ Reread(t)
  \/ Joined

AccumSpec == AccumInit /\ [][AccumNext]_accumVars

-----------------------------------------------------------------------------
\* "without generating spurious results" (accum.c:15): the accumulator always holds
\* the sum of the additions whose compare-and-swap succeeded, each counted once,
\* however the calls interleave and also when the sum wraps round to a value read.
CountsSuccesses == accum = added

FailureRaced == \A t \in Threads : SwapFails(t) => raced[t]

\* accum.txt:4: the accumulator is lock-free.  A call fails to update it only when
\* another call updated it since this one read it, so some call always succeeds.
FailsOnlyWhenRaced == [][FailureRaced]_accumVars

\* accum.c:11: what a call that has added its value returns is the total "as a result
\* of this particular addition (i.e. irrespective of other concurrent additions)".
ReturnsOwnTotal ==
  [][\A t \in Threads : pc[t] = "reread" /\ Reread(t) =>
       returned'[t] = (old[t] + value[t]) % Width]_accumVars
=============================================================================
