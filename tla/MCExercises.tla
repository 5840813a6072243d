---------------------------- MODULE MCExercises ----------------------------
(***************************************************************************)
(* The small programs of the repository, which TLC checks in one run: they *)
(* share no state, and which of them runs is chosen in the initial state.  *)
(***************************************************************************)
EXTENDS MCProcessor, Accum, SequencesExt

CONSTANTS Programs,                                         \* what is run
          Types, CatchSets, MIN_CAPACITY, MaxDepth, MayFail, \* Exceptions
          WIDTH, MaxValues,                                 \* Sieve
          BYTE, Texts,                                      \* RunLength
          NULL, Node,                                       \* LinkedList
          Numbers, max_values,                              \* BinaryHeap
          Thread, Queue                                     \* CoopThreads

\* As ThreadQueues assumes of the threads and queues of its own.
ASSUME ThreadsAssumption ==
    NULL \notin Thread /\ IsFiniteSet(Thread) /\ {"ready", "blocked"} \subseteq Queue

\* No node is at the null pointer.
ASSUME ListAssumption == NULL \notin Node

\* A vector begins with room for something; the heap holds numbers.
ASSUME VectorAssumption == MIN_CAPACITY \in Nat \ {0}
ASSUME HeapAssumption == Numbers \subseteq Int /\ max_values \in Nat

\* A byte can count, and a file is a sequence of values.
ASSUME RunLengthAssumption == BYTE \in Nat \ {0, 1} /\ Texts \subseteq Seq(Nat)

\* An unsigned int holds an even number of values, and any of them but zero is a limit.
ASSUME SieveAssumption == /\ WIDTH \in Nat \ {0}
                          /\ 2^WIDTH \in Nat /\ 2^WIDTH % 2 = 0
                          /\ MaxValues \subseteq 1 .. 2^WIDTH - 1

VARIABLES program,
          context, env_stack, lost, e_status,
          max_value, v, p, prev, multiple, printed, s_pc,
          text, read, lastch, count, encoded, esi, size, buffer, left, r_pc,
          head, tail, next, edx, ecx, l_pc, expected,
          memory, num_values, index, h_pc, result, held,
          turn, req, grant, alone, a_status,
          links, state, current, t_status

eVars == <<context, env_stack, lost, e_status>>
sVars == <<max_value, v, p, prev, multiple, printed, s_pc>>
rVars == <<text, read, lastch, count, encoded, esi, size, buffer, left, r_pc>>
lVars == <<head, tail, next, edx, ecx, l_pc, expected>>
hVars == <<memory, num_values, index, h_pc, result, held>>
aVars == <<turn, req, grant, alone, a_status>>
tVars == <<links, state, current, t_status>>

others == <<eVars, sVars, rVars, lVars, hVars, aVars, tVars>>

MCVars == <<program, vars, accumVars, others>>

E == INSTANCE Exceptions  WITH status <- e_status
S == INSTANCE Sieve       WITH pc <- s_pc
R == INSTANCE RunLength   WITH pc <- r_pc
L == INSTANCE LinkedList  WITH pc <- l_pc
H == INSTANCE BinaryHeap  WITH pc <- h_pc, Values <- Numbers
A == INSTANCE Arbiter     WITH status <- a_status
T == INSTANCE CoopThreads WITH status <- t_status

\* All files of at most eight bytes of two values, one of them zero.
MCTexts == BoundedSeq({0, 2}, 8)

\* A program that is not run stays in one of its initial states.
MCInit ==
    /\ program \in Programs
    /\ E!Init /\ L!Init /\ H!Init /\ T!Init /\ AccumInit
    /\ S!Init /\ (program # "sieve" => max_value = 1)
    /\ R!Init /\ (program # "runlength" => text = <<>>)
    /\ A!Init /\ (program # "arbiter" => req = [i \in {0, 1} |-> 0] /\ grant = req)
    /\ Init /\ (program # "processor" => /\ imemory = IFib /\ rfmem = Registers(<<0, 1>>)
                                        /\ bus = [b \in Buses |-> 0])

MCNext ==
    /\ UNCHANGED program
    /\ \/ /\ program = "processor" /\ Next
          /\ UNCHANGED <<accumVars, others>>
       \/ /\ program = "accumulator" /\ AccumNext
          /\ UNCHANGED <<vars, others>>
       \/ /\ program = "exceptions" /\ E!Next
          /\ UNCHANGED <<vars, accumVars, sVars, rVars, lVars, hVars, aVars, tVars>>
       \/ /\ program = "sieve" /\ S!Next
          /\ UNCHANGED <<vars, accumVars, eVars, rVars, lVars, hVars, aVars, tVars>>
       \/ /\ program = "runlength" /\ R!Next
          /\ UNCHANGED <<vars, accumVars, eVars, sVars, lVars, hVars, aVars, tVars>>
       \/ /\ program = "list" /\ L!Next
          /\ UNCHANGED <<vars, accumVars, eVars, sVars, rVars, hVars, aVars, tVars>>
       \/ /\ program = "heap" /\ H!Next
          /\ UNCHANGED <<vars, accumVars, eVars, sVars, rVars, lVars, aVars, tVars>>
       \/ /\ program = "arbiter" /\ A!Next
          /\ UNCHANGED <<vars, accumVars, eVars, sVars, rVars, lVars, hVars, tVars>>
       \/ /\ program = "threads" /\ T!Next
          /\ UNCHANGED <<vars, accumVars, eVars, sVars, rVars, lVars, hVars, aVars>>

MCSpec == MCInit /\ [][MCNext]_MCVars

-----------------------------------------------------------------------------
(* The properties of the programs, under names that a configuration can    *)
(* use; each is stated, with the code it is about, in its own module.      *)

(* The jump buffers are those of the TRY blocks whose code runs.           *)
BuffersMatchBlocks == E!BuffersMatchBlocks

(* The sieve prints the primes below its limit.                            *)
PrimesExact == S!PrimesExact

(* Decoding what was encoded gives the file back.                          *)
RoundTrip == R!RoundTrip

(* The list has its nodes in the order that the calls ask for.             *)
OrderKept == L!OrderKept

(* The heap gives its values in order.                                     *)
FirstIsSmallest == H!FirstIsSmallest

(* A processor that alone asks for the bus waits one clock at most.        *)
GrantedInTwo == A!GrantedInTwo

(* The bus is granted to one processor at most, in its turn.               *)
GrantedInTurn == A!GrantedInTurn

(* The cooperative threads take turns in order.                            *)
ImplementsRoundRobin == T!ImplementsRoundRobin
=============================================================================
