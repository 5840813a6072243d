------------------------------- MODULE Sieve -------------------------------
(***************************************************************************)
(* The prime sieve of finWeek/primes: find_primes() (psieve.c) on a bit    *)
(* vector of the odd numbers from 3 (bitvector.c).  An unsigned int has    *)
(* WIDTH bits, and so has an element of the vector; the source has 32.     *)
(***************************************************************************)
EXTENDS Integers, Sequences, SequencesExt

CONSTANTS WIDTH, MaxValues  \* MaxValues: the limits the program is given

VARIABLES max_value, v,       \* v: the bit vector, its bits and num_bits
          p, prev, multiple,
          printed,
          pc                  \* the loop: "small", "clear", "large", "done", "failed"

vars == <<max_value, v, p, prev, multiple, printed, pc>>

UInt(n) == n % 2^WIDTH

(* init_bitvector() and set_all_bits(): whole elements of set bits.        *)
AllSet(num_bits) ==
    LET num_uints == num_bits \div WIDTH + (IF num_bits % WIDTH # 0 THEN 1 ELSE 0)
    IN  [num_bits |-> num_bits, bits |-> [i \in 0 .. num_uints * WIDTH - 1 |-> 1]]

(* main() refuses a limit of zero; 2 is printed before the loops.          *)
Init == /\ max_value \in MaxValues
        /\ v = AllSet(max_value \div 2)
        /\ p = 3 /\ prev = 0 /\ multiple = 0
        /\ printed = <<2>>
        /\ pc = "small"

bit_index_of(n) == (n - 3) \div 2

\* The assertions of bit_index_of(), get_bitvalue() and set_bitvalue().
Held(n) == n % 2 = 1 /\ n > 2 /\ bit_index_of(n) < v.num_bits

get_bitvalue(n) == v.bits[bit_index_of(n)]

Fail == pc' = "failed" /\ UNCHANGED <<v, p, prev, multiple, printed>>

(* The loop over the numbers up to the root: its test is of 64 bits.       *)
Small ==
    /\ pc = "small"
    /\ IF p * p > max_value
       THEN pc' = "large" /\ UNCHANGED <<v, p, prev, multiple, printed>>
       ELSE IF ~Held(p) THEN Fail
       ELSE IF get_bitvalue(p) = 1
       THEN /\ printed' = Append(printed, p)
            /\ prev' = p /\ multiple' = UInt(p * p)
            /\ pc' = "clear" /\ UNCHANGED <<v, p>>
       ELSE p' = UInt(p + 2) /\ UNCHANGED <<v, prev, multiple, printed, pc>>
    /\ UNCHANGED max_value

\* Mutant: a multiple that has wrapped round is taken for the next one.
Unwrapped == multiple < max_value

\* multiple > prev: the sum has not wrapped round.
MoreToClear == multiple > prev /\ multiple < max_value

(* The loop over the odd multiples of p                                    *)
Clear ==
    /\ pc = "clear"
    /\ IF ~MoreToClear
       THEN p' = UInt(p + 2) /\ pc' = "small" /\ UNCHANGED <<v, prev, multiple, printed>>
       ELSE IF ~Held(multiple) THEN Fail
       ELSE /\ v' = [v EXCEPT !.bits[bit_index_of(multiple)] = 0]
            /\ prev' = multiple
            /\ multiple' = UInt(multiple + UInt(2 * p))
            /\ UNCHANGED <<p, printed, pc>>
    /\ UNCHANGED max_value

(* The loop over the numbers above the root                                *)
Large ==
    /\ pc = "large"
    /\ IF p >= max_value
       THEN pc' = "done" /\ UNCHANGED <<v, p, prev, multiple, printed>>
       ELSE IF ~Held(p) THEN Fail
       ELSE /\ printed' = IF get_bitvalue(p) = 1 THEN Append(printed, p) ELSE printed
            /\ p' = UInt(p + 2)
            /\ UNCHANGED <<v, prev, multiple, pc>>
    /\ UNCHANGED max_value

\* The program has ended.
Over == pc \in {"done", "failed"} /\ UNCHANGED vars

Next == Small \/ Clear \/ Large \/ Over

Spec == Init /\ [][Next]_vars

-----------------------------------------------------------------------------

Divides(d, n) == n % d = 0
Prime(n)      == n > 1 /\ \A d \in 2 .. n - 1 : ~Divides(d, n)

(* The sieve errs neither way below its limit, up to the largest one that  *)
(* an unsigned int holds: at the end the primes below max_value, and 2 in  *)
(* any case, have been printed (psieve.c:129 and 141), each once and in    *)
(* order, and no assertion fails on the way.                               *)
PrimesExact ==
    /\ pc # "failed"
    /\ pc = "done" => /\ ToSet(printed) = {2} \cup {n \in 3 .. max_value - 1 : Prime(n)}
                      /\ \A i \in 1 .. Len(printed) - 1 : printed[i] < printed[i + 1]

(* psieve.c:20: "Finds and prints all prime numbers up to max_value", so   *)
(* the limit itself too when it is prime.                                  *)
PrimesUpToMax ==
    pc = "done" => ToSet(printed) = {n \in 1 .. max_value : Prime(n)}
=============================================================================
