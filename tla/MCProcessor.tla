---------------------------- MODULE MCProcessor ----------------------------
(***************************************************************************)
(* The programs of week1/proc that TLC runs on the branching processor:    *)
(* divider.ibits, ifib.ibits, and every instruction on its own.            *)
(***************************************************************************)
EXTENDS Processor, Sequences

CONSTANT Samples  \* the words that the single instructions are given

\* An instruction store with these instructions and DONE in every other slot.
Store(code) == [slot \in 0 .. Depth - 1 |->
                   IF slot < Len(code) THEN code[slot + 1] ELSE DONE * 2^10]

\* A register file that holds words in R0, R1, ... and ones in the others.
Registers(words) == [r \in Register |->
                        IF r < Len(words) THEN words[r + 1] ELSE 2^W - 1]

Divider == Store(<<\h0fb6, \h0fff, \h023f, \h0bcc, \ha314, \h2909, \h0bcf,
                   \h1786, \h28c3, \h3c00>>)
IFib    == Store(<<\h0a00, \h0b24, \h0adb, \h16da, \h0b6d, \h176d, \h02c4,
                   \h0283, \h02e2, \h0b4e, \h2985, \h3c00>>)

SignBit == 2^(W - 1)

\* op with source registers 0 and 1, its result to register 1 if it is written.
Single(op, write) == Store(<<op * 2^10 + write * 2^9 + 1 * 2^3 + 1>>)

MCLoads ==
    [imemory: {Divider},
     rfmem: {Registers(<<a, b, SignBit, 1>>) : a \in 0 .. SignBit - 1, b \in 0 .. SignBit}]
    \cup [imemory: {IFib}, rfmem: {Registers(<<0, n>>) : n \in Word}]
    \cup [imemory: {Single(op, write) : op \in 0..15, write \in {0, 1}},
          rfmem: {Registers(<<a, b>>) : a \in Samples, b \in Samples}]

-----------------------------------------------------------------------------

(* divider.ibits leaves the quotient in R6 and the remainder in R7, and a  *)
(* division by zero is stopped by MAX_EXECUTE_TIME (div_10_0.txt).         *)
DivisionCorrect ==
    imemory = Divider =>
        /\ unit = "done" => /\ rfmem[0] = rfmem[6] * rfmem[1] + rfmem[7]
                            /\ rfmem[7] < rfmem[1]
        /\ unit = "late" => rfmem[1] = 0
=============================================================================
