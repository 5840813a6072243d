---------------------------- MODULE Instruction ----------------------------
(***************************************************************************)
(* The instructions of the branching processor of week1/proc: their fields *)
(* and opcodes (instruction.h) and what the arithmetic unit computes       *)
(* (alu.c), on words of W bits; the source has W = 32.                     *)
(***************************************************************************)
EXTENDS Integers

CONSTANT W  \* bits of a register

ASSUME WAssumption == W \in Nat \ {0}

NUM_REGISTERS == 8
Register      == 0 .. NUM_REGISTERS - 1

\* A word, and a value as it is after it has been stored in one.
Word    == 0 .. 2^W - 1
Wrap(n) == n % 2^W

-----------------------------------------------------------------------------
(* instruction.h: what each field of an instruction holds.                 *)

Field(instr, position, values) == (instr \div 2^position) % values

AluOp(instr)      == Field(instr, 10, 16)
Write(instr)      == Field(instr, 9, 2) = 1
\* Mutant: the first source from the bits of the second one.
SourceTwice(instr) == Field(instr, 3, NUM_REGISTERS)

Src1(instr)       == Field(instr, 6, NUM_REGISTERS)
Src2(instr)       == Field(instr, 3, NUM_REGISTERS)
Dst(instr)        == Field(instr, 0, NUM_REGISTERS)
BranchAddr(instr) == Field(instr, 0, NUM_REGISTERS * NUM_REGISTERS)

ADD == 0   INV == 1   SUB == 2   XOR == 3   OR == 4   INCR == 5   AND == 8
BNZ == 10  SRA == 11  SRL == 12  SLA == 13  SLL == 14  DONE == 15

-----------------------------------------------------------------------------
(* alu_eval()                                                              *)

Bit(n, i) == (n \div 2^i) % 2

\* The word whose bit i is on(bit i of a, bit i of b).
BitByBit(on(_, _), a, b) ==
    LET upTo[i \in 0..W] ==
          IF i = 0 THEN 0
          ELSE upTo[i - 1] + IF on(Bit(a, i - 1), Bit(b, i - 1)) THEN 2^(i - 1) ELSE 0
    IN  upTo[W]

\* An unknown opcode produces zero.
Alu(op, a, b) ==
    CASE op = ADD           -> Wrap(a + b)
      [] op = INV           -> 2^W - 1 - a
      [] op = SUB           -> Wrap(a - b)
      [] op = XOR           -> BitByBit(LAMBDA x, y : x # y, a, b)
      [] op = OR            -> BitByBit(LAMBDA x, y : x + y > 0, a, b)
      [] op = INCR          -> Wrap(a + 1)
      [] op = AND           -> BitByBit(LAMBDA x, y : x + y = 2, a, b)
      [] op = SRA           -> a \div 2 + (IF a >= 2^(W - 1) THEN 2^(W - 1) ELSE 0)
      [] op = SRL           -> a \div 2
      [] op \in {SLA, SLL}  -> Wrap(2 * a)
      [] OTHER              -> 0
=============================================================================
