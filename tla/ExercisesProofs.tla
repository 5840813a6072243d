-------------------------- MODULE ExercisesProofs --------------------------
(***************************************************************************)
(* The theorems about the small programs: the accumulator counts every     *)
(* successful addition once, the processor executes its instruction set,   *)
(* the arbiter hands the bus round, the cooperative threads take turns,    *)
(* the list that is reversed in place keeps its order, every jump buffer   *)
(* belongs to a block that is still open, the heap gives its values in     *)
(* order, decoding undoes the run-length coding, and the sieve prints the  *)
(* primes.  Each program has a part of its own below, and the invariant    *)
(* that its proof needs.                                                   *)
(***************************************************************************)
EXTENDS MCExercises, FiniteSetTheorems, WellFoundedInduction, TLAPS

\* A set of natural numbers that is not empty has a least one.
LEMMA LeastNat ==
  ASSUME NEW D \in SUBSET Nat, D # {}
  PROVE  \E n \in D : \A m \in D : n <= m
<1>1. IsWellFoundedOn(OpToRel(<, Nat), Nat)
  BY NatLessThanWellFounded
<1>2. PICK n \in D : \A m \in D : ~(<<m, n>> \in OpToRel(<, Nat))
  BY <1>1, WFMin
<1>3. \A m \in D : ~(m < n)
  BY <1>2 DEF OpToRel
<1> QED
  BY <1>3

\* Division, which the provers know for a fixed divisor only.
LEMMA Division ==
  ASSUME NEW n \in Nat, NEW d \in Nat \ {0}
  PROVE  /\ n \div d \in Nat /\ n % d \in 0 .. d - 1
         /\ n = (n \div d) * d + (n % d)
OBVIOUS

LEMMA AtLeast ==
  ASSUME NEW q \in Int, NEW d \in Nat \ {0}, q >= 1
  PROVE  q * d >= d
OBVIOUS

LEMMA Monotone ==
  ASSUME NEW m \in Int, NEW q \in Int, NEW d \in Nat \ {0}, m <= q
  PROVE  m * d <= q * d
OBVIOUS

\* Quotient and remainder are the only way to write n as q * d + r with r below d.
LEMMA DivisionUnique ==
  ASSUME NEW d \in Nat \ {0}, NEW q \in Nat, NEW r \in 0 .. d - 1
  PROVE  /\ q * d + r \in Nat
         /\ (q * d + r) \div d = q
         /\ (q * d + r) % d = r
<1>1. q * d \in Nat
  OBVIOUS
<1> DEFINE n == q * d + r
           m == n \div d
<1>2. n \in Nat
  BY <1>1
<1> HIDE DEF n
<1>3. /\ m \in Nat /\ n % d \in 0 .. d - 1
      /\ n = m * d + (n % d)
  BY <1>2, Division
<1> HIDE DEF m
<1>4. q * d - m * d = (n % d) - r
  BY <1>1, <1>3 DEF n
<1>5. /\ (q - m) * d = q * d - m * d
      /\ (m - q) * d = m * d - q * d
  BY <1>3
<1>6. ~(q - m >= 1)
  BY <1>3, <1>4, <1>5, AtLeast
<1>7. ~(m - q >= 1)
  BY <1>3, <1>4, <1>5, AtLeast
<1>8. q = m
  BY <1>3, <1>6, <1>7
<1> QED
  BY <1>2, <1>3, <1>4, <1>8 DEF n, m

\* A number below the divisor is its own remainder.
LEMMA OwnRemainder ==
  ASSUME NEW d \in Nat \ {0}, NEW r \in 0 .. d - 1
  PROVE  r % d = r
<1>1. (0 * d + r) % d = r
  BY DivisionUnique
<1>2. 0 * d + r = r
  OBVIOUS
<1> QED
  BY <1>1, <1>2

-----------------------------------------------------------------------------
(* The accumulator: what its threads know of it between their steps.       *)

\* A thread about to swap holds the current value, or has been overtaken.
OldOrRaced == \A th \in Threads : pc[th] = "swap" => accum = old[th] \/ raced[th]

\* A thread inside a call has not done all its additions.
Unfinished == \A th \in Threads : pc[th] # "call" => done[th] < NumValues

AccumInv == AccumTypeOK /\ CountsSuccesses /\ OldOrRaced /\ Unfinished

\* Sums are cut to the width of the accumulator.
LEMMA CutToWidth ==
  ASSUME NEW x \in uint32, NEW w \in Values \cup {0}
  PROVE  (x + w) % Width \in uint32
  BY AccumAssumption DEF uint32

\* Every step keeps the parts of the invariant.
LEMMA AccumStep == AccumInv /\ [AccumNext]_accumVars => AccumInv'
<1> SUFFICES ASSUME AccumInv, [AccumNext]_accumVars PROVE AccumInv'
  OBVIOUS
<1> USE DEF AccumInv, AccumTypeOK, CountsSuccesses, OldOrRaced, Unfinished
<1>1. ASSUME NEW th \in Threads, NEW w \in Values, Read(th, w)
      PROVE  AccumInv'
  <2>1. AccumTypeOK'
    BY <1>1 DEF Read
  <2>2. CountsSuccesses' /\ OldOrRaced' /\ Unfinished'
    BY <1>1 DEF Read
  <2> QED
    BY <2>1, <2>2
<1>2. ASSUME NEW th \in Threads, Swap(th)
      PROVE  AccumInv'
  <2>1. /\ (old[th] + value[th]) % Width \in uint32
        /\ (added + value[th]) % Width \in uint32
    BY CutToWidth
  <2>2. AccumTypeOK'
    BY <1>2, <2>1 DEF Swap
  <2>3. CountsSuccesses'
    BY <1>2 DEF Swap
  <2>4. OldOrRaced' /\ Unfinished'
    BY <1>2 DEF Swap
  <2> QED
    BY <2>2, <2>3, <2>4
<1>3. ASSUME NEW th \in Threads, SwapFails(th)
      PROVE  AccumInv'
  BY <1>3 DEF SwapFails
<1>4. ASSUME NEW th \in Threads, Reread(th)
      PROVE  AccumInv'
  <2>1. done[th] < NumValues
    BY <1>4, AccumAssumption DEF Reread
  <2>2. done[th] + 1 \in 0 .. NumValues
    BY <2>1, AccumAssumption
  <2>3. AccumTypeOK'
    BY <1>4, <2>2 DEF Reread
  <2>4. CountsSuccesses' /\ OldOrRaced' /\ Unfinished'
    BY <1>4 DEF Reread
  <2> QED
    BY <2>3, <2>4
<1>5. CASE UNCHANGED accumVars
  BY <1>5 DEF accumVars
<1> QED
  BY <1>1, <1>2, <1>3, <1>4, <1>5 DEF AccumNext, Joined

LEMMA AccumInvariance == AccumSpec => []AccumInv
<1>1. AccumInit => AccumInv
  BY AccumAssumption
     DEF AccumInit, AccumInv, AccumTypeOK, CountsSuccesses, OldOrRaced, Unfinished, uint32
<1> QED
  BY <1>1, AccumStep, PTL DEF AccumSpec

\* "without generating spurious results" (accum.c:15): for any number of threads,
\* values and any width the accumulator holds the sum of the successful additions.
THEOREM AccumulatorExact == AccumSpec => []CountsSuccesses
<1>1. AccumInv => CountsSuccesses
  BY DEF AccumInv
<1> QED
  BY <1>1, AccumInvariance, PTL

\* accum.txt:4, lock-freedom: an addition that fails has been overtaken by one that
\* succeeded since it read the accumulator.
THEOREM LockFree == AccumSpec => FailsOnlyWhenRaced
<1>1. AccumInv => FailureRaced
  BY DEF AccumInv, OldOrRaced, SwapFails, FailureRaced
<1> QED
  BY <1>1, AccumInvariance, PTL DEF FailsOnlyWhenRaced

-----------------------------------------------------------------------------
(* The processor, whatever the program and the registers are and whatever  *)
(* the buses hold at first: the invariant says of each bus that a unit has *)
(* set in this clock what it was set to; a bus that no unit has set may    *)
(* hold anything.                                                          *)

Units == {"ifetch", "idecode", "rf_read", "branch_test", "alu_eval", "rf_write", "nextPC",
          "test", "done", "late"}

Shape == /\ bus = [b \in Buses |-> bus[b]]
         /\ unit \in Units
         /\ t \in Int

\* What the buses hold when the unit that needs them runs.
Fetched == unit \in {"idecode", "rf_read", "branch_test", "alu_eval", "rf_write"} =>
               /\ bus["pc"] \in 0 .. Depth - 1
               /\ bus["instr"] = imemory[bus["pc"]]

Decoded == unit \in {"rf_read", "branch_test", "alu_eval", "rf_write"} =>
               /\ bus["aluop"]       = AluOp(bus["instr"])
               /\ bus["writep"]      = IF Write(bus["instr"]) THEN 1 ELSE 0
               /\ bus["src1"]        = Src1(bus["instr"])
               /\ bus["src2"]        = Src2(bus["instr"])
               /\ bus["dst"]         = Dst(bus["instr"])
               /\ bus["branch_addr"] = BranchAddr(bus["instr"])

ReadOut == unit \in {"branch_test", "alu_eval", "rf_write"} =>
            bus["rf1"] = rfmem[bus["src1"]] /\ bus["rf2"] = rfmem[bus["src2"]]

Tested == unit \in {"alu_eval", "rf_write"} =>
              bus["branch"] = IF bus["aluop"] = BNZ /\ bus["rf1"] # 0 THEN 1 ELSE 0

Computed == unit = "rf_write" =>
                bus["aluout"] = Alu(bus["aluop"], bus["rf1"], bus["rf2"])

\* The wires carry the instruction through the units.
Wires == Shape /\ Fetched /\ Decoded /\ ReadOut /\ Tested /\ Computed

-----------------------------------------------------------------------------

LEMMA InitWires == Init => Wires
  BY DEF Init, Wires, Shape, Fetched, Decoded, ReadOut, Tested, Computed, Units, Buses

LEMMA StepWires == Wires /\ [Next]_vars => Wires'
<1> SUFFICES ASSUME Wires, [Next]_vars
             PROVE  Wires'
  OBVIOUS
<1> USE DEF Wires, Shape, Units, Run
<1>1. CASE ifetch
  BY <1>1 DEF ifetch, Buses, Fetched, Decoded, ReadOut, Tested, Computed
<1>2. CASE idecode
  BY <1>2 DEF idecode, Buses, Fetched, Decoded, ReadOut, Tested, Computed
<1>3. CASE rf_read
  BY <1>3 DEF rf_read, Buses, Fetched, Decoded, ReadOut, Tested, Computed
<1>4. CASE branch_test
  BY <1>4 DEF branch_test, Buses, Fetched, Decoded, ReadOut, Tested, Computed
<1>5. CASE alu_eval
  BY <1>5 DEF alu_eval, Buses, Fetched, Decoded, ReadOut, Tested, Computed
<1>6. CASE rf_write
  BY <1>6 DEF rf_write, Buses, Fetched, Decoded, ReadOut, Tested, Computed
<1>7. CASE nextPC
  BY <1>7 DEF nextPC, Buses, Fetched, Decoded, ReadOut, Tested, Computed
<1>8. CASE Done
  BY <1>8 DEF Done, Fetched, Decoded, ReadOut, Tested, Computed
<1>9. CASE Clock
  BY <1>9 DEF Clock, Fetched, Decoded, ReadOut, Tested, Computed
<1>10. CASE UNCHANGED vars
  BY <1>10 DEF vars, Fetched, Decoded, ReadOut, Tested, Computed
<1> QED
  BY <1>1, <1>2, <1>3, <1>4, <1>5, <1>6, <1>7, <1>8, <1>9, <1>10 DEF Next, Over

-----------------------------------------------------------------------------

(* The arithmetic unit is the same function in both specifications.        *)
LEMMA SameAlu == \A op, a, b : ISA!Alu(op, a, b) = Alu(op, a, b)
  BY Zenon DEF ISA!Alu, Alu, ISA!BitByBit, BitByBit, ISA!Bit, Bit, ISA!Wrap, Wrap,
         ISA!ADD, ADD, ISA!INV, INV, ISA!SUB, SUB, ISA!XOR, XOR, ISA!OR, OR,
         ISA!INCR, INCR, ISA!AND, AND, ISA!SRA, SRA, ISA!SRL, SRL, ISA!SLA, SLA,
         ISA!SLL, SLL

(* ... and so are the fields of an instruction.                            *)
LEMMA SameFields ==
    /\ \A i : /\ ISA!AluOp(i) = AluOp(i) /\ ISA!Field(i, 9, 2) = Field(i, 9, 2)
              /\ ISA!Src1(i) = Src1(i)   /\ ISA!Src2(i) = Src2(i)
              /\ ISA!Dst(i) = Dst(i)     /\ ISA!BranchAddr(i) = BranchAddr(i)
    /\ ISA!BNZ = BNZ /\ ISA!DONE = DONE
  BY Zenon DEF ISA!AluOp, AluOp, ISA!Src1, Src1, ISA!Src2, Src2, ISA!Dst, Dst,
         ISA!BranchAddr, BranchAddr, ISA!Field, Field, ISA!NUM_REGISTERS, NUM_REGISTERS,
         ISA!BNZ, BNZ, ISA!DONE, DONE

LEMMA InitMaps == Init => ISA!Init
<1> SUFFICES ASSUME Init
             PROVE  ISA!Init
  OBVIOUS
<1>1. imemory \in [0 .. Depth - 1 -> Nat] /\ rfmem \in [Register -> Word]
  BY LoadAssumption DEF Init
<1>2. ISA!Register = Register /\ ISA!Word = Word
  BY Zenon DEF ISA!Register, Register, ISA!NUM_REGISTERS, NUM_REGISTERS, ISA!Word, Word
<1>3. unit = "ifetch" /\ t = 1 /\ bus["pc"] = 0
  BY DEF Init, Buses
<1> QED
  BY <1>1, <1>2, <1>3 DEF ISA!Init, Taken

(* rf_write executes the instruction, and no other unit does anything that *)
(* a programmer sees.                                                      *)
LEMMA StepMaps == Wires /\ [Next]_vars => [ISA!Next]_(ISA!vars)
<1> SUFFICES ASSUME Wires, [Next]_vars
             PROVE  [ISA!Next]_(ISA!vars)
  OBVIOUS
<1> USE DEF Wires, Shape, Units, Run, Taken
<1>1. CASE ifetch
  BY <1>1 DEF ifetch, ISA!vars, Buses
<1>2. CASE idecode
  BY <1>2 DEF idecode, ISA!vars, Buses
<1>3. CASE rf_read
  BY <1>3 DEF rf_read, ISA!vars, Buses
<1>4. CASE branch_test
  BY <1>4 DEF branch_test, ISA!vars, Buses
<1>5. CASE alu_eval
  BY <1>5 DEF alu_eval, ISA!vars, Buses
<1>6. CASE rf_write
  <2> DEFINE instr == imemory[bus["pc"]]
  <2>1. /\ bus["pc"] \in 0 .. Depth - 1
        /\ bus["aluop"] = AluOp(instr) /\ bus["branch_addr"] = BranchAddr(instr)
        /\ bus["writep"] = (IF Write(instr) THEN 1 ELSE 0) /\ bus["dst"] = Dst(instr)
        /\ bus["rf1"] = rfmem[Src1(instr)] /\ bus["rf2"] = rfmem[Src2(instr)]
        /\ bus["aluout"] = Alu(AluOp(instr), rfmem[Src1(instr)], rfmem[Src2(instr)])
        /\ bus["branch"] = IF AluOp(instr) = BNZ /\ rfmem[Src1(instr)] # 0 THEN 1 ELSE 0
    BY <1>6 DEF rf_write, Fetched, Decoded, ReadOut, Tested, Computed
  <2>2. /\ unit = "rf_write" /\ unit' = "nextPC" /\ UNCHANGED <<imemory, bus, t>>
        /\ t \in Int
    BY <1>6 DEF rf_write
  <2>3. rfmem' = IF Write(instr)
                 THEN [rfmem EXCEPT ![Dst(instr)] =
                          Alu(AluOp(instr), rfmem[Src1(instr)], rfmem[Src2(instr)])]
                 ELSE rfmem
    <3>1. CASE Write(instr)
      <4>1. bus["writep"] = 1
        BY <2>1, <3>1
      <4> QED
        BY <1>6, <2>1, <3>1, <4>1, Zenon DEF rf_write
    <3>2. CASE ~Write(instr)
      <4>1. bus["writep"] # 1
        BY <2>1, <3>2
      <4> QED
        BY <1>6, <3>2, <4>1, Zenon DEF rf_write
    <3> QED
      BY <3>1, <3>2
  <2>4. NextOf' = IF AluOp(instr) = BNZ /\ rfmem[Src1(instr)] # 0 THEN BranchAddr(instr)
                  ELSE bus["pc"] + 1
    BY <2>1, <2>2 DEF NextOf
  <2>5. ISA!Execute
    <3>1. /\ ISA!AluOp(instr) = AluOp(instr) /\ ISA!Src1(instr) = Src1(instr)
          /\ ISA!Src2(instr) = Src2(instr) /\ ISA!Dst(instr) = Dst(instr)
          /\ ISA!BranchAddr(instr) = BranchAddr(instr)
          /\ ISA!BNZ = BNZ /\ ISA!DONE = DONE
      BY SameFields
    <3>2. ISA!Write(instr) <=> Write(instr)
      BY SameFields DEF ISA!Write, Write
    <3>3. rfmem' = IF ISA!Write(instr)
                   THEN [rfmem EXCEPT ![ISA!Dst(instr)] =
                            ISA!Alu(ISA!AluOp(instr), rfmem[ISA!Src1(instr)],
                                    rfmem[ISA!Src2(instr)])]
                   ELSE rfmem
      BY <2>3, <3>1, <3>2, SameAlu, Zenon
    <3> HIDE DEF instr
    <3>4. imemory[IF unit = "nextPC" THEN NextOf ELSE bus["pc"]] = instr
      BY <2>2 DEF instr
    <3> QED
      BY TimeAssumption, <2>1, <2>2, <2>4, <3>1, <3>3, <3>4 DEF ISA!Execute, ISA!Write
  <2> QED
    BY <2>5 DEF ISA!Next
<1>7. CASE nextPC
  BY <1>7 DEF nextPC, ISA!vars, Buses, NextOf
<1>8. CASE Done
  BY <1>8 DEF Done, ISA!vars
<1>9. CASE Clock
  BY <1>9 DEF Clock, ISA!vars
<1>10. CASE UNCHANGED vars
  BY <1>10 DEF vars, ISA!vars, NextOf
<1> QED
  BY <1>1, <1>2, <1>3, <1>4, <1>5, <1>6, <1>7, <1>8, <1>9, <1>10 DEF Next, Over

(* Every behaviour of the processor is one of the instruction set: the     *)
(* order in which clock() runs the units is right for every program, and   *)
(* no instruction sees a value that another one has left on a bus.         *)
THEOREM ProcessorImplementsISA == Spec => ImplementsISA
<1>1. Spec => []Wires
  BY InitWires, StepWires, PTL DEF Spec
<1>2. []Wires /\ [][Next]_vars => [][ISA!Next]_(ISA!vars)
  BY StepMaps, PTL
<1> QED
  BY <1>1, <1>2, InitMaps, PTL DEF Spec, ImplementsISA, ISA!Spec

-----------------------------------------------------------------------------
(* The bus arbiter.                                                        *)

\* A processor that has asked alone for one clock has its turn, and for two it has
\* the bus.
ArbiterInv ==
    /\ turn \in {0, 1}
    /\ alone \in [{0, 1} -> 0 .. 3]
    /\ DOMAIN req = {0, 1} /\ DOMAIN grant = {0, 1}
    /\ \A i \in {0, 1} : /\ alone[i] >= 1 => turn = i
                         /\ alone[i] >= 2 => grant[i] = 1

LEMMA ArbiterInit == A!Init => ArbiterInv
  BY DEF A!Init, ArbiterInv, A!Processor

LEMMA ArbiterStep ==
  ASSUME ArbiterInv, A!Next
  PROVE  /\ ArbiterInv'
         /\ \A i \in {0, 1} : a_status' = "running" /\ grant'[i] = 1 =>
              turn = i /\ turn' = i /\ req'[i] = 1 /\ grant'[1 - i] = 0
<1>1. CASE A!Round
  <2>1. DOMAIN req' = {0, 1}
    BY <1>1 DEF A!Round, A!Processor, ArbiterInv
  <2>2. alone' = [i \in {0, 1} |-> IF req'[i] # 1 \/ req'[1 - i] # 0 THEN 0
                                   ELSE IF alone[i] = 3 THEN 3 ELSE alone[i] + 1]
    BY <1>1 DEF A!Round, A!Processor, A!Enough
  <2>3. alone' \in [{0, 1} -> 0 .. 3]
    BY <2>2 DEF ArbiterInv
  <2>4. CASE ~(req'[0] \in {0, 1} /\ req'[1] \in {0, 1})
    <3>1. a_status' = "aborted" /\ turn' = turn /\ grant' = grant
      BY <1>1, <2>4 DEF A!Round, A!clock_arbiter
    <3>2. \A i \in {0, 1} : alone'[i] = 0
      BY <2>2, <2>4
    <3> QED
      BY <2>1, <2>3, <3>1, <3>2 DEF ArbiterInv
  <2>5. CASE req'[0] \in {0, 1} /\ req'[1] \in {0, 1}
    <3> DEFINE asks == req'[turn] = 1
    <3>1. turn \in {0, 1} /\ (asks <=> A!HoldsTurn(req'[0], req'[1]))
      BY DEF ArbiterInv, A!HoldsTurn
    <3>2. /\ turn' = IF asks THEN turn ELSE 1 - turn
          /\ grant' = [i \in {0, 1} |-> IF i = turn /\ asks THEN 1 ELSE 0]
      BY <1>1, <2>5, <3>1 DEF A!Round, A!clock_arbiter, A!NextGrant, A!Processor
    <3>3. \A i \in {0, 1} : /\ alone'[i] >= 1 => turn' = i
                            /\ alone'[i] >= 2 => grant'[i] = 1
      <4> SUFFICES ASSUME NEW i \in {0, 1}, alone'[i] >= 1
                   PROVE  turn' = i /\ (alone'[i] >= 2 => grant'[i] = 1)
        BY <2>3
      <4>1. req'[i] = 1 /\ req'[1 - i] = 0 /\ (alone'[i] >= 2 => alone[i] >= 1)
        BY <2>2 DEF ArbiterInv
      <4>2. turn = i \/ turn = 1 - i
        BY <3>1
      <4> QED
        BY <3>1, <3>2, <4>1, <4>2 DEF ArbiterInv
    <3>4. turn' \in {0, 1} /\ DOMAIN grant' = {0, 1}
      BY <3>1, <3>2
    <3>5. \A i \in {0, 1} : grant'[i] = 1 =>
            turn = i /\ turn' = i /\ req'[i] = 1 /\ grant'[1 - i] = 0
      BY <3>1, <3>2
    <3> QED
      BY <2>1, <2>3, <3>3, <3>4, <3>5 DEF ArbiterInv
  <2> QED
    BY <2>4, <2>5
<1>2. CASE A!Over
  BY <1>2 DEF A!Over, A!vars, ArbiterInv
<1> QED
  BY <1>1, <1>2 DEF A!Next

\* Of all the programs only the arbiter changes its pins.
LEMMA ArbiterAlone ==
  MCInit => A!Init
  BY DEF MCInit

LEMMA ArbiterSteps ==
  [MCNext]_MCVars => [A!Next]_aVars
BY DEF MCNext, MCVars, others, aVars

THEOREM ArbiterInvariant == MCSpec => []ArbiterInv
<1>1. MCInit => ArbiterInv
  BY ArbiterInit DEF MCInit
<1>2. ArbiterInv /\ [MCNext]_MCVars => ArbiterInv'
  BY ArbiterSteps, ArbiterStep DEF aVars, ArbiterInv
<1> QED
  BY <1>1, <1>2, PTL DEF MCSpec

\* part_b.txt of the arbiter: a processor that asks for the bus while the other does
\* not has it from the second clock on, whatever the pins held before they were set.
THEOREM BusGrantedInTwo == MCSpec => []GrantedInTwo
<1>1. ArbiterInv => GrantedInTwo
  BY DEF ArbiterInv, GrantedInTwo, A!GrantedInTwo, A!Processor
<1> QED
  BY <1>1, ArbiterInvariant, PTL

\* The bus is granted to one processor at most, in a turn that began before.
THEOREM BusGrantedInTurn == MCSpec => GrantedInTurn
<1>1. ArbiterInv /\ [MCNext]_MCVars =>
        [A!InTurn]_(A!vars)
  BY ArbiterSteps, ArbiterStep DEF aVars, A!vars, A!Processor, A!InTurn
<1> QED
  BY <1>1, ArbiterInvariant, PTL DEF MCSpec, GrantedInTurn, A!GrantedInTurn

-----------------------------------------------------------------------------
(* The exceptions.                                                         *)

\* The exceptions that a block can have: those that are thrown, and 0 stands for one.
Exceptions == Types \cup {0, 1}

TryContext == [kind : {"try"}, state : {"code", "arrived", "catch"},
               exception : Exceptions, catches : CatchSets]

\* The places of the blocks of c whose code runs.
Running(c) == {k \in 1 .. Len(c) : c[k].kind = "try" /\ c[k].state = "code"}

\* A vector whose first size elements are buffers of the blocks at the places G, from
\* the outermost to the innermost.
Stacked(es, G) ==
    /\ es \in [elems : Seq(Nat), size : Nat] /\ es.size <= Len(es.elems)
    /\ \A k \in 1 .. es.size : es.elems[k] \in G
    /\ \A j, k \in 1 .. es.size : j < k => es.elems[j] < es.elems[k]

\* All of those blocks have one.
AllStacked(es, G) == \A g \in G : \E k \in 1 .. es.size : es.elems[k] = g

ThrowInv ==
    /\ context \in Seq({E!CallContext} \cup TryContext)
    /\ Len(context) >= 1 /\ context[1] = E!CallContext
    /\ Stacked(env_stack, Running(context))
    /\ ~lost => /\ AllStacked(env_stack, Running(context))
                /\ e_status = "aborted" => Running(context) = {}

LEMMA NothingThrown == E!Init => ThrowInv
<1> SUFFICES ASSUME E!Init PROVE ThrowInv
  OBVIOUS
<1>1. /\ context = <<E!CallContext>> /\ env_stack = [elems |-> <<>>, size |-> 0]
      /\ e_status = "running"
  BY DEF E!Init
<1>2. Running(context) = {}
  BY <1>1 DEF Running, E!CallContext
<1>3. context \in Seq({E!CallContext} \cup TryContext)
  BY <1>1
<1>4. Stacked(env_stack, {}) /\ AllStacked(env_stack, {})
  BY <1>1 DEF Stacked, AllStacked
<1>5. Len(context) = 1 /\ context[1] = E!CallContext
  BY <1>1
<1>6. Stacked(env_stack, Running(context)) /\ AllStacked(env_stack, Running(context))
  BY <1>2, <1>4
<1> QED
  BY <1>2, <1>3, <1>5, <1>6 DEF ThrowInv

\* Halving a capacity that is enough leaves one that is enough.
LEMMA CapacityStays ==
  ASSUME NEW limit \in Nat, NEW used \in 0 .. limit
  PROVE  E!FinalCapacity(limit, used) \in used .. limit
<1> DEFINE Halves(c) == c \div 2 > MIN_CAPACITY /\ c \div 2 > used
           Fits(n, h) == \A c \in 0 .. n : /\ h[c] = IF Halves(c) THEN h[c \div 2] ELSE c
                                           /\ h[c] \in 0 .. c
                                           /\ used <= c => used <= h[c]
           Good == {n \in Nat : \E h \in [0 .. n -> Nat] : Fits(n, h)}
           Rec(h) == h = [c \in 0 .. limit |-> IF Halves(c) THEN h[c \div 2] ELSE c]
<1>1. Good = Nat
  <2> DEFINE Bad == Nat \ Good
  <2>1. ASSUME Bad # {} PROVE FALSE
    <3>1. PICK n \in Bad : \A m \in Bad : n <= m
      <4>1. Bad \in SUBSET Nat
        OBVIOUS
      <4> HIDE DEF Bad
      <4> QED
        BY <2>1, <4>1, LeastNat
    <3>2. CASE n = 0
      <4> DEFINE h == [c \in 0 .. 0 |-> 0]
      <4>1. h \in [0 .. 0 -> Nat] /\ ~Halves(0)
        OBVIOUS
      <4>2. Fits(0, h)
        BY <4>1
      <4> QED
        BY <3>1, <3>2, <4>1, <4>2
    <3>3. CASE n # 0
      <4>1. n - 1 \in Nat /\ ~(n <= n - 1)
        BY <3>1, <3>3
      <4>2. PICK g \in [0 .. n - 1 -> Nat] : Fits(n - 1, g)
        BY <3>1, <4>1
      <4> DEFINE h == [c \in 0 .. n |-> IF c <= n - 1 THEN g[c]
                                        ELSE IF Halves(n) THEN g[n \div 2] ELSE n]
      <4>3. n \div 2 \in 0 .. n - 1
        BY <3>1, <3>3
      <4>4. \A c \in 0 .. n : c \in 0 .. n - 1 \/ c = n
        BY <3>1
      <4>5. h \in [0 .. n -> Nat]
        BY <3>1, <4>1, <4>2, <4>3, <4>4
      <4>6. \A c \in 0 .. n - 1 : h[c] = g[c] /\ c \div 2 \in 0 .. n - 1
        BY <3>1
      <4>7. h[n] = IF Halves(n) THEN g[n \div 2] ELSE n
        BY <3>1
      <4> HIDE DEF h
      <4>8. ASSUME NEW c \in 0 .. n - 1
            PROVE  /\ h[c] = IF Halves(c) THEN h[c \div 2] ELSE c
                   /\ h[c] \in 0 .. c
                   /\ used <= c => used <= h[c]
        BY <4>2, <4>6
      <4>9. /\ h[n] = IF Halves(n) THEN h[n \div 2] ELSE n
            /\ h[n] \in 0 .. n
            /\ used <= n => used <= h[n]
        <5>1. h[n \div 2] = g[n \div 2]
          BY <4>3, <4>6
        <5>2. g[n \div 2] \in 0 .. n \div 2
          BY <4>2, <4>3
        <5>3. used <= n \div 2 => used <= g[n \div 2]
          BY <4>2, <4>3
        <5> QED
          BY <3>1, <4>3, <4>7, <5>1, <5>2, <5>3
      <4>10. Fits(n, h)
        BY <4>4, <4>8, <4>9
      <4> QED
        BY <3>1, <4>5, <4>10
    <3> QED
      BY <3>2, <3>3
  <2> QED
    BY <2>1
<1>2. PICK h \in [0 .. limit -> Nat] : Fits(limit, h)
  BY <1>1
<1>3. Rec(h)
  BY <1>2
<1> DEFINE w == CHOOSE k : Rec(k)
<1>4. Rec(w)
  BY <1>3
<1>5. E!FinalCapacity(limit, used) = w[limit]
  BY DEF E!FinalCapacity
<1> HIDE DEF w
<1>6. ASSUME NEW c \in 0 .. limit PROVE w[c] = h[c]
  <2> DEFINE Bad == {k \in 0 .. limit : w[k] # h[k]}
  <2>1. ASSUME Bad # {} PROVE FALSE
    <3>1. PICK n \in Bad : \A m \in Bad : n <= m
      <4>1. Bad \in SUBSET Nat
        OBVIOUS
      <4> HIDE DEF Bad
      <4> QED
        BY <2>1, <4>1, LeastNat
    <3>2. n \in 0 .. limit /\ w[n] # h[n]
      BY <3>1
    <3>3. w[n] = IF Halves(n) THEN w[n \div 2] ELSE n
      BY <1>4, <3>2
    <3>4. h[n] = IF Halves(n) THEN h[n \div 2] ELSE n
      BY <1>2, <3>2
    <3>5. Halves(n) => n \div 2 \in 0 .. limit /\ ~(n <= n \div 2)
      BY <3>2
    <3>6. Halves(n) => w[n \div 2] = h[n \div 2]
      BY <3>1, <3>5
    <3> QED
      BY <3>2, <3>3, <3>4, <3>6
  <2> QED
    BY <2>1
<1> QED
  BY <1>2, <1>5, <1>6

\* A buffer more on a vector that has no buffer above it.
LEMMA PushStacks ==
  ASSUME NEW G, NEW place \in Nat \ {0}, Stacked(env_stack, G), \A g \in G : g \in Nat /\ g < place
  PROVE  /\ Stacked(E!Pushed(place), G \cup {place})
         /\ AllStacked(env_stack, G) => AllStacked(E!Pushed(place), G \cup {place})
<1> DEFINE n == env_stack.size
           was == env_stack.elems
           room == IF Len(was) = 0 THEN MIN_CAPACITY ELSE Len(was)
           grown == IF n = Len(was) THEN was \o [k \in 1 .. room |-> 0] ELSE was
           new == [grown EXCEPT ![n + 1] = place]
<1>1. /\ was \in Seq(Nat) /\ n \in Nat /\ Len(was) \in Nat /\ n <= Len(was)
      /\ \A k \in 1 .. n : was[k] \in G
      /\ \A j, k \in 1 .. n : j < k => was[j] < was[k]
  BY DEF Stacked
<1>2. /\ grown \in Seq(Nat) /\ Len(grown) >= n + 1 /\ Len(grown) \in Nat
      /\ \A k \in 1 .. n : grown[k] = was[k]
  <2>1. CASE n = Len(was)
    <3>1. room \in Nat \ {0}
      BY <1>1, VectorAssumption
    <3> DEFINE more == [k \in 1 .. room |-> 0]
    <3>2. more \in Seq(Nat) /\ Len(more) = room
      BY <3>1
    <3> HIDE DEF more, room, was, n
    <3>3. /\ was \o more \in Seq(Nat) /\ Len(was \o more) = Len(was) + room
          /\ \A k \in 1 .. Len(was) : (was \o more)[k] = was[k]
      BY <1>1, <3>1, <3>2
    <3>4. grown = was \o more
      BY <2>1 DEF more, room, was, n
    <3>5. Len(was) + room \in Nat /\ Len(was) + room >= n + 1
      BY <1>1, <2>1, <3>1
    <3> HIDE DEF grown
    <3> QED
      BY <1>1, <2>1, <3>3, <3>4, <3>5
  <2>2. CASE n # Len(was)
    BY <1>1, <2>2
  <2> QED
    BY <2>1, <2>2
<1>3. E!Pushed(place) = [elems |-> new, size |-> n + 1]
  BY DEF E!Pushed, E!capacity, E!Unset
<1> HIDE DEF grown
<1>4. /\ new \in Seq(Nat) /\ Len(new) = Len(grown)
      /\ \A k \in 1 .. n : new[k] = was[k]
      /\ new[n + 1] = place
  BY <1>1, <1>2
<1> HIDE DEF new, was, n
<1>5. \A k \in 1 .. n + 1 : k \in 1 .. n \/ k = n + 1
  BY <1>1
<1>6. \A k \in 1 .. n + 1 : new[k] \in G \cup {place}
  BY <1>1, <1>4, <1>5
<1>7. \A j, k \in 1 .. n + 1 : j < k => new[j] < new[k]
  <2> SUFFICES ASSUME NEW j \in 1 .. n + 1, NEW k \in 1 .. n + 1, j < k PROVE new[j] < new[k]
    OBVIOUS
  <2>1. j \in 1 .. n
    BY <1>1
  <2>2. CASE k \in 1 .. n
    BY <1>1, <1>4, <2>1, <2>2
  <2>3. CASE k = n + 1
    BY <1>1, <1>4, <2>1, <2>3
  <2> QED
    BY <1>5, <2>2, <2>3
<1> DEFINE es == [elems |-> new, size |-> n + 1]
<1>8. es.elems = new /\ es.size = n + 1 /\ es \in [elems : Seq(Nat), size : Nat]
  BY <1>1, <1>4
<1> HIDE DEF es
<1>9. Stacked(es, G \cup {place})
  BY <1>1, <1>2, <1>4, <1>6, <1>7, <1>8 DEF Stacked
<1>10. ASSUME AllStacked(env_stack, G) PROVE AllStacked(es, G \cup {place})
  <2>1. \A g \in G : \E k \in 1 .. n : new[k] = g
    BY <1>4, <1>10 DEF AllStacked, was, n
  <2>2. n + 1 \in 1 .. n + 1 /\ \A k \in 1 .. n : k \in 1 .. n + 1
    BY <1>1
  <2> QED
    BY <1>4, <1>8, <2>1, <2>2 DEF AllStacked
<1> QED
  BY <1>3, <1>9, <1>10 DEF es

\* Without its innermost buffer the vector holds those of the blocks outside of it.
LEMMA PopStacks ==
  ASSUME NEW G, G \subseteq Nat, Stacked(env_stack, G), env_stack.size # 0, NEW es \in E!Popped
  PROVE  LET top == env_stack.elems[env_stack.size]
         IN  /\ top \in G
             /\ Stacked(es, {g \in G : g < top})
             /\ AllStacked(env_stack, G) => /\ AllStacked(es, {g \in G : g < top})
                                            /\ \A g \in G : g <= top
<1> DEFINE n == env_stack.size
           was == env_stack.elems
           top == was[n]
           cut == [was EXCEPT ![n] = 0]
           H1 == {g \in G : g < top}
<1>1. /\ was \in Seq(Nat) /\ n \in Nat /\ Len(was) \in Nat /\ n <= Len(was) /\ n # 0
      /\ \A k \in 1 .. n : was[k] \in G
      /\ \A j, k \in 1 .. n : j < k => was[j] < was[k]
  BY DEF Stacked
<1>2. PICK c \in {E!FinalCapacity(Len(was), n - 1), Len(was)} :
        es = [elems |-> SubSeq(cut, 1, c), size |-> n - 1]
  BY DEF E!Popped, E!capacity, E!Unset
<1>3. c \in n - 1 .. Len(was)
  <2>1. n - 1 \in 0 .. Len(was)
    BY <1>1
  <2> QED
    <3> DEFINE u == n - 1
               l == Len(was)
    <3>1. l \in Nat /\ u \in 0 .. l
      BY <1>1, <2>1
    <3>2. c \in {E!FinalCapacity(l, u), l}
      BY <1>2
    <3> HIDE DEF u, l
    <3>3. E!FinalCapacity(l, u) \in u .. l
      BY <3>1, CapacityStays
    <3>4. l \in u .. l
      BY <3>1
    <3>5. c \in u .. l
      BY <3>2, <3>3, <3>4
    <3> QED
      BY <3>5 DEF u, l
<1>4. cut \in Seq(Nat) /\ Len(cut) = Len(was) /\ \A k \in 1 .. n - 1 : cut[k] = was[k]
  BY <1>1
<1> DEFINE new == SubSeq(cut, 1, c)
<1> HIDE DEF cut
<1>5. new \in Seq(Nat) /\ Len(new) = c /\ \A k \in 1 .. n - 1 : new[k] = was[k]
  BY <1>1, <1>3, <1>4
<1>6. es.elems = new /\ es.size = n - 1 /\ es \in [elems : Seq(Nat), size : Nat]
  BY <1>1, <1>2, <1>5
<1> HIDE DEF new
<1>7. n \in 1 .. n /\ \A k \in 1 .. n - 1 : k \in 1 .. n /\ k < n
  BY <1>1
<1>8. top \in G /\ top \in Nat
  BY <1>1, <1>7
<1>9. \A k \in 1 .. n - 1 : new[k] \in H1
  BY <1>1, <1>5, <1>7
<1>10. Stacked(es, H1)
  <2>1. es.size <= Len(es.elems)
    BY <1>3, <1>5, <1>6
  <2>2. \A k \in 1 .. es.size : es.elems[k] \in H1
    BY <1>6, <1>9
  <2>3. \A j, k \in 1 .. es.size : j < k => es.elems[j] < es.elems[k]
    BY <1>1, <1>5, <1>6, <1>7
  <2> QED
    BY <1>6, <2>1, <2>2, <2>3 DEF Stacked
<1>11. ASSUME AllStacked(env_stack, G)
       PROVE  AllStacked(es, H1) /\ \A g \in G : g <= top
  <2>1. ASSUME NEW g \in G PROVE g <= top /\ (g < top => \E k \in 1 .. n - 1 : new[k] = g)
    <3>1. PICK k \in 1 .. n : was[k] = g
      BY <1>11 DEF AllStacked
    <3>2. CASE k = n
      BY <1>8, <3>1, <3>2
    <3>3. CASE k # n
      <4>1. k \in 1 .. n - 1 /\ k < n
        BY <1>1, <3>3
      <4> QED
        BY <1>1, <1>5, <1>7, <1>8, <3>1, <4>1
    <3> QED
      BY <3>2, <3>3
  <2>2. \A g \in H1 : g \in G /\ g < top
    OBVIOUS
  <2> HIDE DEF H1, top, n
  <2> QED
    BY <1>6, <2>1, <2>2 DEF AllStacked
<1> QED
  BY <1>8, <1>10, <1>11

Contexts == {E!CallContext} \cup TryContext

\* What holds of the buffers of some blocks holds of those of more.
LEMMA StackedMore ==
  ASSUME NEW es, NEW G, NEW H1, Stacked(es, G), G \subseteq H1
  PROVE  Stacked(es, H1)
BY DEF Stacked

LEMMA RunningAfter ==
  ASSUME NEW c \in Seq(Contexts), NEW x \in Contexts
  PROVE  /\ Append(c, x) \in Seq(Contexts)
         /\ Running(Append(c, x)) =
              Running(c) \cup IF x.kind = "try" /\ x.state = "code" THEN {Len(c) + 1} ELSE {}
         /\ \A m \in 0 .. Len(c) :
              /\ SubSeq(c, 1, m) \in Seq(Contexts) /\ Len(SubSeq(c, 1, m)) = m
              /\ Running(SubSeq(c, 1, m)) = {g \in Running(c) : g <= m}
<1> DEFINE n == Len(c)
           d == Append(c, x)
<1>1. n \in Nat
  OBVIOUS
<1>2. d \in Seq(Contexts) /\ Len(d) = n + 1 /\ d[n + 1] = x /\ \A k \in 1 .. n : d[k] = c[k]
  OBVIOUS
<1>3. Running(d) = Running(c) \cup IF x.kind = "try" /\ x.state = "code" THEN {n + 1} ELSE {}
  <2> HIDE DEF d, n
  <2>1. n = Len(c)
    BY DEF n
  <2>2. \A k : k \in 1 .. n + 1 <=> k \in 1 .. n \/ k = n + 1
    BY <1>1
  <2> QED
    BY <1>2, <2>1, <2>2 DEF Running
<1>4. ASSUME NEW m \in 0 .. n
      PROVE  /\ SubSeq(c, 1, m) \in Seq(Contexts) /\ Len(SubSeq(c, 1, m)) = m
             /\ Running(SubSeq(c, 1, m)) = {g \in Running(c) : g <= m}
  <2> DEFINE e == SubSeq(c, 1, m)
  <2>1. e \in Seq(Contexts) /\ Len(e) = m /\ \A k \in 1 .. m : e[k] = c[k]
    BY <1>1
  <2> HIDE DEF e
  <2>2. \A k : k \in 1 .. m <=> k \in 1 .. n /\ k <= m
    BY <1>1
  <2> QED
    BY <2>1, <2>2 DEF Running, e
<1> QED
  BY <1>2, <1>3, <1>4

\* The conjuncts by name, as the steps use them.
LEMMA ThrowFacts ==
  ASSUME ThrowInv
  PROVE  /\ context \in Seq(Contexts) /\ Len(context) \in Nat \ {0}
         /\ context[1] = E!CallContext /\ context[1].kind # "try"
         /\ Running(context) \subseteq 2 .. Len(context)
         /\ Stacked(env_stack, Running(context))
         /\ context[Len(context)] \in Contexts
         /\ E!Innermost = context[Len(context)]
         /\ context[Len(context)].kind = "try" =>
              context[Len(context)] \in TryContext /\ Len(context) - 1 \in Nat \ {0}
<1>1. context \in Seq(Contexts) /\ Len(context) >= 1 /\ context[1] = E!CallContext
  BY DEF ThrowInv, Contexts
<1>2. Len(context) \in Nat \ {0} /\ Len(context) \in 1 .. Len(context)
  BY <1>1
<1>3. context[1].kind # "try"
  BY <1>1 DEF E!CallContext
<1>4. context[Len(context)] \in Contexts
  BY <1>1, <1>2
<1>5. Running(context) \subseteq 2 .. Len(context)
  <2>1. \A k \in 1 .. Len(context) : k # 1 => k \in 2 .. Len(context)
    BY <1>2
  <2> QED
    BY <1>3, <2>1 DEF Running
<1>6. context[Len(context)].kind = "try" => Len(context) # 1
  BY <1>3
<1>7. context[Len(context)].kind = "try" => context[Len(context)] \in TryContext
  BY <1>4 DEF Contexts, E!CallContext
<1>8. Len(context) # 1 => Len(context) - 1 \in Nat \ {0}
  BY <1>2
<1> QED
  BY <1>1, <1>2, <1>3, <1>4, <1>5, <1>6, <1>7, <1>8 DEF ThrowInv, E!Innermost, E!Last

\* throw_exception, from wherever it is called.
LEMMA ThrowHolds ==
  ASSUME ThrowInv, e_status = "running", NEW exc \in Exceptions, E!throw_exception(exc)
  PROVE  ThrowInv'
<1> DEFINE c == context
           G == Running(c)
           top == env_stack.elems[env_stack.size]
           exc1 == IF exc = 0 THEN 1 ELSE exc
           x == E!Block("arrived", exc1, c[top].catches)
           d == Append(SubSeq(c, 1, top - 1), x)
<1>1. /\ c \in Seq(Contexts) /\ Len(c) \in Nat \ {0}
      /\ c[1] = E!CallContext /\ c[1].kind # "try"
      /\ G \subseteq 2 .. Len(c) /\ Stacked(env_stack, G)
  BY ThrowFacts
<1>2. ~lost => AllStacked(env_stack, G)
  BY DEF ThrowInv
<1>3. lost' = lost
  BY DEF E!throw_exception
<1>4. CASE env_stack.size = 0
  <2>1. UNCHANGED <<context, env_stack>>
    BY <1>4 DEF E!throw_exception
  <2>2. ~lost => G = {}
    BY <1>2, <1>4 DEF AllStacked
  <2> QED
    BY <1>3, <2>1, <2>2 DEF ThrowInv
<1>5. CASE env_stack.size # 0
  <2>1. env_stack' \in E!Popped /\ context' = E!Landed(top, exc) /\ e_status' = "running"
    BY <1>5 DEF E!throw_exception
  <2>2. context' = d
    BY <2>1 DEF E!Landed, E!UNSPECIFIED_EXCEPTION
  <2>3. G \subseteq Nat
    BY <1>1
  <2>4. /\ top \in G
        /\ Stacked(env_stack', {g \in G : g < top})
        /\ AllStacked(env_stack, G) => AllStacked(env_stack', {g \in G : g < top})
    BY <1>1, <1>5, <2>1, <2>3, PopStacks
  <2>5. top \in 2 .. Len(c) /\ c[top] \in TryContext
    <3>1. top \in 1 .. Len(c) /\ top \in 2 .. Len(c) /\ c[top].kind = "try"
      BY <1>1, <2>4 DEF Running
    <3>2. c[top] \in Contexts
      BY <1>1, <3>1
    <3> QED
      BY <3>1, <3>2 DEF Contexts, E!CallContext
  <2>6. exc1 \in Exceptions /\ x \in TryContext /\ x \in Contexts /\ x.state = "arrived"
    BY <2>5 DEF Exceptions, TryContext, E!Block, Contexts
  <2> DEFINE b == SubSeq(c, 1, top - 1)
  <2>7. top - 1 \in 0 .. Len(c) /\ top - 1 \in Nat \ {0}
    BY <1>1, <2>5
  <2>8. b \in Seq(Contexts) /\ Len(b) = top - 1 /\ Running(b) = {g \in G : g <= top - 1} /\ b[1] = c[1]
    <3>1. b[1] = c[1]
      <4> DEFINE m == top - 1
      <4>1. m \in 0 .. Len(c) /\ m \in Nat \ {0}
        BY <2>7
      <4> HIDE DEF c, m
      <4>2. SubSeq(c, 1, m)[1] = c[1]
        BY <1>1, <4>1
      <4> QED
        BY <4>2 DEF m
    <3> HIDE DEF c, top
    <3> QED
      BY <1>1, <2>6, <2>7, <3>1, RunningAfter
  <2> HIDE DEF b
  <2>9. d = Append(b, x)
    BY DEF b
  <2>10. {g \in G : g <= top - 1} = {g \in G : g < top}
    BY <2>3, <2>5
  <2> HIDE DEF c, d, x, top, G
  <2>11. d \in Seq(Contexts) /\ Running(d) = Running(b)
    BY <2>6, <2>8, <2>9, RunningAfter
  <2>12. Len(d) >= 1 /\ d[1] = E!CallContext
    <3>1. b[1] = E!CallContext /\ Len(b) \in Nat \ {0}
      BY <1>1, <2>7, <2>8 DEF c
    <3>2. Append(b, x)[1] = b[1] /\ Len(Append(b, x)) = Len(b) + 1
      <4>1. b \in Seq(Contexts) /\ x \in Contexts
        BY <2>6, <2>8
      <4>2. 1 \in 1 .. Len(b)
        BY <3>1
      <4> HIDE DEF Contexts
      <4> QED
        BY <4>1, <4>2
    <3> QED
      BY <2>9, <3>1, <3>2
  <2> QED
    BY <1>2, <1>3, <2>1, <2>2, <2>4, <2>8, <2>10, <2>11, <2>12 DEF ThrowInv, Contexts
<1> QED
  BY <1>4, <1>5

LEMMA TryHolds ==
  ASSUME ThrowInv, NEW catches \in CatchSets, E!Try(catches)
  PROVE  ThrowInv'
<1> DEFINE c == context
           n == Len(c)
           x == E!Block("code", 0, catches)
<1>1. /\ c \in Seq(Contexts) /\ n \in Nat \ {0} /\ c[1] = E!CallContext
      /\ Running(c) \subseteq 2 .. n /\ Stacked(env_stack, Running(c))
  BY ThrowFacts
<1>2. x \in Contexts /\ x.kind = "try" /\ x.state = "code"
  BY DEF E!Block, Contexts, TryContext, Exceptions
<1>3. context' = Append(c, x) /\ e_status' = "running"
  BY DEF E!Try, E!ClientRuns, E!NO_EXCEPTION
<1>4. /\ context' \in Seq(Contexts) /\ Running(context') = Running(c) \cup {n + 1}
      /\ Len(context') >= 1 /\ context'[1] = E!CallContext
  BY <1>1, <1>2, <1>3, RunningAfter
<1>5. ~lost => AllStacked(env_stack, Running(c))
  BY DEF ThrowInv
<1>6. CASE env_stack' = E!Pushed(n + 1) /\ UNCHANGED lost
  <2>1. n + 1 \in Nat \ {0} /\ \A g \in Running(c) : g \in Nat /\ g < n + 1
    BY <1>1
  <2>2. /\ Stacked(env_stack', Running(context'))
        /\ AllStacked(env_stack, Running(c)) => AllStacked(env_stack', Running(context'))
    BY <1>1, <1>4, <1>6, <2>1, PushStacks
  <2> QED
    BY <1>3, <1>4, <1>5, <1>6, <2>2 DEF ThrowInv, Contexts
<1>7. CASE lost' = TRUE /\ UNCHANGED env_stack
  BY <1>1, <1>4, <1>7, StackedMore DEF ThrowInv, Contexts
<1> QED
  BY <1>6, <1>7 DEF E!Try

LEMMA FinishTryHolds == ThrowInv /\ E!FinishTry => ThrowInv'
<1> SUFFICES ASSUME ThrowInv, E!FinishTry PROVE ThrowInv'
  OBVIOUS
<1> DEFINE c == context
           n == Len(c)
           G == Running(c)
           top == env_stack.elems[env_stack.size]
<1>1. /\ c \in Seq(Contexts) /\ n \in Nat \ {0} /\ c[1] = E!CallContext /\ c[n] \in Contexts
      /\ G \subseteq 2 .. n /\ Stacked(env_stack, G)
  BY ThrowFacts
<1>2. e_status = "running" /\ c[n].kind = "try" /\ c[n].state = "code"
  BY ThrowFacts DEF E!FinishTry, E!InBlock
<1>3. n \in G /\ n - 1 \in Nat \ {0}
  BY <1>1, <1>2, ThrowFacts DEF Running
<1>4. ~lost => AllStacked(env_stack, G)
  BY DEF ThrowInv
<1>5. lost' = lost
  BY DEF E!FinishTry
<1>6. CASE env_stack.size = 0
  <2>1. UNCHANGED <<context, env_stack>>
    BY <1>6 DEF E!FinishTry
  <2>2. lost
    BY <1>3, <1>4, <1>6 DEF AllStacked
  <2> QED
    BY <1>5, <2>1, <2>2 DEF ThrowInv
<1>7. CASE env_stack.size # 0
  <2>1. env_stack' \in E!Popped /\ context' = E!Front(c) /\ e_status' = "running"
    BY <1>2, <1>7 DEF E!FinishTry
  <2>2. context' = SubSeq(c, 1, n - 1)
    BY <2>1 DEF E!Front
  <2>3. G \subseteq Nat
    BY <1>1
  <2>4. /\ top \in G
        /\ Stacked(env_stack', {g \in G : g < top})
        /\ AllStacked(env_stack, G) => /\ AllStacked(env_stack', {g \in G : g < top})
                                       /\ \A g \in G : g <= top
    BY <1>1, <1>7, <2>1, <2>3, PopStacks
  <2>5. n - 1 \in 0 .. n
    BY <1>1, <1>3
  <2>6. /\ context' \in Seq(Contexts) /\ Len(context') = n - 1
        /\ Running(context') = {g \in G : g <= n - 1}
    BY <1>1, <2>2, <2>5, RunningAfter
  <2>7. context'[1] = E!CallContext /\ Len(context') >= 1
    BY <1>1, <1>3, <2>2, <2>6
  <2> HIDE DEF top
  <2>8. {g \in G : g < top} \subseteq {g \in G : g <= n - 1}
    BY <1>1, <2>4
  <2>9. ~lost => {g \in G : g < top} = {g \in G : g <= n - 1}
    <3>1. ~lost => top = n
      BY <1>1, <1>3, <1>4, <2>4
    <3> QED
      BY <1>1, <3>1
  <2>10. Stacked(env_stack', Running(context'))
    BY <2>4, <2>6, <2>8, StackedMore
  <2> QED
    BY <1>4, <1>5, <2>1, <2>4, <2>6, <2>7, <2>9, <2>10 DEF ThrowInv, Contexts
<1> QED
  BY <1>6, <1>7

\* Steps of the client and of the macros that touch no buffer.
LEMMA QuietHolds ==
  ASSUME ThrowInv, E!Catch \/ E!FinishCatch \/ E!Call \/ E!Return \/ E!Over
  PROVE  ThrowInv'
<1> DEFINE c == context
           n == Len(c)
<1>1. /\ c \in Seq(Contexts) /\ n \in Nat \ {0} /\ c[1] = E!CallContext /\ c[1].kind # "try"
      /\ c[n] \in Contexts /\ E!Innermost = c[n]
      /\ c[n].kind = "try" => c[n] \in TryContext /\ n - 1 \in Nat \ {0}
      /\ Running(c) \subseteq 2 .. n
  BY ThrowFacts
<1>2. UNCHANGED <<env_stack, lost>>
  BY DEF E!Catch, E!FinishCatch, E!Call, E!Return, E!Over, E!vars
<1>3. e_status' = "aborted" => e_status = "aborted"
  BY DEF E!Catch, E!FinishCatch, E!Call, E!Return, E!Over, E!vars
<1>4. ASSUME context' \in Seq(Contexts), Len(context') >= 1, context'[1] = E!CallContext,
             Running(context') = Running(c)
      PROVE  ThrowInv'
  BY <1>2, <1>3, <1>4 DEF ThrowInv, Contexts
<1>5. CASE UNCHANGED context
  BY <1>1, <1>4, <1>5
<1>6. CASE E!Catch
  <2>1. /\ context' = [c EXCEPT ![n].state = "catch"]
        /\ c[n].kind = "try" /\ c[n].state = "arrived"
    BY <1>1, <1>6 DEF E!Catch, E!InBlock
  <2> DEFINE x == [c[n] EXCEPT !.state = "catch"]
  <2>2. c[n] \in TryContext /\ n # 1
    BY <1>1, <2>1
  <2>3. x \in TryContext /\ x.kind = "try" /\ x.state = "catch"
    BY <2>2 DEF TryContext
  <2> HIDE DEF x
  <2>4. context' = [c EXCEPT ![n] = x]
    BY <2>1 DEF x
  <2>5. /\ context' \in Seq(Contexts) /\ Len(context') = n
        /\ \A k \in 1 .. n : context'[k] = IF k = n THEN x ELSE c[k]
    BY <1>1, <2>3, <2>4 DEF Contexts
  <2>6. Running(context') = Running(c)
    <3> HIDE DEF c, n
    <3>1. n = Len(c)
      BY DEF n
    <3> QED
      BY <2>1, <2>3, <2>5, <3>1 DEF Running
  <2> QED
    BY <1>1, <1>4, <2>2, <2>5, <2>6
<1>7. ASSUME context' = SubSeq(c, 1, n - 1), n # 1, n \notin Running(c)
      PROVE  ThrowInv'
  <2>1. n - 1 \in 0 .. n /\ n - 1 \in Nat \ {0}
    BY <1>1, <1>7
  <2>2. /\ context' \in Seq(Contexts) /\ Len(context') = n - 1
        /\ Running(context') = {g \in Running(c) : g <= n - 1}
    BY <1>1, <1>7, <2>1, RunningAfter
  <2>3. context'[1] = E!CallContext
    BY <1>1, <1>7, <2>1, <2>2
  <2>4. {g \in Running(c) : g <= n - 1} = Running(c)
    BY <1>1, <1>7
  <2> QED
    BY <1>4, <2>1, <2>2, <2>3, <2>4
<1>8. CASE E!FinishCatch
  <2>1. context' = SubSeq(c, 1, n - 1)
    BY <1>8 DEF E!FinishCatch, E!Front
  <2>2. c[n].kind = "try" /\ c[n].state = "catch"
    BY <1>1, <1>8 DEF E!FinishCatch, E!InBlock
  <2> QED
    BY <1>1, <1>7, <2>1, <2>2 DEF Running
<1>9. CASE E!Return
  <2>1. c[n].kind = "call"
    BY <1>1, <1>9 DEF E!Return
  <2>2. CASE n = 1
    BY <1>5, <1>9, <2>2 DEF E!Return
  <2>3. CASE n # 1
    <3>1. context' = SubSeq(c, 1, n - 1)
      BY <1>9, <2>3 DEF E!Return, E!Front
    <3> QED
      BY <1>7, <2>1, <2>3, <3>1 DEF Running
  <2> QED
    BY <2>2, <2>3
<1>10. CASE E!Call
  <2>1. context' = Append(c, E!CallContext)
    BY <1>10 DEF E!Call
  <2>2. E!CallContext \in Contexts /\ E!CallContext.kind # "try"
    BY DEF Contexts, E!CallContext
  <2>3. /\ context' \in Seq(Contexts) /\ Running(context') = Running(c)
    BY <1>1, <2>1, <2>2, RunningAfter
  <2>4. Len(context') >= 1 /\ context'[1] = E!CallContext
    BY <1>1, <2>1, <2>2
  <2> QED
    BY <1>4, <2>3, <2>4
<1> QED
  BY <1>5, <1>6, <1>8, <1>9, <1>10 DEF E!Over, E!vars

LEMMA ThrowStep == ThrowInv /\ E!Next => ThrowInv'
<1> SUFFICES ASSUME ThrowInv, E!Next PROVE ThrowInv'
  OBVIOUS
<1>1. CASE \E catches \in CatchSets : E!Try(catches)
  BY <1>1, TryHolds
<1>2. CASE E!FinishTry
  BY <1>2, FinishTryHolds
<1>3. CASE E!Throw
  BY <1>3, ThrowHolds DEF E!Throw, E!ClientRuns, Exceptions
<1>4. CASE E!Rethrow \/ E!END_TRY
  <2>1. e_status = "running" /\ E!Innermost.kind = "try" /\ E!throw_exception(E!Innermost.exception)
    BY <1>4 DEF E!Rethrow, E!END_TRY, E!ClientRuns, E!InBlock
  <2>2. E!Innermost.exception \in Exceptions
    BY <2>1, ThrowFacts DEF TryContext
  <2> QED
    BY <2>1, <2>2, ThrowHolds
<1> QED
  BY <1>1, <1>2, <1>3, <1>4, QuietHolds DEF E!Next

LEMMA ThrowSteps == [MCNext]_MCVars => E!Next \/ UNCHANGED eVars
BY DEF MCNext, MCVars, others

LEMMA ThrowMatches == ThrowInv => BuffersMatchBlocks
<1> SUFFICES ASSUME ThrowInv PROVE BuffersMatchBlocks
  OBVIOUS
<1> DEFINE es == env_stack
           bs == SubSeq(es.elems, 1, es.size)
<1>1. /\ es.elems \in Seq(Nat) /\ es.size \in Nat /\ es.size <= Len(es.elems)
      /\ \A k \in 1 .. es.size : es.elems[k] \in Running(context)
      /\ \A j, k \in 1 .. es.size : j < k => es.elems[j] < es.elems[k]
  BY DEF ThrowInv, Stacked
<1>2. /\ bs \in Seq(Nat) /\ Len(bs) = es.size /\ DOMAIN bs = 1 .. es.size
      /\ \A k \in 1 .. es.size : bs[k] = es.elems[k]
  BY <1>1
<1>3. E!Buffers = bs /\ E!Guarded = Running(context)
  BY DEF E!Buffers, E!Guarded, Running
<1> HIDE DEF bs
<1>4. E!ToSet(bs) = {es.elems[k] : k \in 1 .. es.size}
  BY <1>2 DEF E!ToSet
<1>5. ~lost => Running(context) \subseteq {es.elems[k] : k \in 1 .. es.size}
  BY DEF ThrowInv, AllStacked
<1>6. ~lost /\ e_status = "aborted" => Running(context) = {}
  BY DEF ThrowInv
<1> QED
  BY <1>1, <1>2, <1>3, <1>4, <1>5, <1>6 DEF BuffersMatchBlocks, E!BuffersMatchBlocks

\* For any exceptions, any nesting of blocks and calls, any capacity and any failures of
\* realloc(): a jump lands only in a block whose code runs, the innermost on top; and
\* unless a start_try() has failed every such block has its buffer (c_except.c).
THEOREM JumpsLandInLiveBlocks == MCSpec => []BuffersMatchBlocks
<1>1. MCInit => ThrowInv
  BY NothingThrown DEF MCInit
<1>2. ThrowInv /\ UNCHANGED eVars => ThrowInv'
  BY DEF ThrowInv, eVars
<1>3. ThrowInv /\ [MCNext]_MCVars => ThrowInv'
  BY <1>2, ThrowSteps, ThrowStep
<1> QED
  BY <1>1, <1>3, ThrowMatches, PTL DEF MCSpec

-----------------------------------------------------------------------------
(* The heap of floats.                                                     *)

\* How many of the first n elements of the array m are x.
CountOf(m, n, x) == Cardinality({k \in 0 .. n - 1 : m[k] = x})

\* Element k is where it may be below its parent.
Below(m, k) == m[H!PARENT(k)] <= m[k]

\* The elements are in order but for the one at index, on its way up or down; and its
\* children may hang below its parent.
Ordered ==
    /\ h_pc = "idle" => \A k \in 1 .. num_values - 1 : Below(memory, k)
    /\ h_pc = "up" =>
         /\ index \in 1 .. num_values - 1
         /\ \A k \in 1 .. num_values - 1 : k # index => Below(memory, k)
    /\ h_pc = "down" =>
         /\ index \in 0 .. num_values - 1
         /\ \A k \in 1 .. num_values - 1 : H!PARENT(k) # index => Below(memory, k)
    /\ h_pc # "idle" /\ index # 0 =>
         \A k \in 1 .. num_values - 1 :
            H!PARENT(k) = index => memory[H!PARENT(index)] <= memory[k]

HeapInv ==
    /\ DOMAIN memory = H!Slot
    /\ num_values \in 0 .. max_values
    /\ \A k \in 0 .. num_values - 1 : memory[k] \in Numbers
    /\ h_pc \in {"idle", "up", "down"}
    /\ Ordered
    /\ DOMAIN held \subseteq Numbers
    /\ \A x \in DOMAIN held : held[x] \in Nat \ {0}
    /\ \A x \in Numbers : H!Copies(x) = CountOf(memory, num_values, x)

LEMMA SameCardinality == \A S1 : H!Cardinality(S1) = Cardinality(S1)
BY DEF H!Cardinality, Cardinality

LEMMA CountIsNat ==
  ASSUME NEW m, NEW n \in Nat, NEW x
  PROVE  /\ IsFiniteSet({k \in 0 .. n - 1 : m[k] = x})
         /\ CountOf(m, n, x) \in Nat
<1>1. IsFiniteSet(0 .. n - 1)
  BY FS_Interval
<1>2. {k \in 0 .. n - 1 : m[k] = x} \in SUBSET (0 .. n - 1)
  OBVIOUS
<1>3. IsFiniteSet({k \in 0 .. n - 1 : m[k] = x})
  BY <1>1, <1>2, FS_Subset
<1> QED
  BY <1>3, FS_CardinalityType DEF CountOf

\* A swap changes the place of values and not how often each is there.
LEMMA SwapCounts ==
  ASSUME NEW m, NEW w, NEW n \in Nat, NEW i \in 0 .. n - 1, NEW j \in 0 .. n - 1,
         w[i] = m[j], w[j] = m[i], \A k \in 0 .. n - 1 : k # i /\ k # j => w[k] = m[k],
         NEW x
  PROVE  CountOf(w, n, x) = CountOf(m, n, x)
<1> DEFINE S1 == {k \in 0 .. n - 1 : m[k] = x}
           T1 == {k \in 0 .. n - 1 : w[k] = x}
           f == [k \in S1 |-> IF k = i THEN j ELSE IF k = j THEN i ELSE k]
<1>1. \A k \in S1 : f[k] \in T1
  OBVIOUS
<1>2. \A k, l \in S1 : f[k] = f[l] => k = l
  OBVIOUS
<1>3. \A l \in T1 : \E k \in S1 : f[k] = l
  <2> SUFFICES ASSUME NEW l \in T1 PROVE \E k \in S1 : f[k] = l
    OBVIOUS
  <2>1. PICK k : k = IF l = i THEN j ELSE IF l = j THEN i ELSE l
    OBVIOUS
  <2>2. k \in S1 /\ f[k] = l
    BY <2>1
  <2> QED
    BY <2>2
<1>4. f \in [S1 -> T1]
  BY <1>1
<1>5. f \in Bijection(S1, T1)
  <2> HIDE DEF f
  <2> QED
    BY <1>2, <1>3, <1>4 DEF Bijection, Injection, Surjection, IsInjective
<1>6. ExistsBijection(S1, T1)
  BY <1>5 DEF ExistsBijection
<1>7. IsFiniteSet(S1) /\ IsFiniteSet(T1)
  BY CountIsNat
<1> HIDE DEF S1, T1, f
<1>8. Cardinality(T1) = Cardinality(S1)
  BY <1>6, <1>7, FS_Bijection
<1> QED
  BY <1>8 DEF CountOf, S1, T1

LEMMA ParentFacts ==
  \A k \in Nat \ {0} :
    /\ H!PARENT(k) \in Nat /\ H!PARENT(k) < k
    /\ \A q \in Nat : H!PARENT(k) = q <=> k = 2 * q + 1 \/ k = 2 * q + 2
BY DEF H!PARENT

LEMMA HeapEmpty == H!Init => HeapInv
<1> SUFFICES ASSUME H!Init PROVE HeapInv
  OBVIOUS
<1>1. /\ memory = [k \in H!Slot |-> 0] /\ num_values = 0 /\ index = 0 /\ h_pc = "idle"
      /\ held = H!EmptyBag
  BY DEF H!Init
<1>2. DOMAIN held = {}
  BY <1>1 DEF H!EmptyBag, H!SetToBag
<1>3. \A x : CountOf(memory, 0, x) = 0
  <2> SUFFICES ASSUME NEW x PROVE CountOf(memory, 0, x) = 0
    OBVIOUS
  <2>1. {k \in 0 .. 0 - 1 : memory[k] = x} = {}
    OBVIOUS
  <2> QED
    BY <2>1, FS_EmptySet DEF CountOf
<1>4. \A x : H!Copies(x) = 0
  BY <1>2 DEF H!Copies, H!BagIn, H!BagToSet
<1> QED
  BY <1>1, <1>2, <1>3, <1>4, HeapAssumption DEF HeapInv, Ordered

LEMMA HeapFacts ==
  ASSUME HeapInv
  PROVE  /\ max_values \in Nat /\ num_values \in Nat /\ num_values <= max_values
         /\ DOMAIN memory = 0 .. max_values - 1
         /\ \A k \in 0 .. num_values - 1 : memory[k] \in Int /\ memory[k] \in Numbers
<1>1. max_values \in Nat /\ Numbers \subseteq Int
  BY HeapAssumption
<1>2. num_values \in 0 .. max_values
  BY DEF HeapInv
<1>3. \A k \in 0 .. num_values - 1 : memory[k] \in Numbers
  BY DEF HeapInv
<1>4. DOMAIN memory = 0 .. max_values - 1
  BY DEF HeapInv, H!Slot
<1>5. num_values \in Nat /\ num_values <= max_values
  BY <1>1, <1>2
<1> QED
  BY <1>1, <1>3, <1>4, <1>5

\* A value is added to the bag, or taken from it.
LEMMA BagCopies ==
  ASSUME \A x \in DOMAIN held : held[x] \in Nat \ {0}, NEW y
  PROVE  /\ held' = H!BagAdd(held, y) =>
              /\ DOMAIN held' = DOMAIN held \cup {y}
              /\ \A x \in DOMAIN held' : held'[x] \in Nat \ {0}
              /\ \A x : H!Copies(x)' = IF x = y THEN H!Copies(x) + 1 ELSE H!Copies(x)
         /\ held' = H!BagRemove(held, y) /\ y \in DOMAIN held =>
              /\ DOMAIN held' \subseteq DOMAIN held
              /\ \A x \in DOMAIN held' : held'[x] \in Nat \ {0}
              /\ \A x : H!Copies(x)' = IF x = y THEN H!Copies(x) - 1 ELSE H!Copies(x)
<1>1. ASSUME held' = H!BagAdd(held, y)
      PROVE  /\ DOMAIN held' = DOMAIN held \cup {y}
             /\ \A x \in DOMAIN held' : held'[x] \in Nat \ {0}
             /\ \A x : H!Copies(x)' = IF x = y THEN H!Copies(x) + 1 ELSE H!Copies(x)
  <2>1. CASE y \in DOMAIN held
    <3>1. held' = [x \in DOMAIN held |-> IF x = y THEN held[x] + 1 ELSE held[x]]
      BY <1>1, <2>1 DEF H!BagAdd
    <3>2. DOMAIN held' = DOMAIN held \cup {y} /\ DOMAIN held' = DOMAIN held
      BY <2>1, <3>1
    <3>3. \A x \in DOMAIN held : held'[x] = IF x = y THEN held[x] + 1 ELSE held[x]
      BY <3>1
    <3>4. \A x \in DOMAIN held : held[x] + 1 \in Nat \ {0}
      OBVIOUS
    <3> QED
      BY <2>1, <3>2, <3>3, <3>4 DEF H!Copies, H!BagIn, H!BagToSet
  <2>2. CASE y \notin DOMAIN held
    <3>1. held' = [x \in DOMAIN held \cup {y} |-> IF x = y THEN 1 ELSE held[x]]
      BY <1>1, <2>2 DEF H!BagAdd
    <3> QED
      BY <2>2, <3>1 DEF H!Copies, H!BagIn, H!BagToSet
  <2> QED
    BY <2>1, <2>2
<1>2. ASSUME held' = H!BagRemove(held, y), y \in DOMAIN held
      PROVE  /\ DOMAIN held' \subseteq DOMAIN held
             /\ \A x \in DOMAIN held' : held'[x] \in Nat \ {0}
             /\ \A x : H!Copies(x)' = IF x = y THEN H!Copies(x) - 1 ELSE H!Copies(x)
  <2>1. CASE held[y] = 1
    <3>1. held' = [x \in DOMAIN held \ {y} |-> held[x]]
      BY <1>2, <2>1 DEF H!BagRemove
    <3> QED
      BY <1>2, <2>1, <3>1 DEF H!Copies, H!BagIn, H!BagToSet
  <2>2. CASE held[y] # 1
    <3>1. held' = [x \in DOMAIN held |-> IF x = y THEN held[x] - 1 ELSE held[x]]
      BY <1>2, <2>2 DEF H!BagRemove
    <3>2. held[y] - 1 \in Nat \ {0}
      BY <1>2, <2>2
    <3> QED
      BY <1>2, <3>1, <3>2 DEF H!Copies, H!BagIn, H!BagToSet
  <2> QED
    BY <2>1, <2>2
<1> QED
  BY <1>1, <1>2

LEMMA AddHolds ==
  ASSUME HeapInv, NEW y \in Numbers, H!add_value(y)
  PROVE  HeapInv'
<1> DEFINE n == num_values
           w == [memory EXCEPT ![n] = y]
<1>1. /\ n \in Nat /\ n \in H!Slot /\ DOMAIN memory = 0 .. max_values - 1 /\ n + 1 <= max_values
      /\ \A k \in 0 .. n - 1 : memory[k] \in Int /\ memory[k] \in Numbers
      /\ \A k \in 1 .. n - 1 : Below(memory, k)
  BY HeapFacts DEF H!add_value, H!Slot, HeapInv, Ordered
<1>2. /\ memory' = w /\ num_values' = n + 1 /\ index' = n
      /\ h_pc' = (IF n # 0 THEN "up" ELSE "idle") /\ held' = H!BagAdd(held, y)
  BY DEF H!add_value
<1>3. DOMAIN w = DOMAIN memory /\ w[n] = y /\ \A k \in 0 .. n - 1 : w[k] = memory[k]
  BY <1>1 DEF H!Slot
<1> HIDE DEF w
<1>4. \A k \in 0 .. (n + 1) - 1 : k \in 0 .. n - 1 \/ k = n
  BY <1>1
<1>5. ASSUME NEW x PROVE CountOf(w, n + 1, x) = IF x = y THEN CountOf(memory, n, x) + 1
                                                ELSE CountOf(memory, n, x)
  <2> DEFINE S1 == {k \in 0 .. n - 1 : memory[k] = x}
             T1 == {k \in 0 .. (n + 1) - 1 : w[k] = x}
  <2>1. IsFiniteSet(S1) /\ n \notin S1
    <3>1. n \notin 0 .. n - 1
      BY <1>1
    <3>2. n \in Nat
      BY <1>1
    <3>3. IsFiniteSet(S1)
      BY <3>2, CountIsNat
    <3> QED
      BY <3>1, <3>3
  <2>2. T1 = IF x = y THEN S1 \cup {n} ELSE S1
    <3>1. \A k : k \in 0 .. (n + 1) - 1 <=> k \in 0 .. n - 1 \/ k = n
      BY <1>1
    <3> QED
      BY <1>3, <3>1
  <2> HIDE DEF S1, T1
  <2>3. Cardinality(T1) = IF x = y THEN Cardinality(S1) + 1 ELSE Cardinality(S1)
    BY <2>1, <2>2, FS_AddElement
  <2> QED
    BY <2>3 DEF CountOf, S1, T1
<1>6. /\ DOMAIN held' = DOMAIN held \cup {y}
      /\ \A x \in DOMAIN held' : held'[x] \in Nat \ {0}
      /\ \A x : H!Copies(x)' = IF x = y THEN H!Copies(x) + 1 ELSE H!Copies(x)
  BY <1>2, BagCopies DEF HeapInv
<1>7. \A x \in Numbers : H!Copies(x)' = CountOf(memory', num_values', x)
  BY <1>2, <1>5, <1>6 DEF HeapInv
<1>8. Ordered'
  <2>1. CASE n = 0
    BY <1>2, <2>1 DEF Ordered
  <2>2. CASE n # 0
    <3>1. index' \in 1 .. num_values' - 1 /\ h_pc' = "up"
      BY <1>1, <1>2, <2>2
    <3>2. ASSUME NEW k \in 1 .. n PROVE /\ k # n => Below(w, k)
                                        /\ H!PARENT(k) # n
      <4>1. H!PARENT(k) \in Nat /\ H!PARENT(k) < k
        BY <1>1, ParentFacts
      <4>2. k # n => k \in 1 .. n - 1 /\ k \in 0 .. n - 1 /\ H!PARENT(k) \in 0 .. n - 1
        BY <1>1, <4>1
      <4> QED
        BY <1>1, <1>3, <4>1, <4>2 DEF Below
    <3>3. (n + 1) - 1 = n
      BY <1>1
    <3> QED
      BY <1>2, <3>1, <3>2, <3>3 DEF Ordered
  <2> QED
    BY <2>1, <2>2
<1>9. num_values' \in 0 .. max_values /\ \A k \in 0 .. num_values' - 1 : memory'[k] \in Numbers
  BY <1>1, <1>2, <1>3, <1>4
<1>10. h_pc' \in {"idle", "up", "down"} /\ DOMAIN memory' = H!Slot /\ DOMAIN held' \subseteq Numbers
  BY <1>2, <1>3, <1>6 DEF HeapInv
<1> QED
  BY <1>6, <1>7, <1>8, <1>9, <1>10 DEF HeapInv

\* A swap keeps all but the order.
LEMMA SwapHolds ==
  ASSUME HeapInv, NEW i \in 0 .. num_values - 1, NEW j \in 0 .. num_values - 1,
         memory' = H!swap_values(i, j), UNCHANGED <<num_values, held>>,
         h_pc' \in {"idle", "up", "down"}, Ordered'
  PROVE  HeapInv'
<1>1. DOMAIN memory = 0 .. max_values - 1 /\ num_values \in Nat /\ num_values <= max_values
      /\ max_values \in Nat
  BY HeapFacts
<1>2. i \in DOMAIN memory /\ j \in DOMAIN memory
  BY <1>1
<1>3. /\ DOMAIN memory' = DOMAIN memory
      /\ memory'[i] = memory[j] /\ memory'[j] = memory[i]
      /\ \A k \in DOMAIN memory : k # i /\ k # j => memory'[k] = memory[k]
  BY <1>2 DEF H!swap_values
<1>4. \A k \in 0 .. num_values - 1 : k \in DOMAIN memory
  BY <1>1
<1>5. \A k \in 0 .. num_values - 1 : memory'[k] \in Numbers
  BY <1>3, <1>4 DEF HeapInv
<1>6. ASSUME NEW x PROVE CountOf(memory', num_values, x) = CountOf(memory, num_values, x)
  <2> DEFINE m == memory
             w == memory'
             n == num_values
  <2>1. /\ n \in Nat /\ i \in 0 .. n - 1 /\ j \in 0 .. n - 1 /\ w[i] = m[j] /\ w[j] = m[i]
        /\ \A k \in 0 .. n - 1 : k # i /\ k # j => w[k] = m[k]
    BY <1>1, <1>3, <1>4
  <2> HIDE DEF m, w, n
  <2>2. CountOf(w, n, x) = CountOf(m, n, x)
    BY <2>1, SwapCounts
  <2> QED
    BY <2>2 DEF m, w, n
<1>7. \A x : H!Copies(x)' = H!Copies(x)
  BY DEF H!Copies, H!BagIn, H!BagToSet
<1> QED
  BY <1>3, <1>5, <1>6, <1>7 DEF HeapInv

LEMMA UpHolds == HeapInv /\ H!sift_up => HeapInv'
<1> SUFFICES ASSUME HeapInv, H!sift_up PROVE HeapInv'
  OBVIOUS
<1> DEFINE n == num_values
           i == index
           up == H!PARENT(i)
           m == memory
           w == memory'
<1>1. /\ n \in Nat /\ h_pc = "up" /\ i \in 1 .. n - 1
      /\ DOMAIN m = 0 .. max_values - 1 /\ n <= max_values /\ max_values \in Nat
      /\ \A k \in 0 .. n - 1 : m[k] \in Int
      /\ \A k \in 1 .. n - 1 : k # i => Below(m, k)
      /\ \A k \in 1 .. n - 1 : H!PARENT(k) = i => m[up] <= m[k]
      /\ UNCHANGED <<num_values, held>>
  BY HeapFacts DEF H!sift_up, HeapInv, Ordered
<1>2. up \in 0 .. n - 1 /\ up < i /\ i \in 0 .. n - 1 /\ up # i
  BY <1>1, ParentFacts
<1>3. \A k \in 1 .. n - 1 : /\ H!PARENT(k) \in 0 .. n - 1 /\ H!PARENT(k) < k
                            /\ k \in 0 .. n - 1 /\ H!PARENT(k) # k
  BY <1>1, ParentFacts
<1>4. CASE m[i] < m[up]
  <2>1. /\ w = H!swap_values(i, up) /\ index' = up
        /\ h_pc' = IF up # 0 THEN "up" ELSE "idle"
    BY <1>4 DEF H!sift_up
  <2>2. w[i] = m[up] /\ w[up] = m[i] /\ \A k \in 0 .. n - 1 : k # i /\ k # up => w[k] = m[k]
    BY <1>1, <1>2, <2>1 DEF H!swap_values
  <2> HIDE DEF w, m, up, i, n
  <2>3. ASSUME NEW k \in 1 .. n - 1, k # up PROVE w[H!PARENT(k)] <= w[k]
    <3> DEFINE q == H!PARENT(k)
    <3>1. q \in 0 .. n - 1 /\ k \in 0 .. n - 1 /\ q # k
      BY <1>3
    <3>2. k # i => m[q] <= m[k]
      BY <1>1 DEF Below
    <3>3. q = i => m[up] <= m[k]
      BY <1>1
    <3>4. k = i => q = up
      BY DEF up
    <3>5. \A z \in 0 .. n - 1 : m[z] \in Int
      BY <1>1
    <3> SUFFICES w[q] <= w[k]
      OBVIOUS
    <3> HIDE DEF q
    <3>6. CASE k = i
      <4>1. w[q] = m[i] /\ w[k] = m[up]
        BY <2>2, <3>4, <3>6
      <4>2. m[i] \in Int /\ m[up] \in Int
        BY <1>2, <3>5
      <4> QED
        BY <1>4, <4>1, <4>2
    <3>7. CASE k # i /\ q = up
      <4>1. w[q] = m[i] /\ w[k] = m[k] /\ m[up] <= m[k]
        BY <2>2, <2>3, <3>1, <3>2, <3>7
      <4>2. m[i] \in Int /\ m[up] \in Int /\ m[k] \in Int
        BY <1>2, <3>1, <3>5
      <4> QED
        BY <1>4, <4>1, <4>2
    <3>8. CASE k # i /\ q = i
      <4>1. w[q] = m[up] /\ w[k] = m[k]
        BY <2>2, <2>3, <3>1, <3>8
      <4> QED
        BY <3>3, <3>8, <4>1
    <3>9. CASE k # i /\ q # i /\ q # up
      <4>1. w[q] = m[q] /\ w[k] = m[k]
        BY <2>2, <2>3, <3>1, <3>9
      <4> QED
        BY <3>2, <3>9, <4>1
    <3> QED
      BY <3>6, <3>7, <3>8, <3>9
  <2>4. CASE up = 0
    <3>1. \A k \in 1 .. n - 1 : Below(w, k)
      BY <1>1, <2>3, <2>4 DEF Below
    <3>2. Ordered' /\ h_pc' = "idle"
      BY <1>1, <2>1, <2>4, <3>1 DEF Ordered, n, w
    <3> QED
      BY <1>1, <1>2, <2>1, <3>2, SwapHolds DEF n, w
  <2>5. CASE up # 0
    <3>1. up \in 1 .. n - 1
      BY <1>1, <1>2, <2>5
    <3>2. ASSUME NEW k \in 1 .. n - 1, H!PARENT(k) = up PROVE w[H!PARENT(up)] <= w[k]
      <4> DEFINE q == H!PARENT(up)
      <4>1. q \in 0 .. n - 1 /\ q < up /\ k \in 0 .. n - 1 /\ k # up
        BY <1>3, <3>1, <3>2
      <4>2. q # i /\ q # up
        BY <1>1, <1>2, <4>1
      <4>3. w[q] = m[q] /\ m[q] <= m[up]
        BY <1>1, <1>2, <2>2, <3>1, <4>1, <4>2 DEF Below
      <4>4. \A z \in 0 .. n - 1 : m[z] \in Int
        BY <1>1
      <4> HIDE DEF q
      <4>5. CASE k = i
        BY <2>2, <4>3, <4>5 DEF q
      <4>6. CASE k # i
        <5>1. w[k] = m[k] /\ m[up] <= m[k]
          BY <1>1, <2>2, <3>2, <4>1, <4>6 DEF Below
        <5> QED
          BY <1>2, <4>1, <4>3, <4>4, <5>1 DEF q
      <4> QED
        BY <4>5, <4>6
    <3>3. Ordered' /\ h_pc' = "up"
      BY <1>1, <2>1, <2>3, <2>5, <3>1, <3>2 DEF Ordered, Below, n, w
    <3> QED
      BY <1>1, <1>2, <2>1, <3>3, SwapHolds DEF n, w
  <2> QED
    BY <2>4, <2>5
<1>5. CASE ~(m[i] < m[up])
  <2>1. w = m /\ index' = index /\ h_pc' = "idle"
    BY <1>5 DEF H!sift_up
  <2>2. Below(m, i)
    BY <1>1, <1>2, <1>5 DEF Below
  <2>3. Ordered'
    BY <1>1, <2>1, <2>2 DEF Ordered
  <2>4. \A x : H!Copies(x)' = H!Copies(x)
    BY <1>1 DEF H!Copies, H!BagIn, H!BagToSet
  <2> QED
    BY <1>1, <2>1, <2>3, <2>4 DEF HeapInv
<1> QED
  BY <1>4, <1>5

\* The children of i that a swap may go to.
LEMMA ChildFacts ==
  ASSUME HeapInv, NEW i \in 0 .. num_values - 1
  PROVE  /\ H!SwapChild(i) = {} =>
              \A k \in 1 .. num_values - 1 : H!PARENT(k) = i => memory[i] <= memory[k]
         /\ \A c \in H!SwapChild(i) :
              /\ c \in 1 .. num_values - 1 /\ H!PARENT(c) = i /\ memory[c] <= memory[i]
              /\ \A k \in 1 .. num_values - 1 : H!PARENT(k) = i => memory[c] <= memory[k]
              /\ ~(H!RIGHT_CHILD(i) < num_values) =>
                   \A k \in 1 .. num_values - 1 : H!PARENT(k) # c
<1> DEFINE n == num_values
           m == memory
           lc == 2 * i + 1
           rc == 2 * i + 2
<1>1. n \in Nat /\ i \in Nat /\ \A k \in 0 .. n - 1 : m[k] \in Int
  BY HeapFacts
<1>2. \A k \in 1 .. n - 1 : /\ k \in 0 .. n - 1 /\ k \in Nat \ {0}
                            /\ H!PARENT(k) = i => k \in {lc, rc}
  BY <1>1, ParentFacts
<1>3. H!LEFT_CHILD(i) = lc /\ H!RIGHT_CHILD(i) = rc
  BY DEF H!LEFT_CHILD, H!RIGHT_CHILD
<1>4. lc \in Nat /\ rc \in Nat /\ rc = lc + 1 /\ lc > 0
  BY <1>1
<1>5. /\ lc < n => lc \in 1 .. n - 1 /\ m[lc] \in Int
      /\ rc < n => rc \in 1 .. n - 1 /\ m[rc] \in Int
  BY <1>1, <1>4
<1>6. H!PARENT(lc) = i /\ H!PARENT(rc) = i
  BY <1>1, <1>4, ParentFacts
<1>7. H!SwapChild(i) =
        IF lc >= n THEN {}
        ELSE IF rc >= n THEN IF m[lc] < m[i] THEN {lc} ELSE {}
        ELSE IF m[lc] < m[i] \/ m[rc] < m[i]
             THEN {IF m[lc] < m[rc] THEN lc ELSE rc} ELSE {}
  BY <1>3 DEF H!SwapChild
<1>8. m[i] \in Int
  BY <1>1
<1> HIDE DEF m
<1>9. ASSUME H!SwapChild(i) = {}, NEW k \in 1 .. n - 1, H!PARENT(k) = i PROVE m[i] <= m[k]
  <2>1. k \in {lc, rc} /\ lc < n
    <3>1. k \in {lc, rc}
      BY <1>2, <1>9
    <3> HIDE DEF lc, rc
    <3> QED
      BY <1>1, <1>4, <3>1
  <2> HIDE DEF lc, rc
  <2> QED
    BY <1>1, <1>4, <1>5, <1>7, <1>8, <1>9, <2>1
<1>10. ASSUME NEW c \in H!SwapChild(i)
       PROVE  /\ c \in 1 .. n - 1 /\ H!PARENT(c) = i /\ m[c] <= m[i]
              /\ \A k \in 1 .. n - 1 : H!PARENT(k) = i => m[c] <= m[k]
              /\ ~(rc < n) => \A k \in 1 .. n - 1 : H!PARENT(k) # c
  <2>1. /\ lc < n /\ c \in {lc, rc} /\ (c = rc => rc < n)
        /\ m[c] <= m[i] /\ m[c] <= m[lc] /\ (rc < n => m[c] <= m[rc])
    <3> HIDE DEF lc, rc
    <3> QED
      BY <1>1, <1>4, <1>5, <1>7, <1>8, <1>10
  <2>2. c \in 1 .. n - 1 /\ H!PARENT(c) = i
    <3> HIDE DEF lc, rc
    <3> QED
      BY <1>5, <1>6, <2>1
  <2>3. ASSUME NEW k \in 1 .. n - 1, H!PARENT(k) = i PROVE m[c] <= m[k]
    <3>1. k \in {lc, rc}
      BY <1>2, <2>3
    <3> HIDE DEF lc, rc
    <3> QED
      BY <1>1, <1>4, <1>7, <1>10, <2>1, <2>3, <3>1
  <2>4. ASSUME ~(rc < n), NEW k \in 1 .. n - 1, H!PARENT(k) = c PROVE FALSE
    <3>1. c = lc
      <4> HIDE DEF lc, rc
      <4> QED
        BY <2>1, <2>4
    <3>2. k = 2 * c + 1 \/ k = 2 * c + 2
      BY <1>2, <1>4, <2>4, <3>1, ParentFacts
    <3> QED
      BY <1>1, <1>4, <2>4, <3>1, <3>2
  <2> QED
    BY <2>1, <2>2, <2>3, <2>4
<1> QED
  BY <1>3, <1>9, <1>10 DEF m

LEMMA DownHolds == HeapInv /\ H!sift_down => HeapInv'
<1> SUFFICES ASSUME HeapInv, H!sift_down PROVE HeapInv'
  OBVIOUS
<1> DEFINE n == num_values
           i == index
           m == memory
           w == memory'
<1>1. /\ n \in Nat /\ h_pc = "down" /\ i \in 0 .. n - 1
      /\ DOMAIN m = 0 .. max_values - 1 /\ n <= max_values /\ max_values \in Nat
      /\ \A k \in 0 .. n - 1 : m[k] \in Int
      /\ \A k \in 1 .. n - 1 : H!PARENT(k) # i => Below(m, k)
      /\ i # 0 => \A k \in 1 .. n - 1 : H!PARENT(k) = i => m[H!PARENT(i)] <= m[k]
      /\ UNCHANGED <<num_values, held>>
  BY HeapFacts DEF H!sift_down, HeapInv, Ordered
<1>2. \A k \in 1 .. n - 1 : /\ H!PARENT(k) \in 0 .. n - 1 /\ H!PARENT(k) < k
                            /\ k \in 0 .. n - 1 /\ H!PARENT(k) # k
  BY <1>1, ParentFacts
<1>3. CASE H!SwapChild(i) = {}
  <2>1. w = m /\ index' = index /\ h_pc' = "idle"
    BY <1>3 DEF H!sift_down
  <2>2. \A k \in 1 .. n - 1 : H!PARENT(k) = i => m[i] <= m[k]
    BY <1>1, <1>3, ChildFacts
  <2>3. Ordered'
    BY <1>1, <2>1, <2>2 DEF Ordered, Below
  <2>4. \A x : H!Copies(x)' = H!Copies(x)
    BY <1>1 DEF H!Copies, H!BagIn, H!BagToSet
  <2> QED
    BY <1>1, <2>1, <2>3, <2>4 DEF HeapInv
<1>4. CASE H!SwapChild(i) # {}
  <2>1. PICK c \in H!SwapChild(i) :
          /\ w = H!swap_values(i, c) /\ index' = c
          /\ h_pc' = IF H!RIGHT_CHILD(i) < n THEN "down" ELSE "idle"
    BY <1>4 DEF H!sift_down
  <2>2. /\ c \in 1 .. n - 1 /\ H!PARENT(c) = i /\ m[c] <= m[i]
        /\ \A k \in 1 .. n - 1 : H!PARENT(k) = i => m[c] <= m[k]
        /\ ~(H!RIGHT_CHILD(i) < n) => \A k \in 1 .. n - 1 : H!PARENT(k) # c
    BY <1>1, ChildFacts
  <2>3. c \in 0 .. n - 1 /\ c # i /\ c # 0
    BY <1>2, <2>2
  <2>4. w[i] = m[c] /\ w[c] = m[i] /\ \A k \in 0 .. n - 1 : k # i /\ k # c => w[k] = m[k]
    BY <1>1, <2>1, <2>3 DEF H!swap_values
  <2> HIDE DEF w, m, i, n
  <2>5. ASSUME NEW k \in 1 .. n - 1, H!PARENT(k) # c PROVE w[H!PARENT(k)] <= w[k]
    <3> DEFINE q == H!PARENT(k)
    <3>1. q \in 0 .. n - 1 /\ k \in 0 .. n - 1 /\ q # k /\ q # c
      BY <1>2, <2>5
    <3>2. q # i => m[q] <= m[k]
      BY <1>1 DEF Below
    <3>3. k = c => q = i
      BY <2>2
    <3>4. q = i => m[c] <= m[k]
      BY <2>2
    <3>5. k = i => m[q] <= m[c]
      <4>1. k = i => i # 0 /\ q = H!PARENT(i)
        OBVIOUS
      <4> QED
        BY <1>1, <2>2, <4>1
    <3> HIDE DEF q
    <3>6. CASE k = c
      BY <2>2, <2>4, <3>3, <3>6 DEF q
    <3>7. CASE k # c /\ q = i
      BY <2>4, <3>1, <3>4, <3>7 DEF q
    <3>8. CASE k = i /\ q # i
      BY <2>4, <3>1, <3>5, <3>8 DEF q
    <3>9. CASE k # c /\ k # i /\ q # i
      BY <2>4, <3>1, <3>2, <3>9 DEF q
    <3> QED
      BY <3>3, <3>6, <3>7, <3>8, <3>9
  <2>6. ASSUME NEW k \in 1 .. n - 1, H!PARENT(k) = c PROVE w[H!PARENT(c)] <= w[k]
    <3>1. k \in 0 .. n - 1 /\ k # c /\ c < k
      BY <1>2, <2>6
    <3>2. k # i
      <4>1. i < c
        BY <1>2, <2>2
      <4> QED
        BY <1>1, <2>3, <3>1, <4>1
    <3>3. m[c] <= m[k]
      BY <1>1, <2>3, <2>6 DEF Below
    <3> QED
      BY <2>2, <2>4, <3>1, <3>2, <3>3
  <2>7. CASE H!RIGHT_CHILD(i) < n
    <3>1. Ordered' /\ h_pc' = "down"
      BY <1>1, <2>1, <2>3, <2>5, <2>6, <2>7 DEF Ordered, Below, n, w
    <3> QED
      BY <1>1, <2>1, <2>3, <3>1, SwapHolds DEF n, w
  <2>8. CASE ~(H!RIGHT_CHILD(i) < n)
    <3>1. Ordered' /\ h_pc' = "idle"
      BY <1>1, <2>1, <2>2, <2>5, <2>8 DEF Ordered, Below, n, w
    <3> QED
      BY <1>1, <2>1, <2>3, <3>1, SwapHolds DEF n, w
  <2> QED
    BY <2>7, <2>8
<1> QED
  BY <1>3, <1>4

\* The first value leaves: the last one takes its place, and there is one less of it.
LEMMA TakeHolds == HeapInv /\ H!get_first_value => HeapInv'
<1> SUFFICES ASSUME HeapInv, H!get_first_value PROVE HeapInv'
  OBVIOUS
<1> DEFINE n == num_values
           m == memory
           w == memory'
           swapped == [k \in 0 .. n - 1 |-> IF k = 0 THEN m[n - 1] ELSE IF k = n - 1 THEN m[0] ELSE m[k]]
<1>1. /\ n \in Nat \ {0} /\ 0 \in 0 .. n - 1 /\ n - 1 \in 0 .. n - 1
      /\ DOMAIN m = 0 .. max_values - 1 /\ n <= max_values /\ max_values \in Nat
      /\ \A k \in 0 .. n - 1 : m[k] \in Int /\ m[k] \in Numbers
      /\ \A k \in 1 .. n - 1 : Below(m, k)
      /\ h_pc = "idle"
  BY HeapFacts DEF H!get_first_value, HeapInv, Ordered
<1>2. /\ num_values' = n - 1 /\ index' = 0 /\ held' = H!BagRemove(held, m[0])
      /\ IF n - 1 # 0 THEN w = [m EXCEPT ![0] = m[n - 1]] /\ h_pc' = "down"
         ELSE w = m /\ h_pc' = "idle"
  BY <1>1 DEF H!get_first_value
<1>3. DOMAIN w = DOMAIN m /\ \A k \in 0 .. n - 2 : w[k] = IF k = 0 THEN m[n - 1] ELSE m[k]
  BY <1>1, <1>2
<1>4. \A x : CountOf(swapped, n, x) = CountOf(m, n, x)
  <2>1. /\ swapped[0] = m[n - 1] /\ swapped[n - 1] = m[0]
        /\ \A k \in 0 .. n - 1 : k # 0 /\ k # n - 1 => swapped[k] = m[k]
    BY <1>1
  <2> HIDE DEF swapped
  <2> QED
    BY <1>1, <2>1, SwapCounts
<1>5. ASSUME NEW x PROVE CountOf(w, n - 1, x) = IF x = m[0] THEN CountOf(m, n, x) - 1
                                                ELSE CountOf(m, n, x)
  <2> DEFINE S1 == {k \in 0 .. n - 1 : swapped[k] = x}
             T1 == {k \in 0 .. (n - 1) - 1 : w[k] = x}
  <2>1. IsFiniteSet(S1) /\ Cardinality(S1) = CountOf(m, n, x)
    <3> HIDE DEF swapped
    <3>1. n \in Nat
      BY <1>1
    <3>2. IsFiniteSet(S1)
      BY <3>1, CountIsNat
    <3>3. CountOf(swapped, n, x) = Cardinality(S1)
      BY DEF CountOf
    <3> QED
      BY <1>4, <3>2, <3>3
  <2>2. \A k : k \in 0 .. (n - 1) - 1 <=> k \in 0 .. n - 1 /\ k # n - 1
    BY <1>1
  <2>3. \A k \in 0 .. (n - 1) - 1 : swapped[k] = w[k]
    BY <1>1, <1>3
  <2>4. swapped[n - 1] = m[0]
    BY <1>1
  <2> HIDE DEF swapped
  <2>5. T1 = S1 \ {n - 1}
    BY <2>2, <2>3
  <2>6. n - 1 \in S1 <=> x = m[0]
    BY <1>1, <2>4
  <2> HIDE DEF S1, T1
  <2>7. Cardinality(T1) = IF x = m[0] THEN Cardinality(S1) - 1 ELSE Cardinality(S1)
    BY <2>1, <2>5, <2>6, FS_RemoveElement
  <2> QED
    BY <2>1, <2>7 DEF CountOf, T1
<1>6. m[0] \in DOMAIN held
  <2> DEFINE S1 == {k \in 0 .. n - 1 : m[k] = m[0]}
  <2>1. IsFiniteSet(S1) /\ 0 \in S1
    <3>1. n \in Nat
      BY <1>1
    <3>2. IsFiniteSet(S1)
      BY <3>1, CountIsNat
    <3> QED
      BY <1>1, <3>2
  <2> HIDE DEF S1
  <2>2. Cardinality(S1) # 0
    BY <2>1, FS_EmptySet
  <2>3. H!Copies(m[0]) # 0
    BY <1>1, <2>2 DEF HeapInv, CountOf, S1
  <2> QED
    BY <2>3 DEF H!Copies, H!BagIn, H!BagToSet
<1>7. /\ DOMAIN held' \subseteq DOMAIN held
      /\ \A x \in DOMAIN held' : held'[x] \in Nat \ {0}
      /\ \A x : H!Copies(x)' = IF x = m[0] THEN H!Copies(x) - 1 ELSE H!Copies(x)
  BY <1>2, <1>6, BagCopies DEF HeapInv
<1>8. \A x \in Numbers : H!Copies(x)' = CountOf(memory', num_values', x)
  BY <1>2, <1>5, <1>7 DEF HeapInv
<1> HIDE DEF swapped
<1>9. Ordered'
  <2>1. CASE n - 1 = 0
    <3>1. \A k \in 1 .. (n - 1) - 1 : FALSE
      BY <2>1
    <3> QED
      BY <1>2, <2>1, <3>1 DEF Ordered
  <2>2. CASE n - 1 # 0
    <3>1. ASSUME NEW k \in 1 .. (n - 1) - 1, H!PARENT(k) # 0 PROVE Below(w, k)
      <4>1. /\ H!PARENT(k) \in 0 .. n - 2 /\ k \in 0 .. n - 2 /\ k # 0 /\ k \in 1 .. n - 1
        BY <1>1, ParentFacts
      <4> QED
        BY <1>1, <1>3, <3>1, <4>1 DEF Below
    <3>2. index' \in 0 .. num_values' - 1 /\ h_pc' = "down" /\ index' = 0
      BY <1>1, <1>2, <2>2
    <3> QED
      BY <1>2, <3>1, <3>2 DEF Ordered
  <2> QED
    BY <2>1, <2>2
<1>10. num_values' \in 0 .. max_values /\ \A k \in 0 .. num_values' - 1 : memory'[k] \in Numbers
  <2>1. \A k \in 0 .. (n - 1) - 1 : k \in 0 .. n - 2 /\ k \in 0 .. n - 1
    BY <1>1
  <2> QED
    BY <1>1, <1>2, <1>3, <2>1
<1>11. h_pc' \in {"idle", "up", "down"} /\ DOMAIN memory' = H!Slot /\ DOMAIN held' \subseteq Numbers
  BY <1>2, <1>3, <1>7 DEF HeapInv
<1> QED
  BY <1>7, <1>8, <1>9, <1>10, <1>11 DEF HeapInv

\* Whatever is below its parent everywhere is no smaller than the root.
LEMMA RootIsLeast ==
  ASSUME HeapInv, h_pc = "idle", NEW k \in 0 .. num_values - 1
  PROVE  memory[0] <= memory[k]
<1> DEFINE n == num_values
           Bad == {j \in 0 .. n - 1 : ~(memory[0] <= memory[j])}
<1>1. /\ n \in Nat /\ 0 \in 0 .. n - 1
      /\ \A j \in 0 .. n - 1 : memory[j] \in Int
      /\ \A j \in 1 .. n - 1 : Below(memory, j)
  BY HeapFacts DEF HeapInv, Ordered
<1>2. ASSUME Bad # {} PROVE FALSE
  <2>1. PICK j \in Bad : \A l \in Bad : j <= l
    <3>1. Bad \in SUBSET Nat
      OBVIOUS
    <3> HIDE DEF Bad
    <3> QED
      BY <1>2, <3>1, LeastNat
  <2>2. j \in 0 .. n - 1 /\ ~(memory[0] <= memory[j])
    BY <2>1
  <2>3. j # 0
    BY <1>1, <2>2
  <2> DEFINE q == H!PARENT(j)
  <2>4. j \in 1 .. n - 1 /\ q \in 0 .. n - 1 /\ q < j
    BY <1>1, <2>2, <2>3, ParentFacts
  <2>5. memory[q] <= memory[j]
    BY <1>1, <2>4 DEF Below
  <2> HIDE DEF q
  <2>6. q \in Bad /\ ~(j <= q)
    BY <1>1, <2>2, <2>4, <2>5
  <2> QED
    BY <2>1, <2>6
<1> QED
  BY <1>2

LEMMA HeapGivesSmallest == HeapInv => FirstIsSmallest
<1> SUFFICES ASSUME HeapInv, h_pc = "idle"
             PROVE  /\ \A x \in Numbers : H!Copies(x) =
                         H!Cardinality({k \in 0 .. num_values - 1 : memory[k] = x})
                    /\ num_values > 0 => memory[0] = H!Min(H!BagToSet(held))
  BY DEF FirstIsSmallest, H!FirstIsSmallest
<1>1. \A x \in Numbers : H!Copies(x) = H!Cardinality({k \in 0 .. num_values - 1 : memory[k] = x})
  BY SameCardinality DEF HeapInv, CountOf
<1>2. ASSUME num_values > 0 PROVE memory[0] = H!Min(H!BagToSet(held))
  <2> DEFINE B == DOMAIN held
  <2>1. B \subseteq Int /\ num_values \in Nat /\ 0 \in 0 .. num_values - 1
    <3>1. num_values \in Nat /\ num_values \in Int /\ 0 <= num_values - 1
      BY <1>2, HeapFacts
    <3>2. B \subseteq Int
      BY HeapAssumption DEF HeapInv
    <3> QED
      BY <3>1, <3>2
  <2>2. ASSUME NEW x \in Numbers
        PROVE  x \in B <=> \E k \in 0 .. num_values - 1 : memory[k] = x
    <3> DEFINE S1 == {k \in 0 .. num_values - 1 : memory[k] = x}
    <3>1. IsFiniteSet(S1) /\ H!Copies(x) = Cardinality(S1)
      BY <2>1, CountIsNat DEF HeapInv, CountOf
    <3>2. x \in B <=> H!Copies(x) # 0
      BY DEF H!Copies, H!BagIn, H!BagToSet, HeapInv
    <3>3. S1 = {} <=> Cardinality(S1) = 0
      BY <3>1, FS_EmptySet
    <3> QED
      BY <3>1, <3>2, <3>3
  <2>3. memory[0] \in B
    BY <2>1, <2>2, HeapFacts
  <2>4. \A y \in B : memory[0] <= y
    BY <2>2, RootIsLeast DEF HeapInv
  <2> HIDE DEF B
  <2>5. ASSUME NEW x \in B, \A y \in B : x <= y PROVE x = memory[0]
    <3>1. x \in Int /\ memory[0] \in Int
      BY <2>1, <2>3
    <3>2. x <= memory[0] /\ memory[0] <= x
      BY <2>3, <2>4, <2>5
    <3> QED
      BY <3>1, <3>2
  <2> QED
    BY <2>3, <2>4, <2>5 DEF H!Min, H!BagToSet, B
<1> QED
  BY <1>1, <1>2

LEMMA HeapSteps == [MCNext]_MCVars => H!Next \/ UNCHANGED hVars
BY DEF MCNext, MCVars, others

LEMMA HeapSame == HeapInv /\ UNCHANGED hVars => HeapInv'
BY DEF HeapInv, Ordered, hVars, H!Copies, H!BagIn, H!BagToSet

\* For any numbers, any capacity and any sequence of calls: between the calls the array
\* holds exactly what was added and not taken, and its first value is the smallest of
\* them, so that taking values sorts (week5 heap.c).
THEOREM HeapSorts == MCSpec => []FirstIsSmallest
<1>1. MCInit => HeapInv
  BY HeapEmpty DEF MCInit
<1>2. HeapInv /\ [MCNext]_MCVars => HeapInv'
  BY HeapSteps, HeapSame, AddHolds, UpHolds, TakeHolds, DownHolds DEF H!Next
<1> QED
  BY <1>1, <1>2, HeapGivesSmallest, PTL DEF MCSpec

-----------------------------------------------------------------------------
(* The run-length coding.                                                  *)

\* The values of tx behind place a and up to b are all x.
Same(tx, a, b, x) == \A k \in a + 1 .. b : tx[k] = x

\* The n pairs of e are runs of the values of tx; run j ends at at[j].
Coded(tx, e, n, at) ==
    /\ e \in Seq(Nat) /\ Len(e) = 2 * n
    /\ at \in [0 .. n -> 0 .. Len(tx)] /\ at[0] = 0
    /\ \A j \in 1 .. n : /\ e[2 * j - 1] \in 1 .. BYTE - 1
                         /\ at[j] = at[j - 1] + e[2 * j - 1]
                         /\ Same(tx, at[j - 1], at[j], e[2 * j])

\* They are the first m values.
CodesUpTo(tx, e, n, m) ==
    \E at \in [0 .. n -> 0 .. Len(tx)] : Coded(tx, e, n, at) /\ at[n] = m

\* b is the first m values of tx.
Begins(b, tx, m) == /\ b \in Seq(Nat) /\ Len(b) = m /\ m <= Len(tx)
                    /\ \A k \in 1 .. m : b[k] = tx[k]

\* The encoder has counted the last values it read, and the runs before them end there.
Encoding == /\ read \in 1 .. Len(text) /\ count \in 1 .. BYTE - 1 /\ count <= read
            /\ Same(text, read - count, read, lastch)
            /\ \E n \in Nat : CodesUpTo(text, encoded, n, read - count)

\* The decoder is at pair j + 1: it has added up the runs before it, or written them
\* and, in the inner loop, a part of this one.
Decoding(n, at, j) ==
    /\ Coded(text, encoded, n, at) /\ at[n] = Len(text)
    /\ esi = 2 * j
    /\ size = IF r_pc = "space" THEN at[j] ELSE Len(text)
    /\ r_pc = "space" => buffer = <<>>
    /\ r_pc = "pair" => Begins(buffer, text, at[j])
    /\ r_pc = "write" => /\ j < n /\ left \in 1 .. encoded[2 * j + 1]
                         /\ Begins(buffer, text, at[j + 1] - left)
    /\ r_pc = "done" => j = n /\ Begins(buffer, text, at[n])

RunInv ==
    /\ text \in Texts
    /\ r_pc \in {"first", "encode", "space", "pair", "write", "done"}
    /\ r_pc \in {"first", "encode"} => esi = 0 /\ size = 0 /\ buffer = <<>>
    /\ r_pc = "first" => read = 0 /\ encoded = <<>>
    /\ r_pc = "encode" => Encoding
    /\ r_pc \notin {"first", "encode"} =>
         \E n \in Nat : \E at \in [0 .. n -> 0 .. Len(text)] : \E j \in 0 .. n : Decoding(n, at, j)


LEMMA RunsInit == R!Init => RunInv
<1> SUFFICES ASSUME R!Init PROVE RunInv
  OBVIOUS
<1> QED
  BY DEF R!Init, RunInv

LEMMA BehindIt ==
  ASSUME NEW a \in Seq(Nat), NEW b \in Seq(Nat), NEW k \in 1 .. Len(b)
  PROVE  (a \o b)[Len(a) + k] = b[k]
OBVIOUS

\* What fputc() has written after one pair more.
AndPair(e, c, x) == e \o <<c, x>>

\* A run of one pair more: it ends m values further on.
LEMMA OneMoreRun ==
  ASSUME NEW tx \in Seq(Nat), NEW e, NEW n \in Nat, NEW m \in Nat, CodesUpTo(tx, e, n, m),
         NEW c \in 1 .. BYTE - 1, NEW x \in Nat, m + c <= Len(tx), Same(tx, m, m + c, x)
  PROVE  CodesUpTo(tx, AndPair(e, c, x), n + 1, m + c)
<1> PICK at \in [0 .. n -> 0 .. Len(tx)] : Coded(tx, e, n, at) /\ at[n] = m
  BY DEF CodesUpTo
<1> DEFINE e2 == AndPair(e, c, x)
           at2 == [j \in 0 .. n + 1 |-> IF j = n + 1 THEN at[n] + c ELSE at[j]]
<1>1. /\ e \in Seq(Nat) /\ Len(e) = 2 * n
      /\ at \in [0 .. n -> 0 .. Len(tx)] /\ at[0] = 0
      /\ c \in Nat /\ Len(tx) \in Nat
  BY RunLengthAssumption DEF Coded
<1>2. /\ e2 \in Seq(Nat) /\ Len(e2) = 2 * (n + 1)
      /\ e2[2 * n + 1] = c /\ e2[2 * n + 2] = x
      /\ \A k \in 1 .. 2 * n : e2[k] = e[k]
  <2>1. <<c, x>> \in Seq(Nat) /\ Len(<<c, x>>) = 2 /\ <<c, x>>[1] = c /\ <<c, x>>[2] = x
    BY <1>1
  <2>2. e2 \in Seq(Nat) /\ Len(e2) = 2 * (n + 1)
    BY <1>1, <2>1 DEF AndPair
  <2>3. \A k \in 1 .. 2 * n : e2[k] = e[k]
    BY <1>1, <2>1 DEF AndPair
  <2>4. e2[2 * n + 1] = c /\ e2[2 * n + 2] = x
    <3>1. Len(e) + 1 = 2 * n + 1 /\ Len(e) + 2 = 2 * n + 2 /\ Len(e) \in Nat
      BY <1>1
    <3> DEFINE pair == <<c, x>>
    <3>2. pair \in Seq(Nat) /\ Len(pair) = 2 /\ pair[1] = c /\ pair[2] = x /\ e2 = e \o pair
      BY <2>1 DEF AndPair
    <3> HIDE DEF pair, e2
    <3>3. 1 \in 1 .. Len(pair) /\ 2 \in 1 .. Len(pair)
      BY <3>2
    <3>4. (e \o pair)[Len(e) + 1] = pair[1]
      BY <1>1, <3>2, <3>3, BehindIt
    <3>5. (e \o pair)[Len(e) + 2] = pair[2]
      BY <1>1, <3>2, <3>3, BehindIt
    <3> QED
      BY <3>1, <3>2, <3>4, <3>5
  <2> QED
    BY <2>2, <2>3, <2>4
<1>3. n \in 0 .. n /\ at[n] \in Nat
  BY <1>1
<1>4. /\ at2 \in [0 .. n + 1 -> 0 .. Len(tx)] /\ at2[0] = 0
      /\ at2[n + 1] = at[n] + c
      /\ \A j \in 0 .. n : at2[j] = at[j]
  BY <1>1, <1>3
<1> HIDE DEF e2, at2
<1>5. ASSUME NEW j \in 1 .. n + 1
      PROVE  /\ e2[2 * j - 1] \in 1 .. BYTE - 1
             /\ at2[j] = at2[j - 1] + e2[2 * j - 1]
             /\ Same(tx, at2[j - 1], at2[j], e2[2 * j])
  <2>1. CASE j = n + 1
    <3>1. 2 * j - 1 = 2 * n + 1 /\ 2 * j = 2 * n + 2 /\ j - 1 = n
      BY <2>1
    <3>2. at2[j - 1] = at[n] /\ at2[j] = at[n] + c /\ e2[2 * j - 1] = c /\ e2[2 * j] = x
      BY <1>2, <1>3, <1>4, <2>1, <3>1
    <3> QED
      BY <3>2
  <2>2. CASE j # n + 1
    <3>1. j \in 1 .. n /\ j \in 0 .. n /\ j - 1 \in 0 .. n
          /\ 2 * j - 1 \in 1 .. 2 * n /\ 2 * j \in 1 .. 2 * n
      BY <2>2
    <3>2. at2[j - 1] = at[j - 1] /\ at2[j] = at[j]
          /\ e2[2 * j - 1] = e[2 * j - 1] /\ e2[2 * j] = e[2 * j]
      BY <1>2, <1>4, <3>1
    <3> QED
      BY <3>1, <3>2 DEF Coded
  <2> QED
    BY <2>1, <2>2
<1>6. Coded(tx, e2, n + 1, at2)
  BY <1>2, <1>4, <1>5 DEF Coded
<1>7. at2[n + 1] = m + c
  BY <1>4
<1> QED
  BY <1>4, <1>6, <1>7 DEF CodesUpTo, e2

\* What the size of a file of one run more is, computed in two registers.
LEMMA AddWithCarry ==
  ASSUME NEW n \in Nat, NEW c \in 0 .. BYTE - 1
  PROVE  LET bl == (n % BYTE) + c
         IN  n - (n % BYTE) + (bl % BYTE) + (IF bl >= BYTE THEN BYTE ELSE 0) = n + c
<1>1. BYTE \in Nat \ {0} /\ BYTE >= 2
  BY RunLengthAssumption
<1>2. n % BYTE \in 0 .. BYTE - 1
  BY <1>1, Division
<1> DEFINE bl == (n % BYTE) + c
<1>3. bl \in Nat /\ bl < 2 * BYTE
  BY <1>1, <1>2
<1>4. bl % BYTE = IF bl >= BYTE THEN bl - BYTE ELSE bl
  <2>1. CASE bl >= BYTE
    <3>1. bl - BYTE \in 0 .. BYTE - 1 /\ 1 * BYTE + (bl - BYTE) = bl
      BY <1>1, <1>3, <2>1
    <3> HIDE DEF bl
    <3> DEFINE r == bl - BYTE
    <3>2. r \in 0 .. BYTE - 1 /\ 1 * BYTE + r = bl
      BY <3>1
    <3> HIDE DEF r
    <3>3. (1 * BYTE + r) % BYTE = r
      BY <1>1, <3>2, DivisionUnique
    <3>4. bl % BYTE = bl - BYTE
      BY <3>2, <3>3 DEF r
    <3> QED
      BY <2>1, <3>4
  <2>2. CASE ~(bl >= BYTE)
    <3>1. bl \in 0 .. BYTE - 1
      BY <1>1, <1>3, <2>2
    <3> HIDE DEF bl
    <3>2. bl % BYTE = bl
      BY <1>1, <3>1, OwnRemainder
    <3> QED
      BY <2>2, <3>2
  <2> QED
    BY <2>1, <2>2
<1> QED
  BY <1>1, <1>2, <1>3, <1>4


\* A count is below its limit, so that its low byte is all of it.
LEMMA EncodingFacts ==
  ASSUME RunInv, r_pc = "encode"
  PROVE  /\ text \in Seq(Nat) /\ Len(text) \in Nat /\ read \in Nat /\ count \in Nat
         /\ 1 <= read /\ read <= Len(text) /\ 1 <= count /\ count <= BYTE - 1 /\ count <= read
         /\ read - count \in Nat /\ (read - count) + count = read
         /\ count % BYTE = count /\ lastch \in Nat /\ BYTE \in Nat
<1>1. /\ BYTE \in Nat \ {0} /\ text \in Seq(Nat) /\ Len(text) \in Nat
      /\ read \in 1 .. Len(text) /\ count \in 1 .. BYTE - 1 /\ count <= read
      /\ Same(text, read - count, read, lastch)
  BY RunLengthAssumption DEF RunInv, Encoding
<1>2. count \in 0 .. BYTE - 1 /\ read \in read - count + 1 .. read
  BY <1>1
<1>3. count % BYTE = count
  BY <1>1, <1>2, OwnRemainder
<1>4. text[read] = lastch /\ text[read] \in Nat
  BY <1>1, <1>2 DEF Same
<1> QED
  BY <1>1, <1>3, <1>4

\* The pair that is written codes the values up to where the encoder has read.
LEMMA PairWritten ==
  ASSUME RunInv, r_pc = "encode", encoded' = encoded \o <<count % BYTE, lastch>>
  PROVE  \E n \in Nat : CodesUpTo(text, encoded', n, read)
<1>1. /\ text \in Seq(Nat) /\ lastch \in Nat /\ read <= Len(text) /\ count \in 1 .. BYTE - 1
      /\ read - count \in Nat /\ (read - count) + count = read
      /\ encoded' = AndPair(encoded, count, lastch)
  <2>1. /\ text \in Seq(Nat) /\ lastch \in Nat /\ read <= Len(text)
        /\ read - count \in Nat /\ (read - count) + count = read /\ count % BYTE = count
    BY EncodingFacts
  <2>2. count \in 1 .. BYTE - 1
    BY DEF RunInv, Encoding
  <2> QED
    BY <2>1, <2>2 DEF AndPair
<1>2. Same(text, read - count, read, lastch)
  BY DEF RunInv, Encoding
<1>3. PICK n \in Nat : CodesUpTo(text, encoded, n, read - count)
  BY DEF RunInv, Encoding
<1>4. CodesUpTo(text, encoded', n + 1, read)
  BY <1>1, <1>2, <1>3, OneMoreRun
<1>5. n + 1 \in Nat
  OBVIOUS
<1> QED
  BY <1>4, <1>5

\* After the last value the encoder writes the last run, and the decoder begins.
LEMMA EncodeEnds ==
  ASSUME RunInv, R!Encode, read = Len(text)
  PROVE  RunInv'
<1>1. /\ r_pc = "encode" /\ text' \in Texts
      /\ encoded' = encoded \o <<count % BYTE, lastch>> /\ r_pc' = "space"
      /\ UNCHANGED <<text, esi, size, buffer>> /\ esi = 0 /\ size = 0 /\ buffer = <<>>
  BY DEF RunInv, R!Encode, R!Decoder
<1>2. PICK n \in Nat : CodesUpTo(text, encoded', n, Len(text))
  BY <1>1, PairWritten
<1>3. PICK at \in [0 .. n -> 0 .. Len(text)] : Coded(text, encoded', n, at) /\ at[n] = Len(text)
  BY <1>2 DEF CodesUpTo
<1>4. at[0] = 0 /\ 0 \in 0 .. n /\ 2 * 0 = 0
  BY <1>3 DEF Coded
<1>5. Decoding(n, at, 0)'
  BY <1>1, <1>3, <1>4 DEF Decoding
<1>6. \E j \in 0 .. n : Decoding(n, at, j)'
  BY <1>4, <1>5
<1> QED
  BY <1>1, <1>3, <1>6 DEF RunInv

LEMMA EncodeReads ==
  ASSUME RunInv, R!Encode, read # Len(text)
  PROVE  RunInv'
<1>1. /\ r_pc = "encode" /\ r_pc' = "encode" /\ text' \in Texts
      /\ read' = read + 1 /\ R!nextch = text[read + 1]
      /\ UNCHANGED <<text, esi, size, buffer>> /\ esi = 0 /\ size = 0 /\ buffer = <<>>
  BY DEF RunInv, R!Encode, R!Decoder, R!nextch
<1>2. /\ read' \in 1 .. Len(text) /\ BYTE - 1 \in Nat \ {0}
      /\ read \in Nat /\ count \in 1 .. BYTE - 1 /\ count <= read /\ count \in Nat
  <2>1. read \in Nat /\ count \in Nat /\ read <= Len(text) /\ count <= read /\ Len(text) \in Nat
    BY <1>1, EncodingFacts
  <2>2. count \in 1 .. BYTE - 1 /\ BYTE - 1 \in Nat \ {0}
    BY <1>1, RunLengthAssumption DEF RunInv, Encoding
  <2> QED
    BY <1>1, <2>1, <2>2
<1>3. CASE R!RunEnds
  <2>1. /\ encoded' = encoded \o <<count % BYTE, lastch>>
        /\ lastch' = text[read + 1] /\ count' = 1
    BY <1>1, <1>3 DEF R!Encode
  <2>2. read' - count' = read /\ count' \in 1 .. BYTE - 1 /\ count' <= read'
    BY <1>1, <1>2, <2>1
  <2>3. Same(text, read, read + 1, lastch')
    BY <1>2, <2>1 DEF Same
  <2>4. \E n \in Nat : CodesUpTo(text, encoded', n, read)
    BY <1>1, <2>1, PairWritten
  <2>5. Encoding'
    BY <1>1, <1>2, <2>2, <2>3, <2>4 DEF Encoding
  <2> QED
    BY <1>1, <2>5 DEF RunInv
<1>4. CASE ~R!RunEnds
  <2>1. /\ text[read + 1] = lastch /\ count # BYTE - 1
        /\ count' = count + 1 /\ encoded' = encoded /\ lastch' = lastch
    BY <1>1, <1>4 DEF R!RunEnds, R!Encode
  <2>2. read' - count' = read - count /\ count' \in 1 .. BYTE - 1 /\ count' <= read'
    BY <1>1, <1>2, <2>1
  <2>3. Same(text, read - count, read, lastch)
    BY <1>1 DEF RunInv, Encoding
  <2>4. Same(text, read - count, read + 1, lastch)
    BY <1>2, <2>1, <2>3 DEF Same
  <2>5. Encoding'
    BY <1>1, <1>2, <2>1, <2>2, <2>4 DEF Encoding, RunInv
  <2> QED
    BY <1>1, <2>5 DEF RunInv
<1> QED
  BY <1>3, <1>4

LEMMA FirstHolds == RunInv /\ R!First => RunInv'
<1> SUFFICES ASSUME RunInv, R!First PROVE RunInv'
  OBVIOUS
<1> DEFINE none == [j \in 0 .. 0 |-> 0]
<1>1. /\ r_pc = "first" /\ text \in Seq(Nat) /\ text' \in Texts
      /\ esi = 0 /\ size = 0 /\ buffer = <<>> /\ encoded = <<>>
      /\ UNCHANGED <<text, encoded, esi, size, buffer>>
  BY RunLengthAssumption DEF RunInv, R!First, R!Decoder
<1>2. /\ none \in [0 .. 0 -> 0 .. Len(text)] /\ none[0] = 0
      /\ Coded(text, encoded, 0, none)
  <2>1. Len(text) \in Nat
    BY <1>1
  <2>2. none \in [0 .. 0 -> 0 .. Len(text)] /\ none[0] = 0
    BY <2>1
  <2> HIDE DEF none
  <2>3. encoded \in Seq(Nat) /\ Len(encoded) = 2 * 0 /\ 1 .. 0 = {}
    BY <1>1
  <2> QED
    BY <2>2, <2>3 DEF Coded
<1> HIDE DEF none
<1>3. CASE text = <<>>
  <2>1. r_pc' = "space" /\ Len(text) = 0
    BY <1>3 DEF R!First
  <2>2. Decoding(0, none, 0)'
    BY <1>1, <1>2, <2>1 DEF Decoding
  <2>3. \E n \in Nat : \E at \in [0 .. n -> 0 .. Len(text)] : \E j \in 0 .. n : Decoding(n, at, j)'
    <3>1. 0 \in Nat /\ 0 \in 0 .. 0
      OBVIOUS
    <3> QED
      BY <1>2, <2>2, <3>1
  <2> QED
    BY <1>1, <2>1, <2>3 DEF RunInv
<1>4. CASE text # <<>>
  <2>1. /\ r_pc' = "encode" /\ read' = 1 /\ count' = 1 /\ lastch' = text[1]
        /\ Len(text) \in Nat \ {0}
    BY <1>1, <1>4 DEF R!First, R!nextch, RunInv
  <2>2. /\ 1 \in 1 .. Len(text) /\ 1 \in 1 .. BYTE - 1 /\ 1 - 1 = 0 /\ 0 \in Nat
        /\ Same(text, 0, 1, text[1])
    BY <2>1, RunLengthAssumption DEF Same
  <2>3. CodesUpTo(text, encoded, 0, 0)
    BY <1>2 DEF CodesUpTo
  <2>4. Encoding'
    BY <1>1, <2>1, <2>2, <2>3 DEF Encoding
  <2> QED
    BY <1>1, <2>1, <2>4 DEF RunInv
<1> QED
  BY <1>3, <1>4


\* The place of the decoder, and what it knows there.
LEMMA DecoderPlace ==
  ASSUME RunInv, NEW n \in Nat, NEW at \in [0 .. n -> 0 .. Len(text)], NEW j \in 0 .. n,
         Decoding(n, at, j)
  PROVE  /\ text \in Seq(Nat) /\ Len(text) \in Nat /\ encoded \in Seq(Nat) /\ Len(encoded) = 2 * n
         /\ at[0] = 0 /\ at[j] \in 0 .. Len(text) /\ esi = 2 * j
         /\ (esi >= Len(encoded) <=> j = n)
<1>1. /\ text \in Seq(Nat) /\ Len(text) \in Nat /\ encoded \in Seq(Nat) /\ Len(encoded) = 2 * n
      /\ at[0] = 0 /\ at[j] \in 0 .. Len(text) /\ esi = 2 * j
  BY RunLengthAssumption DEF RunInv, Decoding, Coded
<1>2. esi >= Len(encoded) <=> j = n
  BY <1>1
<1> QED
  BY <1>1, <1>2

LEMMA NextRun ==
  ASSUME RunInv, NEW n \in Nat, NEW at \in [0 .. n -> 0 .. Len(text)], NEW j \in 0 .. n,
         Decoding(n, at, j), j # n
  PROVE  /\ j + 1 \in 0 .. n /\ esi + 2 = 2 * (j + 1)
         /\ encoded[esi + 1] \in 1 .. BYTE - 1 /\ encoded[esi + 1] = encoded[2 * j + 1]
         /\ at[j + 1] = at[j] + encoded[esi + 1] /\ at[j + 1] \in 0 .. Len(text)
         /\ Same(text, at[j], at[j + 1], encoded[esi + 2])
<1>1. /\ j + 1 \in 0 .. n /\ j + 1 \in 1 .. n /\ (j + 1) - 1 = j
      /\ 2 * (j + 1) - 1 = esi + 1 /\ 2 * (j + 1) = esi + 2 /\ 2 * j + 1 = esi + 1
  <2>1. esi = 2 * j
    BY DecoderPlace
  <2> QED
    BY <2>1
<1>2. \A k \in 1 .. n : /\ encoded[2 * k - 1] \in 1 .. BYTE - 1
                        /\ at[k] = at[k - 1] + encoded[2 * k - 1]
                        /\ Same(text, at[k - 1], at[k], encoded[2 * k])
  BY DEF Decoding, Coded
<1>3. /\ encoded[2 * (j + 1) - 1] \in 1 .. BYTE - 1
      /\ at[j + 1] = at[(j + 1) - 1] + encoded[2 * (j + 1) - 1]
      /\ Same(text, at[(j + 1) - 1], at[j + 1], encoded[2 * (j + 1)])
  BY <1>1, <1>2
<1>4. at[j + 1] \in 0 .. Len(text)
  BY <1>1
<1> QED
  BY <1>1, <1>3, <1>4

\* The decoder's place after a step.
LEMMA DecoderHolds ==
  ASSUME RunInv, text' = text, r_pc' \in {"space", "pair", "write", "done"},
         NEW n \in Nat, NEW at \in [0 .. n -> 0 .. Len(text)], NEW j \in 0 .. n, Decoding(n, at, j)'
  PROVE  RunInv'
<1>1. \E k \in 0 .. n : Decoding(n, at, k)'
  OBVIOUS
<1>2. Len(text') = Len(text) /\ text' \in Texts
  BY DEF RunInv
<1> QED
  BY <1>1, <1>2 DEF RunInv

LEMMA SpaceHolds ==
  ASSUME RunInv, R!FindSpace,
         NEW n \in Nat, NEW at \in [0 .. n -> 0 .. Len(text)], NEW j \in 0 .. n, Decoding(n, at, j)
  PROVE  RunInv'
<1>1. /\ r_pc = "space" /\ size = at[j] /\ buffer = <<>> /\ Coded(text, encoded, n, at)
      /\ at[n] = Len(text) /\ UNCHANGED <<text, encoded, buffer, left>>
  BY DEF Decoding, R!FindSpace
<1>2. CASE j = n
  <2>1. r_pc' = "pair" /\ esi' = 0 /\ size' = size
    BY <1>1, <1>2, DecoderPlace DEF R!FindSpace
  <2>2. 0 \in 0 .. n /\ 2 * 0 = 0 /\ at[0] = 0 /\ Begins(<<>>, text, 0)
    BY <1>1, DecoderPlace DEF Begins
  <2>3. Decoding(n, at, 0)'
    BY <1>1, <1>2, <2>1, <2>2 DEF Decoding
  <2> QED
    BY <1>1, <2>1, <2>2, <2>3, DecoderHolds
<1>3. CASE j # n
  <2>1. /\ j + 1 \in 0 .. n /\ esi + 2 = 2 * (j + 1)
        /\ encoded[esi + 1] \in 1 .. BYTE - 1
        /\ at[j + 1] = at[j] + encoded[esi + 1] /\ at[j] \in 0 .. Len(text)
        /\ ~(esi >= Len(encoded))
    BY <1>3, DecoderPlace, NextRun
  <2>2. size' = size + encoded[esi + 1] /\ esi' = esi + 2 /\ r_pc' = "space"
    <3> DEFINE c == encoded[esi + 1]
               bl == (size % BYTE) + c
    <3>1. /\ size' = size - (size % BYTE) + (bl % BYTE) + (IF bl >= BYTE THEN BYTE ELSE 0)
          /\ esi' = esi + 2 /\ r_pc' = "space"
      BY <1>1, <2>1 DEF R!FindSpace
    <3>2. size \in Nat /\ c \in 0 .. BYTE - 1
      BY <1>1, <2>1, RunLengthAssumption
    <3> HIDE DEF c
    <3>3. size - (size % BYTE) + (bl % BYTE) + (IF bl >= BYTE THEN BYTE ELSE 0) = size + c
      BY <3>2, AddWithCarry
    <3> QED
      BY <3>1, <3>3 DEF c
  <2>3. Decoding(n, at, j + 1)'
    BY <1>1, <2>1, <2>2 DEF Decoding
  <2> QED
    BY <1>1, <2>1, <2>2, <2>3, DecoderHolds
<1> QED
  BY <1>2, <1>3

LEMMA PairHolds ==
  ASSUME RunInv, R!NextPair,
         NEW n \in Nat, NEW at \in [0 .. n -> 0 .. Len(text)], NEW j \in 0 .. n, Decoding(n, at, j)
  PROVE  RunInv'
<1>1. /\ r_pc = "pair" /\ size = Len(text) /\ Begins(buffer, text, at[j])
      /\ Coded(text, encoded, n, at) /\ esi = 2 * j
      /\ at[n] = Len(text) /\ UNCHANGED <<text, encoded, esi, size, buffer>>
  BY DEF Decoding, R!NextPair
<1>2. CASE j = n
  <2>1. r_pc' = "done"
    BY <1>1, <1>2, DecoderPlace DEF R!NextPair
  <2>2. Decoding(n, at, j)'
    BY <1>1, <1>2, <2>1 DEF Decoding
  <2> QED
    BY <1>1, <2>1, <2>2, DecoderHolds
<1>3. CASE j # n
  <2>1. /\ encoded[esi + 1] \in 1 .. BYTE - 1 /\ encoded[esi + 1] = encoded[2 * j + 1]
        /\ at[j + 1] = at[j] + encoded[esi + 1] /\ at[j] \in 0 .. Len(text)
        /\ ~(esi >= Len(encoded)) /\ BYTE \in Nat
    <3>1. BYTE \in Nat
      BY RunLengthAssumption
    <3> QED
      BY <1>3, <3>1, DecoderPlace, NextRun
  <2>2. r_pc' = "write" /\ left' = encoded[2 * j + 1]
    BY <2>1 DEF R!NextPair
  <2>3. j < n
    BY <1>3
  <2>4. left' \in 1 .. encoded[2 * j + 1] /\ at[j + 1] - left' = at[j]
    <3> DEFINE a == at[j]
               c == encoded[2 * j + 1]
    <3>1. a \in Nat /\ c \in Nat /\ 1 <= c /\ at[j + 1] = a + c /\ left' = c
      BY <2>1, <2>2
    <3> HIDE DEF a, c
    <3>2. left' \in 1 .. c /\ at[j + 1] - left' = a
      BY <3>1
    <3> QED
      BY <3>2 DEF a, c
  <2>5. Decoding(n, at, j)'
    BY <1>1, <2>2, <2>3, <2>4 DEF Decoding
  <2> QED
    BY <1>1, <2>2, <2>5, DecoderHolds
<1> QED
  BY <1>2, <1>3

\* One value more of a run.
LEMMA OneMoreValue ==
  ASSUME NEW tx \in Seq(Nat), NEW b, NEW m \in Nat, Begins(b, tx, m),
         m + 1 <= Len(tx), NEW x \in Nat, tx[m + 1] = x
  PROVE  Begins(Append(b, x), tx, m + 1)
<1>1. b \in Seq(Nat) /\ Len(b) = m /\ \A k \in 1 .. m : b[k] = tx[k]
  BY DEF Begins
<1>2. /\ Append(b, x) \in Seq(Nat) /\ Len(Append(b, x)) = m + 1
      /\ Append(b, x)[m + 1] = x /\ \A k \in 1 .. m : Append(b, x)[k] = b[k]
  BY <1>1
<1>3. \A k \in 1 .. m + 1 : k = m + 1 \/ k \in 1 .. m
  OBVIOUS
<1> QED
  BY <1>1, <1>2, <1>3 DEF Begins

LEMMA WriteHolds ==
  ASSUME RunInv, R!WriteValue,
         NEW n \in Nat, NEW at \in [0 .. n -> 0 .. Len(text)], NEW j \in 0 .. n, Decoding(n, at, j)
  PROVE  RunInv'
<1>1. /\ r_pc = "write" /\ size = Len(text) /\ j < n /\ left \in 1 .. encoded[2 * j + 1]
      /\ Begins(buffer, text, at[j + 1] - left)
      /\ Coded(text, encoded, n, at) /\ esi = 2 * j
      /\ at[n] = Len(text) /\ UNCHANGED <<text, encoded, size>>
      /\ buffer' = Append(buffer, encoded[esi + 2]) /\ left' = (left - 1) % BYTE
      /\ IF left' # 0 THEN UNCHANGED <<esi, r_pc>> ELSE esi' = esi + 2 /\ r_pc' = "pair"
  BY DEF Decoding, R!WriteValue
<1>2. /\ encoded[esi + 1] \in 1 .. BYTE - 1 /\ encoded[esi + 1] = encoded[2 * j + 1]
      /\ at[j + 1] = at[j] + encoded[esi + 1] /\ at[j] \in 0 .. Len(text)
      /\ at[j + 1] \in 0 .. Len(text) /\ BYTE \in Nat \ {0}
      /\ j + 1 \in 0 .. n /\ esi + 2 = 2 * (j + 1)
      /\ text \in Seq(Nat) /\ Len(text) \in Nat
      /\ Same(text, at[j], at[j + 1], encoded[esi + 2])
  <2>1. j # n
    BY <1>1
  <2>2. BYTE \in Nat \ {0}
    BY RunLengthAssumption
  <2>3. at[j] \in 0 .. Len(text) /\ text \in Seq(Nat) /\ Len(text) \in Nat
    BY DecoderPlace
  <2>4. /\ encoded[esi + 1] \in 1 .. BYTE - 1 /\ encoded[esi + 1] = encoded[2 * j + 1]
        /\ at[j + 1] = at[j] + encoded[esi + 1] /\ at[j + 1] \in 0 .. Len(text)
        /\ j + 1 \in 0 .. n /\ esi + 2 = 2 * (j + 1)
        /\ Same(text, at[j], at[j + 1], encoded[esi + 2])
    BY <2>1, NextRun
  <2> QED
    BY <2>2, <2>3, <2>4
<1> DEFINE a == at[j]
           b == at[j + 1]
           c == encoded[esi + 1]
           m == b - left
<1>3. left' = left - 1 /\ left \in Nat /\ 1 <= left /\ left <= c /\ c \in Nat
  <2>1. c \in 1 .. BYTE - 1 /\ BYTE \in Nat \ {0} /\ left \in 1 .. c
    BY <1>1, <1>2
  <2> HIDE DEF c
  <2>2. left - 1 \in 0 .. BYTE - 1
    BY <2>1
  <2>3. (left - 1) % BYTE = left - 1
    BY <2>1, <2>2, OwnRemainder
  <2> QED
    BY <1>1, <2>1, <2>3
<1>4. /\ m \in Nat /\ m + 1 = b - left' /\ m + 1 <= Len(text)
      /\ m + 1 \in a + 1 .. b /\ m + 1 \in 1 .. Len(text)
      /\ left' = 0 => m + 1 = b
      /\ left' # 0 => left' \in 1 .. c
  <2>1. a \in Nat /\ b = a + c /\ b <= Len(text) /\ Len(text) \in Nat
    BY <1>2
  <2> HIDE DEF a, b, c
  <2> QED
    BY <1>3, <2>1
<1>5. Begins(buffer, text, m)
  BY <1>1
<1> HIDE DEF m
<1>6. text[m + 1] = encoded[esi + 2] /\ text[m + 1] \in Nat
  <2>1. \A k \in at[j] + 1 .. at[j + 1] : text[k] = encoded[esi + 2]
    BY <1>2 DEF Same
  <2>2. \A k \in 1 .. Len(text) : text[k] \in Nat
    <3>1. text \in Seq(Nat)
      BY <1>2
    <3> QED
      BY <3>1
  <2> QED
    BY <1>4, <2>1, <2>2
<1>7. Begins(buffer', text, m + 1)
  BY <1>1, <1>2, <1>4, <1>5, <1>6, OneMoreValue
<1>8. CASE left' # 0
  <2>1. r_pc' = "write" /\ esi' = esi
    BY <1>1, <1>8
  <2>2. Decoding(n, at, j)'
    <3>1. left' \in 1 .. encoded[2 * j + 1]
      BY <1>2, <1>4, <1>8
    <3> QED
      BY <1>1, <1>4, <1>7, <1>8, <2>1, <3>1 DEF Decoding
  <2> QED
    BY <1>1, <2>1, <2>2, DecoderHolds
<1>9. CASE left' = 0
  <2>1. r_pc' = "pair" /\ esi' = esi + 2
    BY <1>1, <1>9
  <2>2. Decoding(n, at, j + 1)'
    BY <1>1, <1>2, <1>4, <1>7, <1>9, <2>1 DEF Decoding
  <2> QED
    BY <1>1, <1>2, <2>1, <2>2, DecoderHolds
<1> QED
  BY <1>8, <1>9

LEMMA RunSame == RunInv /\ UNCHANGED rVars => RunInv'
<1> SUFFICES ASSUME RunInv, UNCHANGED rVars PROVE RunInv'
  OBVIOUS
<1>1. UNCHANGED <<text, read, lastch, count, encoded, esi, size, buffer, left, r_pc>>
  BY DEF rVars
<1>2. Encoding => Encoding'
  BY <1>1 DEF Encoding
<1>3. \A n, at, j : Decoding(n, at, j) => Decoding(n, at, j)'
  BY <1>1 DEF Decoding
<1> QED
  BY <1>1, <1>2, <1>3 DEF RunInv

LEMMA RunStep == RunInv /\ R!Next => RunInv'
<1> SUFFICES ASSUME RunInv, R!Next PROVE RunInv'
  OBVIOUS
<1>1. CASE R!First
  BY <1>1, FirstHolds
<1>2. CASE R!Encode
  BY <1>2, EncodeEnds, EncodeReads
<1>3. CASE R!FindSpace \/ R!NextPair \/ R!WriteValue
  <2>1. r_pc \notin {"first", "encode"}
    BY <1>3 DEF R!FindSpace, R!NextPair, R!WriteValue
  <2> PICK n \in Nat : \E at \in [0 .. n -> 0 .. Len(text)] : \E j \in 0 .. n : Decoding(n, at, j)
    BY <2>1 DEF RunInv
  <2> PICK at \in [0 .. n -> 0 .. Len(text)] : \E j \in 0 .. n : Decoding(n, at, j)
    OBVIOUS
  <2>2. PICK j \in 0 .. n : Decoding(n, at, j)
    OBVIOUS
  <2> QED
    BY <1>3, <2>2, SpaceHolds, PairHolds, WriteHolds
<1>4. CASE R!Over
  <2>1. UNCHANGED rVars
    BY <1>4 DEF R!Over, R!vars, rVars
  <2> QED
    BY <2>1, RunSame
<1> QED
  BY <1>1, <1>2, <1>3, <1>4 DEF R!Next

LEMMA RunsGiveBack == RunInv => RoundTrip
<1> SUFFICES ASSUME RunInv, r_pc \in {"pair", "write", "done"} PROVE RoundTrip
  BY DEF RoundTrip, R!RoundTrip
<1> PICK n \in Nat : \E at \in [0 .. n -> 0 .. Len(text)] : \E j \in 0 .. n : Decoding(n, at, j)
  BY DEF RunInv
<1> PICK at \in [0 .. n -> 0 .. Len(text)] : \E j \in 0 .. n : Decoding(n, at, j)
  OBVIOUS
<1>1. PICK j \in 0 .. n : Decoding(n, at, j)
  OBVIOUS
<1>2. text \in Seq(Nat) /\ Len(text) \in Nat
  BY <1>1, DecoderPlace
<1>3. size = Len(text)
  BY <1>1 DEF Decoding
<1>4. Len(buffer) <= size
  <2>1. \E m : Begins(buffer, text, m)
    BY <1>1 DEF Decoding
  <2> QED
    BY <1>3, <2>1 DEF Begins
<1>5. ASSUME r_pc = "done" PROVE buffer = text
  <2>1. Begins(buffer, text, Len(text))
    BY <1>1, <1>5 DEF Decoding
  <2>2. /\ buffer \in Seq(Nat) /\ Len(buffer) = Len(text)
        /\ \A k \in 1 .. Len(text) : buffer[k] = text[k]
    BY <2>1 DEF Begins
  <2>3. /\ buffer = [k \in 1 .. Len(text) |-> buffer[k]]
        /\ text = [k \in 1 .. Len(text) |-> text[k]]
    BY <1>2, <2>2
  <2> QED
    BY <2>2, <2>3
<1> QED
  BY <1>3, <1>4, <1>5 DEF RoundTrip, R!RoundTrip

LEMMA RunSteps == [MCNext]_MCVars => R!Next \/ UNCHANGED rVars
BY DEF MCNext, MCVars, others

\* For any files and any number of values of a byte: the decoder counts the space it
\* needs exactly, writes no further, and gives back what was encoded, runs longer than a
\* count included (week3 rlenc.c, rl_decode.s).
THEOREM DecodingUndoesEncoding == MCSpec => []RoundTrip
<1>1. MCInit => RunInv
  BY RunsInit DEF MCInit
<1>2. RunInv /\ [MCNext]_MCVars => RunInv'
  BY RunSteps, RunSame, RunStep
<1> QED
  BY <1>1, <1>2, RunsGiveBack, PTL DEF MCSpec

-----------------------------------------------------------------------------
(* The prime sieve.                                                        *)

Odd(n) == n % 2 = 1

\* The odd numbers below m that the bit vector is about.
Odds(m) == {n \in 3 .. m - 1 : Odd(n)}

BitOf(bits, n) == bits[S!bit_index_of(n)]

\* d crosses n out: n is a multiple of d and not less than its square.
Crosses(d, n) == Odd(d) /\ d * d <= n /\ S!Divides(d, n)

\* Some number below q does.
Crossed(n, q) == \E d \in 3 .. q - 1 : Crosses(d, n)

Primes(m) == {n \in 3 .. m - 1 : S!Prime(n)}

\* What has been printed, s, when the numbers below q have been looked at.
PrintedBelow(s, m, q) ==
    /\ s \in Seq(Nat)
    /\ S!ToSet(s) = {2} \cup {n \in Primes(m) : n < q}
    /\ \A i \in 1 .. Len(s) - 1 : s[i] < s[i + 1]

\* The multiples of p below c have been crossed out; c is the next one, unless the
\* sum has wrapped round.
Clearing(c) ==
    /\ Odd(c) /\ S!Divides(p, c) /\ p * p <= c
    /\ S!MoreToClear <=> c < max_value
    /\ c < max_value => multiple = c
    /\ \A n \in Odds(max_value) :
         BitOf(v.bits, n) = 0 <=> Crossed(n, p) \/ (Crosses(p, n) /\ n < c)

SieveInv ==
    /\ max_value \in MaxValues
    /\ v.num_bits = max_value \div 2
    /\ \A k \in 0 .. v.num_bits - 1 : k \in DOMAIN v.bits /\ v.bits[k] \in {0, 1}
    /\ p \in Nat /\ p >= 3 /\ Odd(p)
    /\ s_pc \in {"small", "clear", "large", "done"}
    /\ PrintedBelow(printed, max_value, IF s_pc = "clear" THEN p + 1 ELSE p)
    /\ s_pc = "small" => \A n \in Odds(max_value) : BitOf(v.bits, n) = 0 <=> Crossed(n, p)
    /\ s_pc = "clear" => p * p <= max_value /\ \E c \in Nat : Clearing(c)
    /\ s_pc \in {"large", "done"} =>
         \A n \in Odds(max_value) : BitOf(v.bits, n) = 0 <=> ~S!Prime(n)
    /\ s_pc = "done" => p >= max_value

\* Odd numbers are those of the form 2 k + 1, and so are their factors.
LEMMA OddNext ==
  ASSUME NEW n \in Nat, Odd(n)
  PROVE  Odd(n + 2) /\ ~Odd(n + 1)
BY DEF Odd

LEMMA TwiceIsEven ==
  ASSUME NEW k \in Nat
  PROVE  ~Odd(2 * k)
BY DEF Odd

LEMMA Halves ==
  ASSUME NEW n \in Nat, ~Odd(n)
  PROVE  \E k \in Nat : n = 2 * k
<1>1. n = 2 * (n \div 2) /\ n \div 2 \in Nat
  BY DEF Odd
<1> QED
  BY <1>1

LEMMA OddFactors ==
  ASSUME NEW k \in Nat, NEW d \in Nat, Odd(k * d)
  PROVE  Odd(k) /\ Odd(d)
<1>1. ASSUME NEW a \in Nat, NEW b \in Nat, ~Odd(a)
      PROVE  ~Odd(a * b)
  <2>1. PICK h \in Nat : a = 2 * h
    BY <1>1, Halves
  <2>2. a * b = 2 * (h * b) /\ h * b \in Nat
    BY <2>1
  <2> QED
    BY <2>2, TwiceIsEven
<1>2. d * k = k * d
  OBVIOUS
<1> QED
  BY <1>1, <1>2

LEMMA DividesIff ==
  ASSUME NEW n \in Nat, NEW d \in Nat \ {0}
  PROVE  S!Divides(d, n) <=> \E k \in Nat : n = k * d
<1>1. ASSUME S!Divides(d, n) PROVE \E k \in Nat : n = k * d
  <2>1. n % d = 0
    BY <1>1 DEF S!Divides
  <2> DEFINE k == n \div d
  <2>2. k \in Nat /\ n = k * d + (n % d)
    BY Division
  <2> HIDE DEF k
  <2>3. n = k * d
    BY <2>1, <2>2
  <2> QED
    BY <2>2, <2>3
<1>2. ASSUME NEW k \in Nat, n = k * d PROVE S!Divides(d, n)
  <2>1. 0 \in 0 .. d - 1
    OBVIOUS
  <2>2. (k * d + 0) % d = 0
    BY <2>1, DivisionUnique
  <2>3. k * d + 0 = n
    BY <1>2
  <2> QED
    BY <2>2, <2>3 DEF S!Divides
<1> QED
  BY <1>1, <1>2

\* The square of a number above one is larger than it, and squares are ordered.
LEMMA Squares ==
  ASSUME NEW a \in Nat, a >= 3
  PROVE  a * a \in Nat /\ a * a >= 3 * a /\ a * a > a + 2
<1>1. a * a >= 3 * a
  OBVIOUS
<1> QED
  BY <1>1

LEMMA SmallerSquare ==
  ASSUME NEW a \in Nat, NEW b \in Nat, a * a < b * b
  PROVE  a < b
<1>1. ASSUME b <= a PROVE b * b <= a * a
  <2>1. b * b <= a * b
    BY <1>1, Monotone
  <2>2. b * a <= a * a
    BY <1>1, Monotone
  <2>3. a * b = b * a /\ a * b \in Nat /\ a * a \in Nat /\ b * b \in Nat
    OBVIOUS
  <2> QED
    BY <2>1, <2>2, <2>3
<1>2. a * a \in Nat /\ b * b \in Nat
  OBVIOUS
<1> QED
  BY <1>1, <1>2

\* An odd number that is not prime is crossed out by an odd one, not above its root.
LEMMA NotPrimeCrossed ==
  ASSUME NEW n \in Nat, n >= 3, Odd(n), ~S!Prime(n)
  PROVE  \E d \in 3 .. n - 1 : Crosses(d, n)
<1>1. PICK e \in 2 .. n - 1 : S!Divides(e, n)
  BY DEF S!Prime
<1>2. e \in Nat \ {0} /\ e >= 2 /\ e < n
  BY <1>1
<1>3. PICK k \in Nat : n = k * e
  BY <1>1, <1>2, DividesIff
<1>4. Odd(k) /\ Odd(e)
  BY <1>2, <1>3, OddFactors
<1>5. e >= 3
  BY <1>2, <1>4 DEF Odd
<1>6. k >= 3
  <2>1. k # 0 /\ k # 1
    BY <1>2, <1>3
  <2>2. k # 2
    BY <1>4 DEF Odd
  <2> QED
    BY <2>1, <2>2
<1>7. k < n
  <2>1. k * e >= 3 * k
    BY <1>3, <1>5, <1>2, Monotone
  <2> QED
    BY <1>3, <1>6, <2>1
<1>8. CASE e <= k
  <2>1. e * e <= k * e
    BY <1>2, <1>8, Monotone
  <2>2. Crosses(e, n)
    BY <1>1, <1>3, <1>4, <2>1 DEF Crosses
  <2>3. e \in 3 .. n - 1
    BY <1>2, <1>5
  <2> QED
    BY <2>2, <2>3
<1>9. CASE k <= e
  <2>1. k * k <= e * k /\ e * k = n
    BY <1>2, <1>3, <1>6, <1>9, Monotone
  <2>2. S!Divides(k, n)
    BY <1>2, <1>6, <2>1, DividesIff
  <2>3. Crosses(k, n)
    BY <1>4, <2>1, <2>2 DEF Crosses
  <2>4. k \in 3 .. n - 1
    BY <1>6, <1>7
  <2> QED
    BY <2>3, <2>4
<1> QED
  BY <1>2, <1>8, <1>9

LEMMA CrossedNotPrime ==
  ASSUME NEW n \in Nat, NEW d \in Nat, d >= 3, Crosses(d, n)
  PROVE  ~S!Prime(n) /\ d < n
<1>1. d * d <= n /\ S!Divides(d, n) /\ d * d > d + 2 /\ d * d \in Nat
  BY Squares DEF Crosses
<1>2. d < n /\ d \in 2 .. n - 1
  BY <1>1
<1> QED
  BY <1>1, <1>2 DEF S!Prime

\* Once the numbers up to the root of n have crossed, what is left is prime.
LEMMA CrossedAll ==
  ASSUME NEW n \in Nat, n >= 3, Odd(n), NEW q \in Nat,
         \A d \in 3 .. n - 1 : Crosses(d, n) => d < q
  PROVE  Crossed(n, q) <=> ~S!Prime(n)
<1>1. ASSUME Crossed(n, q) PROVE ~S!Prime(n)
  <2>1. PICK d \in 3 .. q - 1 : Crosses(d, n)
    BY <1>1 DEF Crossed
  <2> QED
    BY <2>1, CrossedNotPrime
<1>2. ASSUME ~S!Prime(n) PROVE Crossed(n, q)
  <2>1. PICK d \in 3 .. n - 1 : Crosses(d, n)
    BY <1>2, NotPrimeCrossed
  <2>2. d \in 3 .. q - 1
    BY <2>1
  <2> QED
    BY <2>1, <2>2 DEF Crossed
<1> QED
  BY <1>1, <1>2

LEMMA CrossedBelowRoot ==
  ASSUME NEW n \in Nat, n >= 3, Odd(n), NEW q \in Nat, n < q * q
  PROVE  Crossed(n, q) <=> ~S!Prime(n)
<1>1. ASSUME NEW d \in 3 .. n - 1, Crosses(d, n) PROVE d < q
  <2>1. d \in Nat /\ d * d <= n /\ d * d \in Nat /\ q * q \in Nat
    BY <1>1 DEF Crosses
  <2>2. d * d < q * q
    BY <2>1
  <2> QED
    BY <2>1, <2>2, SmallerSquare
<1> QED
  BY <1>1, CrossedAll

LEMMA CrossedItself ==
  ASSUME NEW n \in Nat, n >= 3, Odd(n)
  PROVE  Crossed(n, n) <=> ~S!Prime(n)
<1>1. \A d \in 3 .. n - 1 : d < n
  OBVIOUS
<1> QED
  BY <1>1, CrossedAll

\* What a number crosses out that is crossed out itself, has been crossed out already.
LEMMA CrossesThrough ==
  ASSUME NEW n \in Nat, NEW m \in Nat, m >= 3, NEW d \in Nat, d >= 3,
         Crosses(d, m), Crosses(m, n)
  PROVE  Crosses(d, n)
<1>1. /\ Odd(d) /\ d * d <= m /\ S!Divides(d, m) /\ d * d \in Nat
      /\ m * m <= n /\ S!Divides(m, n) /\ m * m \in Nat /\ m * m > m
  BY Squares DEF Crosses
<1>2. PICK j \in Nat : m = j * d
  BY <1>1, DividesIff
<1>3. PICK k \in Nat : n = k * m
  BY <1>1, DividesIff
<1>4. n = (k * j) * d /\ k * j \in Nat
  BY <1>2, <1>3
<1>5. S!Divides(d, n)
  <2>1. \E h \in Nat : n = h * d
    BY <1>4
  <2> QED
    BY <2>1, DividesIff
<1> QED
  BY <1>1, <1>5 DEF Crosses

LEMMA CrossedNext ==
  ASSUME NEW n \in Nat, NEW q \in Nat, q >= 3, Odd(q)
  PROVE  Crossed(n, q + 2) <=> Crossed(n, q) \/ Crosses(q, n)
<1>1. ~Odd(q + 1)
  BY OddNext
<1>2. \A d : d \in 3 .. (q + 2) - 1 <=> d \in 3 .. q - 1 \/ d = q \/ d = q + 1
  OBVIOUS
<1>3. ~Crosses(q + 1, n)
  BY <1>1 DEF Crosses
<1> QED
  BY <1>2, <1>3 DEF Crossed

\* A number that is crossed out crosses out nothing new.
LEMMA CrossedSame ==
  ASSUME NEW n \in Nat, NEW q \in Nat, q >= 3, Odd(q), Crossed(q, q)
  PROVE  Crossed(n, q + 2) <=> Crossed(n, q)
<1>1. PICK d \in 3 .. q - 1 : Crosses(d, q)
  BY DEF Crossed
<1>2. Crosses(q, n) => Crosses(d, n)
  BY <1>1, CrossesThrough
<1>3. Crosses(q, n) => Crossed(n, q)
  BY <1>1, <1>2 DEF Crossed
<1> QED
  BY <1>3, CrossedNext

LEMMA EvenNotPrime ==
  ASSUME NEW n \in Nat, n >= 3, ~Odd(n)
  PROVE  ~S!Prime(n)
<1>1. n % 2 = 0 /\ 2 \in 2 .. n - 1
  BY DEF Odd
<1> QED
  BY <1>1 DEF S!Prime, S!Divides

\* From one odd multiple of an odd number to the next it is twice that number.
LEMMA NextMultiple ==
  ASSUME NEW q \in Nat, q >= 3, NEW a \in Nat, NEW b \in Nat,
         Odd(a), Odd(b), S!Divides(q, a), S!Divides(q, b), a < b
  PROVE  b >= a + 2 * q
<1>1. PICK j \in Nat : a = j * q
  BY DividesIff
<1>2. PICK k \in Nat : b = k * q
  BY DividesIff
<1>3. Odd(j) /\ Odd(k)
  BY <1>1, <1>2, OddFactors
<1>4. j < k
  <2>1. k <= j => k * q <= j * q
    BY Monotone
  <2> QED
    BY <1>1, <1>2, <2>1
<1>5. j + 2 <= k
  BY <1>3, <1>4 DEF Odd
<1>6. (j + 2) * q <= k * q
  BY <1>5, Monotone
<1>7. (j + 2) * q = j * q + 2 * q
  OBVIOUS
<1> QED
  BY <1>1, <1>2, <1>6, <1>7

LEMMA MultipleAfter ==
  ASSUME NEW q \in Nat, q >= 3, NEW a \in Nat, Odd(a), S!Divides(q, a)
  PROVE  Odd(a + 2 * q) /\ S!Divides(q, a + 2 * q)
<1>1. PICK j \in Nat : a = j * q
  BY DividesIff
<1>2. a + 2 * q = (j + 2) * q /\ a + 2 * q \in Nat /\ j + 2 \in Nat
  BY <1>1
<1>3. Odd(a + 2 * q)
  BY DEF Odd
<1>4. \E h \in Nat : a + 2 * q = h * q
  BY <1>2
<1>5. S!Divides(q, a + 2 * q)
  <2> DEFINE n == a + 2 * q
  <2>1. n \in Nat /\ \E h \in Nat : n = h * q
    BY <1>2, <1>4
  <2> HIDE DEF n
  <2>2. S!Divides(q, n)
    BY <2>1, DividesIff
  <2> QED
    BY <2>2 DEF n
<1> QED
  BY <1>3, <1>5

\* A limit is an unsigned int, and so is every sum that does not wrap round.
LEMMA LimitFacts ==
  ASSUME max_value \in MaxValues
  PROVE  /\ 2^WIDTH \in Nat \ {0} /\ max_value \in Nat /\ 1 <= max_value /\ max_value < 2^WIDTH
         /\ \A n \in Nat : n < 2^WIDTH => S!UInt(n) = n
         /\ \A n \in Nat : 2^WIDTH <= n /\ n < 2^WIDTH + 2^WIDTH => S!UInt(n) = n - 2^WIDTH
<1> DEFINE w == 2^WIDTH
<1>1. w \in Nat /\ max_value \in 1 .. w - 1
  BY SieveAssumption
<1>2. \A n \in Nat : S!UInt(n) = n % w
  BY DEF S!UInt
<1> HIDE DEF w
<1>3. w \in Nat \ {0} /\ max_value \in Nat /\ 1 <= max_value /\ max_value < w
  BY <1>1
<1>4. ASSUME NEW n \in Nat, n < w PROVE S!UInt(n) = n
  <2>1. n \in 0 .. w - 1
    BY <1>3, <1>4
  <2> QED
    BY <1>2, <1>3, <2>1, OwnRemainder
<1>5. ASSUME NEW n \in Nat, w <= n, n < w + w PROVE S!UInt(n) = n - w
  <2> DEFINE r == n - w
  <2>1. r \in 0 .. w - 1 /\ 1 * w + r = n
    BY <1>3, <1>5
  <2> HIDE DEF r
  <2>2. (1 * w + r) % w = r
    BY <1>3, <2>1, DivisionUnique
  <2>3. n % w = r
    BY <2>1, <2>2
  <2> QED
    BY <1>2, <2>3 DEF r
<1> QED
  BY <1>3, <1>4, <1>5 DEF w

\* An odd number below the limit has a bit of its own.
LEMMA OddHasBit ==
  ASSUME SieveInv, NEW n \in Odds(max_value)
  PROVE  /\ n \in Nat /\ n >= 3 /\ n < max_value /\ Odd(n)
         /\ S!bit_index_of(n) \in 0 .. v.num_bits - 1
         /\ n = 2 * S!bit_index_of(n) + 3
         /\ BitOf(v.bits, n) \in {0, 1}
         /\ S!Held(n) /\ S!get_bitvalue(n) = BitOf(v.bits, n)
<1>1. max_value \in Nat /\ v.num_bits = max_value \div 2
  BY LimitFacts DEF SieveInv
<1>2. n \in Nat /\ n >= 3 /\ n < max_value /\ n % 2 = 1
  BY <1>1 DEF Odds, Odd
<1> DEFINE k == (n - 3) \div 2
           m == max_value \div 2
<1>3. k \in Nat /\ n = 2 * k + 3
  BY <1>2
<1>4. m \in Nat /\ max_value <= 2 * m + 1
  BY <1>1
<1>5. k = S!bit_index_of(n) /\ m = v.num_bits
  BY <1>1 DEF S!bit_index_of
<1> HIDE DEF k, m
<1>6. k \in 0 .. m - 1 /\ k < m
  BY <1>1, <1>2, <1>3, <1>4
<1>7. v.bits[k] \in {0, 1}
  BY <1>5, <1>6 DEF SieveInv
<1>8. S!Held(n) /\ S!get_bitvalue(n) = BitOf(v.bits, n)
  BY <1>2, <1>5, <1>6 DEF S!Held, S!get_bitvalue, BitOf
<1> QED
  BY <1>2, <1>3, <1>5, <1>6, <1>7, <1>8 DEF BitOf, Odd

LEMMA SieveInit == S!Init => SieveInv
<1> SUFFICES ASSUME S!Init PROVE SieveInv
  OBVIOUS
<1>1. /\ max_value \in MaxValues /\ v = S!AllSet(max_value \div 2)
      /\ p = 3 /\ printed = <<2>> /\ s_pc = "small"
  BY DEF S!Init
<1>2. max_value \in Nat
  BY <1>1, LimitFacts
<1> DEFINE m == max_value \div 2
           q == m \div WIDTH
           r == m % WIDTH
           u == q + (IF r # 0 THEN 1 ELSE 0)
<1>3. m \in Nat
  BY <1>2
<1>4. v = [num_bits |-> m, bits |-> [i \in 0 .. u * WIDTH - 1 |-> 1]]
  BY <1>1 DEF S!AllSet
<1> HIDE DEF m
<1>5. WIDTH \in Nat \ {0} /\ q \in Nat /\ r \in 0 .. WIDTH - 1 /\ m = q * WIDTH + r
  BY <1>3, SieveAssumption, Division
<1> HIDE DEF q, r
<1>6. m <= u * WIDTH /\ u * WIDTH \in Nat
  <2>1. CASE r = 0
    BY <1>5, <2>1
  <2>2. CASE r # 0
    <3>1. (q + 1) * WIDTH = q * WIDTH + WIDTH /\ (q + 1) * WIDTH \in Nat /\ u = q + 1
      BY <1>5, <2>2
    <3> QED
      BY <1>5, <3>1
  <2> QED
    BY <2>1, <2>2
<1> HIDE DEF u
<1>7. \A k \in 0 .. m - 1 : k \in DOMAIN v.bits /\ v.bits[k] = 1
  BY <1>3, <1>4, <1>6
<1>8. v.num_bits = max_value \div 2
  BY <1>4 DEF m
<1>9. PrintedBelow(printed, max_value, 3)
  BY <1>1 DEF PrintedBelow, S!ToSet, Primes
<1>10. \A n : ~Crossed(n, 3)
  BY DEF Crossed
<1>11. \A n \in Odds(max_value) : BitOf(v.bits, n) = 1
  <2> TAKE n \in Odds(max_value)
  <2>1. n \in Nat /\ n >= 3 /\ n < max_value /\ n % 2 = 1
    BY <1>2 DEF Odds, Odd
  <2> DEFINE k == (n - 3) \div 2
  <2>2. k \in Nat /\ n = 2 * k + 3
    BY <2>1
  <2>3. max_value <= 2 * m + 1
    BY <1>2 DEF m
  <2>4. BitOf(v.bits, n) = v.bits[k]
    BY DEF BitOf, S!bit_index_of
  <2> HIDE DEF k
  <2>5. k \in 0 .. m - 1
    BY <1>2, <1>3, <2>1, <2>2, <2>3
  <2> QED
    BY <1>7, <2>4, <2>5
<1>12. p \in Nat /\ p >= 3 /\ Odd(p)
  BY <1>1 DEF Odd
<1> QED
  BY <1>1, <1>7, <1>8, <1>9, <1>10, <1>11, <1>12 DEF SieveInv, m

\* Nothing printed: there was no prime between.
LEMMA PrintsNothing ==
  ASSUME NEW s, NEW m \in Nat, NEW q \in Nat, NEW r \in Nat, PrintedBelow(s, m, q), q <= r,
         \A n \in Nat : q <= n /\ n < r => ~S!Prime(n)
  PROVE  PrintedBelow(s, m, r)
<1>1. \A n \in Primes(m) : n \in Nat /\ S!Prime(n)
  BY DEF Primes
<1>2. {n \in Primes(m) : n < q} = {n \in Primes(m) : n < r}
  BY <1>1
<1> QED
  BY <1>2 DEF PrintedBelow, Primes

LEMMA Printed ==
  ASSUME NEW s, NEW m \in Nat, NEW q \in Nat, PrintedBelow(s, m, q), q \in Primes(m)
  PROVE  PrintedBelow(Append(s, q), m, q + 1)
<1> DEFINE u == Append(s, q)
<1>1. /\ s \in Seq(Nat) /\ Len(s) \in Nat /\ q >= 3
      /\ u \in Seq(Nat) /\ Len(u) = Len(s) + 1
      /\ u[Len(s) + 1] = q
      /\ \A i \in 1 .. Len(s) : u[i] = s[i]
  BY DEF PrintedBelow, Primes
<1> HIDE DEF u
<1>2. S!ToSet(u) = S!ToSet(s) \cup {q}
  <2>1. DOMAIN s = 1 .. Len(s) /\ DOMAIN u = 1 .. Len(s) + 1
    BY <1>1
  <2>2. \A x : x \in S!ToSet(u) <=> \E i \in 1 .. Len(s) + 1 : x = u[i]
    BY <2>1 DEF S!ToSet
  <2>3. \A x : x \in S!ToSet(s) <=> \E i \in 1 .. Len(s) : x = s[i]
    BY <2>1 DEF S!ToSet
  <2>4. \A i : i \in 1 .. Len(s) + 1 <=> i \in 1 .. Len(s) \/ i = Len(s) + 1
    BY <1>1
  <2>5. \A x : x \in S!ToSet(u) <=> (\E i \in 1 .. Len(s) : x = u[i]) \/ x = u[Len(s) + 1]
    BY <2>2, <2>4
  <2>6. \A x : (\E i \in 1 .. Len(s) : x = u[i]) <=> x \in S!ToSet(s)
    BY <1>1, <2>3
  <2>7. \A x : x \in S!ToSet(u) <=> x \in S!ToSet(s) \/ x = q
    BY <1>1, <2>5, <2>6
  <2> QED
    BY <2>7
<1>3. {n \in Primes(m) : n < q + 1} = {n \in Primes(m) : n < q} \cup {q}
  <2>1. \A n \in Primes(m) : n \in Nat
    BY DEF Primes
  <2>2. \A n \in Primes(m) : n < q + 1 <=> n < q \/ n = q
    BY <2>1
  <2> QED
    BY <2>2
<1>4. \A i \in 1 .. Len(s) : s[i] < q
  <2> TAKE i \in 1 .. Len(s)
  <2>1. s[i] \in S!ToSet(s)
    BY <1>1 DEF S!ToSet
  <2> QED
    BY <1>1, <2>1 DEF PrintedBelow
<1>5. \A i \in 1 .. Len(u) - 1 : u[i] < u[i + 1]
  <2> TAKE i \in 1 .. Len(u) - 1
  <2>1. CASE i = Len(s)
    BY <1>1, <1>4, <2>1
  <2>2. CASE i # Len(s)
    <3>1. i \in 1 .. Len(s) - 1 /\ i \in 1 .. Len(s) /\ i + 1 \in 1 .. Len(s)
      BY <1>1, <2>2
    <3> QED
      BY <1>1, <3>1 DEF PrintedBelow
  <2> QED
    BY <2>1, <2>2
<1> QED
  BY <1>1, <1>2, <1>3, <1>5 DEF PrintedBelow, Primes, u

\* The first loop, at a number up to the root.
LEMMA SmallFacts ==
  ASSUME SieveInv, s_pc = "small", p * p <= max_value
  PROVE  /\ p \in Odds(max_value) /\ p \in Nat /\ p >= 3 /\ Odd(p)
         /\ max_value \in Nat /\ max_value < 2^WIDTH /\ 2^WIDTH \in Nat
         /\ S!Held(p) /\ S!get_bitvalue(p) = BitOf(v.bits, p) /\ BitOf(v.bits, p) \in {0, 1}
         /\ S!UInt(p + 2) = p + 2
         /\ S!get_bitvalue(p) = 0 <=> Crossed(p, p)
         /\ Crossed(p, p) <=> ~S!Prime(p)
         /\ ~S!Prime(p + 1)
<1>1. /\ p \in Nat /\ p >= 3 /\ Odd(p) /\ max_value \in Nat
      /\ max_value < 2^WIDTH /\ 2^WIDTH \in Nat
  BY LimitFacts DEF SieveInv
<1>2. p * p \in Nat /\ p * p > p + 2
  BY <1>1, Squares
<1>3. p < max_value /\ p + 2 < 2^WIDTH /\ p + 2 \in Nat
  BY <1>1, <1>2
<1>4. p \in Odds(max_value)
  BY <1>1, <1>3 DEF Odds
<1>5. S!UInt(p + 2) = p + 2
  BY <1>3, LimitFacts DEF SieveInv
<1>6. S!Held(p) /\ S!get_bitvalue(p) = BitOf(v.bits, p) /\ BitOf(v.bits, p) \in {0, 1}
  BY <1>4, OddHasBit
<1>7. S!get_bitvalue(p) = 0 <=> Crossed(p, p)
  BY <1>4, <1>6 DEF SieveInv
<1>8. Crossed(p, p) <=> ~S!Prime(p)
  BY <1>1, CrossedItself
<1>9. ~S!Prime(p + 1)
  <2>1. ~Odd(p + 1) /\ p + 1 \in Nat /\ p + 1 >= 3
    BY <1>1, OddNext
  <2> QED
    BY <2>1, EvenNotPrime
<1> QED
  BY <1>1, <1>4, <1>5, <1>6, <1>7, <1>8, <1>9

\* A prime is printed, and its multiples are crossed out from its square on.
LEMMA SmallPrime ==
  ASSUME SieveInv, S!Small, p * p <= max_value, S!get_bitvalue(p) = 1
  PROVE  SieveInv'
<1>1. /\ s_pc = "small" /\ s_pc' = "clear" /\ UNCHANGED <<v, p, max_value>>
      /\ printed' = Append(printed, p) /\ prev' = p /\ multiple' = S!UInt(p * p)
      /\ \A n \in Odds(max_value) : BitOf(v.bits, n) = 0 <=> Crossed(n, p)
      /\ PrintedBelow(printed, max_value, p)
  <2>1. s_pc = "small"
    BY DEF S!Small
  <2>2. S!Held(p)
    BY <2>1, SmallFacts
  <2>3. ~(p * p > max_value)
    <3>1. p * p \in Nat /\ max_value \in Nat
      BY <2>1, SmallFacts
    <3> QED
      BY <3>1
  <2> QED
    BY <2>1, <2>2, <2>3 DEF S!Small, SieveInv
<1>2. /\ p \in Odds(max_value) /\ p \in Nat /\ p >= 3 /\ Odd(p) /\ S!Prime(p)
      /\ max_value \in Nat /\ max_value < 2^WIDTH /\ 2^WIDTH \in Nat
  BY <1>1, SmallFacts
<1>3. p \in Primes(max_value)
  BY <1>2 DEF Odds, Primes
<1>4. PrintedBelow(printed, max_value, p + 1)'
  BY <1>1, <1>2, <1>3, Printed
<1> PICK c : c = p * p
  OBVIOUS
<1>5. c \in Nat /\ c > p + 2 /\ c < 2^WIDTH /\ c <= max_value
  BY <1>2, Squares
<1>6. multiple' = c
  BY <1>1, <1>5, LimitFacts DEF SieveInv
<1>7. Odd(c) /\ S!Divides(p, c)
  <2>1. S!Divides(p, c)
    <3>1. c = p * p /\ p \in Nat \ {0}
      BY <1>2
    <3> QED
      BY <1>5, <3>1, DividesIff
  <2>2. Odd(c)
    <3>1. PICK h \in Nat : p = 2 * h + 1
      <4>1. p = 2 * (p \div 2) + 1 /\ p \div 2 \in Nat
        BY <1>2 DEF Odd
      <4> QED
        BY <4>1
    <3>2. c = 2 * (2 * (h * h) + 2 * h) + 1 /\ h * h \in Nat
      BY <3>1
    <3> DEFINE g == 2 * (h * h) + 2 * h
    <3>3. g \in Nat /\ c = 2 * g + 1
      BY <3>2
    <3> HIDE DEF g
    <3> QED
      BY <3>3 DEF Odd
  <2> QED
    BY <2>1, <2>2
<1>8. \A n : Crosses(p, n) => ~(n < c) \/ n \notin Nat
  BY <1>5 DEF Crosses
<1>9. S!MoreToClear' <=> c < max_value
  BY <1>1, <1>2, <1>5, <1>6 DEF S!MoreToClear
<1>10. \A n \in Odds(max_value) :
         BitOf(v.bits, n) = 0 <=> Crossed(n, p) \/ (Crosses(p, n) /\ n < c)
  BY <1>1, <1>2, <1>8 DEF Odds
<1>11. Clearing(c)'
  <2>1. p * p <= c
    BY <1>5
  <2> QED
    BY <1>1, <1>6, <1>7, <1>9, <1>10, <2>1 DEF Clearing
<1>12. p' * p' <= max_value'
  BY <1>1
<1>13. \E k \in Nat : Clearing(k)'
  BY <1>5, <1>11
<1> QED
  BY <1>1, <1>4, <1>12, <1>13 DEF SieveInv

\* A number that is crossed out is passed over.
LEMMA SmallCrossed ==
  ASSUME SieveInv, S!Small, p * p <= max_value, S!get_bitvalue(p) # 1
  PROVE  SieveInv'
<1>1. s_pc = "small"
  BY DEF S!Small
<1>2. /\ p \in Nat /\ p >= 3 /\ Odd(p) /\ Crossed(p, p) /\ ~S!Prime(p) /\ ~S!Prime(p + 1)
      /\ max_value \in Nat /\ S!UInt(p + 2) = p + 2 /\ S!Held(p)
  BY <1>1, SmallFacts
<1>3. ~(p * p > max_value)
  <2>1. p * p \in Nat
    BY <1>2
  <2> QED
    BY <1>2, <2>1
<1>4. /\ p' = p + 2 /\ s_pc' = "small" /\ UNCHANGED <<v, printed, max_value>>
      /\ PrintedBelow(printed, max_value, p) /\ \A n \in Odds(max_value) : BitOf(v.bits, n) = 0 <=> Crossed(n, p)
  BY <1>1, <1>2, <1>3 DEF S!Small, SieveInv
<1>5. PrintedBelow(printed, max_value, p)'
  <2>1. \A n \in Nat : p <= n /\ n < p + 2 => n = p \/ n = p + 1
    BY <1>2
  <2>2. \A n \in Nat : p <= n /\ n < p + 2 => ~S!Prime(n)
    BY <1>2, <2>1
  <2>3. PrintedBelow(printed, max_value, p + 2)
    BY <1>2, <1>4, <2>2, PrintsNothing
  <2> QED
    BY <1>4, <2>3
<1>6. \A n \in Odds(max_value) : BitOf(v.bits, n) = 0 <=> Crossed(n, p + 2)
  <2>1. \A n \in Odds(max_value) : n \in Nat
    BY <1>2 DEF Odds
  <2> QED
    BY <1>2, <1>4, <2>1, CrossedSame
<1>7. p' \in Nat /\ p' >= 3 /\ Odd(p')
  BY <1>2, <1>4, OddNext
<1> QED
  BY <1>4, <1>5, <1>6, <1>7 DEF SieveInv

\* Beyond the root, what is not crossed out is prime.
LEMMA SmallEnds ==
  ASSUME SieveInv, S!Small, ~(p * p <= max_value)
  PROVE  SieveInv'
<1>1. s_pc = "small" /\ max_value \in Nat /\ p \in Nat /\ p * p \in Nat
  BY LimitFacts DEF S!Small, SieveInv
<1>2. p * p > max_value
  BY <1>1
<1>3. /\ s_pc' = "large" /\ UNCHANGED <<v, p, printed, max_value>>
      /\ PrintedBelow(printed, max_value, p) /\ \A n \in Odds(max_value) : BitOf(v.bits, n) = 0 <=> Crossed(n, p)
  BY <1>1, <1>2 DEF S!Small, SieveInv
<1>4. \A n \in Odds(max_value) : BitOf(v.bits, n) = 0 <=> ~S!Prime(n)
  <2> TAKE n \in Odds(max_value)
  <2>1. n \in Nat /\ n >= 3 /\ Odd(n) /\ n < p * p
    BY <1>1, <1>2 DEF Odds
  <2>2. Crossed(n, p) <=> ~S!Prime(n)
    BY <1>1, <2>1, CrossedBelowRoot
  <2> QED
    BY <1>3, <2>2
<1>5. PrintedBelow(printed, max_value, p)'
  BY <1>3
<1> QED
  BY <1>3, <1>4, <1>5 DEF SieveInv

\* The second loop, at the next odd multiple.
LEMMA ClearFacts ==
  ASSUME SieveInv, s_pc = "clear", NEW c \in Nat, Clearing(c)
  PROVE  /\ p \in Nat /\ p >= 3 /\ Odd(p) /\ max_value \in Nat /\ p * p \in Nat
         /\ max_value < 2^WIDTH /\ 2^WIDTH \in Nat
         /\ p + 2 < 2^WIDTH /\ 2 * p < 2^WIDTH
         /\ c < max_value => c \in Odds(max_value)
<1>1. /\ p \in Nat /\ p >= 3 /\ Odd(p) /\ max_value \in Nat /\ p * p <= max_value
      /\ max_value < 2^WIDTH /\ 2^WIDTH \in Nat
  BY LimitFacts DEF SieveInv
<1>2. p * p \in Nat /\ p * p >= 3 * p
  BY <1>1, Squares
<1>3. c >= 3 /\ Odd(c)
  <2>1. p * p <= c /\ Odd(c)
    BY DEF Clearing
  <2> QED
    BY <1>1, <1>2, <2>1
<1>4. c < max_value => c \in Odds(max_value)
  BY <1>1, <1>3 DEF Odds
<1>5. p + 2 < 2^WIDTH /\ 2 * p < 2^WIDTH
  BY <1>1, <1>2
<1> QED
  BY <1>1, <1>2, <1>4, <1>5

\* When the multiples are at the limit all of them have been crossed out.
LEMMA ClearEnds ==
  ASSUME SieveInv, S!Clear, ~S!MoreToClear
  PROVE  SieveInv'
<1>1. /\ s_pc = "clear" /\ s_pc' = "small" /\ p' = S!UInt(p + 2)
      /\ UNCHANGED <<v, printed, max_value>> /\ PrintedBelow(printed, max_value, p + 1)
  BY DEF S!Clear, SieveInv
<1>2. PICK c \in Nat : Clearing(c)
  BY <1>1 DEF SieveInv
<1>3. /\ p \in Nat /\ p >= 3 /\ Odd(p) /\ max_value \in Nat /\ p + 2 < 2^WIDTH
  BY <1>1, <1>2, ClearFacts
<1>4. p' = p + 2
  BY <1>1, <1>3, LimitFacts DEF SieveInv
<1>5. ~(c < max_value)
  BY <1>2 DEF Clearing
<1>6. \A n \in Odds(max_value) : BitOf(v.bits, n) = 0 <=> Crossed(n, p + 2)
  <2> TAKE n \in Odds(max_value)
  <2>1. n \in Nat /\ n < c
    BY <1>2, <1>3, <1>5 DEF Odds
  <2>2. BitOf(v.bits, n) = 0 <=> Crossed(n, p) \/ (Crosses(p, n) /\ n < c)
    BY <1>2 DEF Clearing
  <2>3. Crossed(n, p + 2) <=> Crossed(n, p) \/ Crosses(p, n)
    BY <1>3, <2>1, CrossedNext
  <2> QED
    BY <2>1, <2>2, <2>3
<1>7. PrintedBelow(printed, max_value, p + 2)
  <2>1. \A n \in Nat : p + 1 <= n /\ n < p + 2 => n = p + 1
    BY <1>3
  <2>2. ~S!Prime(p + 1)
    <3>1. ~Odd(p + 1) /\ p + 1 \in Nat /\ p + 1 >= 3
      BY <1>3, OddNext
    <3> QED
      BY <3>1, EvenNotPrime
  <2>3. p + 1 \in Nat /\ p + 2 \in Nat /\ p + 1 <= p + 2
    BY <1>3
  <2>4. \A n \in Nat : p + 1 <= n /\ n < p + 2 => ~S!Prime(n)
    BY <2>1, <2>2
  <2> QED
    BY <1>1, <1>3, <2>3, <2>4, PrintsNothing
<1>8. p' \in Nat /\ p' >= 3 /\ Odd(p')
  BY <1>3, <1>4, OddNext
<1> QED
  BY <1>1, <1>4, <1>6, <1>7, <1>8 DEF SieveInv

\* A multiple is crossed out, and the next one is as far on or beyond all limits.
LEMMA ClearStep ==
  ASSUME SieveInv, S!Clear, S!MoreToClear
  PROVE  SieveInv'
<1>1. s_pc = "clear"
  BY DEF S!Clear
<1>2. PICK c \in Nat : Clearing(c)
  BY <1>1 DEF SieveInv
<1>3. c < max_value /\ multiple = c /\ Odd(c) /\ S!Divides(p, c) /\ p * p <= c
  BY <1>2 DEF Clearing
<1>4. /\ p \in Nat /\ p >= 3 /\ Odd(p) /\ max_value \in Nat /\ p * p \in Nat
      /\ max_value < 2^WIDTH /\ 2^WIDTH \in Nat /\ 2 * p < 2^WIDTH /\ c \in Odds(max_value)
  BY <1>1, <1>2, <1>3, ClearFacts
<1> DEFINE k == S!bit_index_of(c)
<1>5. /\ s_pc' = "clear" /\ UNCHANGED <<p, printed, max_value>>
      /\ v' = [v EXCEPT !.bits[k] = 0] /\ prev' = c
      /\ multiple' = S!UInt(c + S!UInt(2 * p))
      /\ PrintedBelow(printed, max_value, p + 1)
  <2>1. S!Held(multiple)
    BY <1>3, <1>4, OddHasBit
  <2> QED
    BY <1>1, <1>3, <2>1 DEF S!Clear, SieveInv
<1>6. PICK e \in Nat : e = c + 2 * p
  BY <1>4
<1>7. multiple' = S!UInt(e)
  <2>1. S!UInt(2 * p) = 2 * p
    BY <1>4, LimitFacts DEF SieveInv
  <2> QED
    BY <1>5, <1>6, <2>1
<1>8. /\ S!MoreToClear' <=> e < max_value
      /\ e < max_value => multiple' = e
  <2>1. prev' = c /\ max_value' = max_value
    BY <1>5
  <2>2. CASE e < 2^WIDTH
    <3>1. multiple' = e /\ e > c
      BY <1>4, <1>6, <1>7, <2>2, LimitFacts DEF SieveInv
    <3> QED
      BY <2>1, <3>1 DEF S!MoreToClear
  <2>3. CASE ~(e < 2^WIDTH)
    <3>1. e < 2^WIDTH + 2^WIDTH /\ 2^WIDTH <= e
      BY <1>3, <1>4, <1>6, <2>3
    <3>2. multiple' = e - 2^WIDTH
      BY <1>7, <3>1, LimitFacts DEF SieveInv
    <3>3. multiple' < c /\ ~(e < max_value) /\ multiple' \in Int
      BY <1>4, <1>6, <3>1, <3>2
    <3> QED
      BY <2>1, <3>3 DEF S!MoreToClear
  <2> QED
    BY <2>2, <2>3
<1>9. Odd(e) /\ S!Divides(p, e) /\ p * p <= e
  <2>1. Odd(e) /\ S!Divides(p, e)
    BY <1>3, <1>4, <1>6, MultipleAfter
  <2> QED
    BY <1>3, <1>4, <1>6, <2>1
<1>10. /\ k \in 0 .. v.num_bits - 1
       /\ \A n \in Odds(max_value) : S!bit_index_of(n) = k <=> n = c
  <2>1. k \in 0 .. v.num_bits - 1 /\ c = 2 * k + 3
    BY <1>4, OddHasBit
  <2>2. \A n \in Odds(max_value) : n = 2 * S!bit_index_of(n) + 3
    BY OddHasBit
  <2> QED
    BY <2>1, <2>2
<1> HIDE DEF k
<1>11. /\ v'.num_bits = v.num_bits
       /\ \A j \in 0 .. v.num_bits - 1 : j \in DOMAIN v'.bits /\ v'.bits[j] \in {0, 1}
       /\ \A j \in DOMAIN v.bits : v'.bits[j] = IF j = k THEN 0 ELSE v.bits[j]
  <2>1. /\ v'.num_bits = v.num_bits /\ DOMAIN v'.bits = DOMAIN v.bits
        /\ \A j \in DOMAIN v.bits : v'.bits[j] = IF j = k THEN 0 ELSE v.bits[j]
    BY <1>5
  <2> QED
    BY <2>1 DEF SieveInv
<1>12. \A n \in Odds(max_value) :
          BitOf(v'.bits, n) = 0 <=> Crossed(n, p) \/ (Crosses(p, n) /\ n < e)
  <2> TAKE n \in Odds(max_value)
  <2>1. S!bit_index_of(n) \in DOMAIN v.bits
    BY OddHasBit DEF SieveInv
  <2>2. BitOf(v'.bits, n) = IF n = c THEN 0 ELSE BitOf(v.bits, n)
    BY <1>10, <1>11, <2>1 DEF BitOf
  <2>3. BitOf(v.bits, n) = 0 <=> Crossed(n, p) \/ (Crosses(p, n) /\ n < c)
    BY <1>2 DEF Clearing
  <2>4. n \in Nat /\ Odd(n)
    BY <1>4 DEF Odds
  <2>5. CASE n = c
    <3>1. Crosses(p, n) /\ n < e
      BY <1>3, <1>4, <1>6, <2>5 DEF Crosses
    <3> QED
      BY <2>2, <2>5, <3>1
  <2>6. CASE n # c
    <3>1. Crosses(p, n) /\ n < e => n < c
      <4>1. ASSUME Crosses(p, n), n < e, ~(n < c) PROVE FALSE
        <5>1. S!Divides(p, n) /\ c < n
          BY <2>4, <2>6, <4>1 DEF Crosses
        <5>2. n >= c + 2 * p
          BY <1>3, <1>4, <2>4, <5>1, NextMultiple
        <5> QED
          BY <1>4, <1>6, <2>4, <4>1, <5>2
      <4> QED
        BY <4>1
    <3>2. n < c => n < e
      BY <1>4, <1>6, <2>4
    <3> QED
      BY <2>2, <2>3, <2>6, <3>1, <3>2
  <2> QED
    BY <2>5, <2>6
<1>13. Clearing(e)'
  BY <1>5, <1>8, <1>9, <1>12 DEF Clearing
<1>14. \E d \in Nat : Clearing(d)'
  BY <1>13
<1>15. /\ max_value' \in MaxValues
       /\ v'.num_bits = max_value' \div 2
       /\ \A j \in 0 .. v'.num_bits - 1 : j \in DOMAIN v'.bits /\ v'.bits[j] \in {0, 1}
  <2>1. max_value \in MaxValues /\ v.num_bits = max_value \div 2
    BY DEF SieveInv
  <2> QED
    BY <1>5, <1>11, <2>1
<1>16. p' \in Nat /\ p' >= 3 /\ Odd(p') /\ p' * p' <= max_value'
  <2>1. p * p <= max_value
    BY <1>1 DEF SieveInv
  <2> QED
    BY <1>4, <1>5, <2>1
<1>17. PrintedBelow(printed', max_value', p' + 1)
  BY <1>5
<1> QED
  BY <1>5, <1>14, <1>15, <1>16, <1>17 DEF SieveInv

\* The last loop only prints.
LEMMA LargeHolds ==
  ASSUME SieveInv, S!Large
  PROVE  SieveInv'
<1>1. /\ s_pc = "large" /\ p \in Nat /\ p >= 3 /\ Odd(p) /\ max_value \in Nat
      /\ max_value < 2^WIDTH /\ 2^WIDTH \in Nat
      /\ PrintedBelow(printed, max_value, p)
      /\ \A n \in Odds(max_value) : BitOf(v.bits, n) = 0 <=> ~S!Prime(n)
      /\ UNCHANGED <<v, max_value>>
  <2>1. s_pc = "large" /\ UNCHANGED max_value
    BY DEF S!Large
  <2>2. /\ max_value \in MaxValues /\ p \in Nat /\ p >= 3 /\ Odd(p)
        /\ PrintedBelow(printed, max_value, p)
        /\ \A n \in Odds(max_value) : BitOf(v.bits, n) = 0 <=> ~S!Prime(n)
    BY <2>1 DEF SieveInv
  <2>3. max_value \in Nat /\ max_value < 2^WIDTH /\ 2^WIDTH \in Nat
    BY <2>2, LimitFacts
  <2>4. v' = v
    <3>1. CASE p >= max_value
      BY <3>1 DEF S!Large
    <3>2. CASE ~(p >= max_value)
      <4>1. S!Held(p)
        BY <2>2, <2>3, <3>2, OddHasBit DEF Odds
      <4> QED
        BY <3>2, <4>1 DEF S!Large
    <3> QED
      BY <3>1, <3>2
  <2> QED
    BY <2>1, <2>2, <2>3, <2>4
<1>2. CASE p >= max_value
  <2>1. s_pc' = "done" /\ UNCHANGED <<p, printed>>
    BY <1>1, <1>2 DEF S!Large
  <2> QED
    BY <1>1, <1>2, <2>1 DEF SieveInv
<1>3. CASE ~(p >= max_value)
  <2>1. p \in Odds(max_value) /\ p < max_value
    BY <1>1, <1>3 DEF Odds
  <2>2. S!Held(p) /\ S!get_bitvalue(p) = BitOf(v.bits, p) /\ BitOf(v.bits, p) \in {0, 1}
    BY <2>1, OddHasBit
  <2>3. /\ s_pc' = "large" /\ p' = S!UInt(p + 2)
        /\ printed' = IF S!get_bitvalue(p) = 1 THEN Append(printed, p) ELSE printed
    BY <1>1, <1>3, <2>2 DEF S!Large
  <2>4. p + 2 < 2^WIDTH
    <3>1. 2^WIDTH % 2 = 0
      BY SieveAssumption
    <3> DEFINE w == 2^WIDTH
    <3>2. w \in Nat /\ w % 2 = 0 /\ p \in Nat /\ p % 2 = 1 /\ p + 1 < w
      BY <1>1, <2>1, <3>1 DEF Odd
    <3> HIDE DEF w
    <3>3. p + 2 < w
      BY <3>2
    <3> QED
      BY <3>3 DEF w
  <2>5. p' = p + 2
    BY <1>1, <2>3, <2>4, LimitFacts DEF SieveInv
  <2>6. ~S!Prime(p + 1)
    <3>1. ~Odd(p + 1) /\ p + 1 \in Nat /\ p + 1 >= 3
      BY <1>1, OddNext
    <3> QED
      BY <3>1, EvenNotPrime
  <2>7. p + 1 \in Nat /\ p + 2 \in Nat
    BY <1>1
  <2>8. PrintedBelow(printed', max_value, p + 2)
    <3>1. CASE S!get_bitvalue(p) = 1
      <4>1. S!Prime(p) /\ p \in Primes(max_value)
        <5>1. BitOf(v.bits, p) # 0
          BY <2>2, <3>1
        <5>2. S!Prime(p)
          BY <1>1, <2>1, <5>1
        <5> QED
          BY <2>1, <5>2 DEF Odds, Primes
      <4>2. PrintedBelow(printed', max_value, p + 1)
        BY <1>1, <2>3, <3>1, <4>1, Printed
      <4>3. \A n \in Nat : p + 1 <= n /\ n < p + 2 => n = p + 1
        BY <1>1
      <4>4. \A n \in Nat : p + 1 <= n /\ n < p + 2 => ~S!Prime(n)
        BY <2>6, <4>3
      <4>5. p + 1 <= p + 2
        BY <1>1
      <4> QED
        BY <1>1, <2>7, <4>2, <4>4, <4>5, PrintsNothing
    <3>2. CASE S!get_bitvalue(p) # 1
      <4>1. ~S!Prime(p) /\ printed' = printed
        BY <1>1, <2>1, <2>2, <2>3, <3>2
      <4>2. \A n \in Nat : p <= n /\ n < p + 2 => n = p \/ n = p + 1
        BY <1>1
      <4>3. \A n \in Nat : p <= n /\ n < p + 2 => ~S!Prime(n)
        BY <2>6, <4>1, <4>2
      <4>4. p <= p + 2
        BY <1>1
      <4> QED
        BY <1>1, <2>7, <4>1, <4>3, <4>4, PrintsNothing
    <3> QED
      BY <3>1, <3>2
  <2>9. p' \in Nat /\ p' >= 3 /\ Odd(p')
    BY <1>1, <2>5, OddNext
  <2> QED
    BY <1>1, <2>3, <2>5, <2>8, <2>9 DEF SieveInv
<1> QED
  BY <1>2, <1>3

LEMMA SieveSame == SieveInv /\ UNCHANGED sVars => SieveInv'
<1> SUFFICES ASSUME SieveInv, UNCHANGED sVars PROVE SieveInv'
  OBVIOUS
<1>1. UNCHANGED <<max_value, v, p, prev, multiple, printed, s_pc>>
  BY DEF sVars
<1>2. \A c : Clearing(c) => Clearing(c)'
  BY <1>1 DEF Clearing, S!MoreToClear
<1> QED
  BY <1>1, <1>2 DEF SieveInv

LEMMA SieveStep == SieveInv /\ S!Next => SieveInv'
<1> SUFFICES ASSUME SieveInv, S!Next PROVE SieveInv'
  OBVIOUS
<1>1. CASE S!Small
  BY <1>1, SmallPrime, SmallCrossed, SmallEnds
<1>2. CASE S!Clear
  BY <1>2, ClearEnds, ClearStep
<1>3. CASE S!Large
  BY <1>3, LargeHolds
<1>4. CASE S!Over
  <2>1. UNCHANGED sVars
    BY <1>4 DEF S!Over, S!vars, sVars
  <2> QED
    BY <2>1, SieveSame
<1> QED
  BY <1>1, <1>2, <1>3, <1>4 DEF S!Next

LEMMA SievePrints == SieveInv => PrimesExact
<1> SUFFICES ASSUME SieveInv PROVE PrimesExact
  OBVIOUS
<1>1. s_pc # "failed"
  BY DEF SieveInv
<1>2. ASSUME s_pc = "done"
      PROVE  /\ S!ToSet(printed) = {2} \cup Primes(max_value)
             /\ \A i \in 1 .. Len(printed) - 1 : printed[i] < printed[i + 1]
  <2>1. p \in Nat /\ p >= max_value /\ max_value \in Nat
    BY <1>2, LimitFacts DEF SieveInv
  <2>2. {n \in Primes(max_value) : n < p} = Primes(max_value)
    BY <2>1 DEF Primes
  <2> QED
    BY <1>2, <2>2 DEF SieveInv, PrintedBelow
<1> QED
  BY <1>1, <1>2 DEF PrimesExact, S!PrimesExact, Primes

LEMMA SieveSteps == [MCNext]_MCVars => S!Next \/ UNCHANGED sVars
BY DEF MCNext, MCVars, others

\* For every limit that an unsigned int of any width holds: no assertion of the bit vector
\* fails, no wrapped sum is taken for a multiple, and at the end exactly 2 and the odd primes
\* below the limit have been printed, in order (finWeek psieve.c).
THEOREM SieveFindsPrimes == MCSpec => []PrimesExact
<1>1. MCInit => SieveInv
  BY SieveInit DEF MCInit
<1>2. SieveInv /\ [MCNext]_MCVars => SieveInv'
  BY SieveSteps, SieveSame, SieveStep
<1> QED
  BY <1>1, <1>2, SievePrints, PTL DEF MCSpec

-----------------------------------------------------------------------------
(* The cooperative threads.  Their queues are those of ThreadQueues, and Q *)
(* are the lemmas about them.                                              *)

Q == INSTANCE ThreadQueuesProofs

LEMMA SameFinite ==
  /\ \A S1 : Q!Cardinality(S1) = T!Cardinality(S1)
  /\ \A S1 : Q!IsFiniteSet(S1) = IsFiniteSet(S1)
BY DEF Q!Cardinality, T!Cardinality, Q!IsFiniteSet, T!IsFiniteSet, IsFiniteSet

LEMMA QueuesAssumed == Q!QueueAssumption
BY ThreadsAssumption, SameFinite DEF Q!QueueAssumption

\* The operations on the queues are the same functions in both instances.
LEMMA SameQueues ==
  ASSUME NEW K, NEW q, NEW u
  PROVE  /\ T!queue_empty(K, q) = Q!queue_empty(K, q)
         /\ T!queue_append(K, q, u) = Q!queue_append(K, q, u)
         /\ T!queue_take(K, q) = Q!queue_take(K, q)
         /\ T!take_faults(K, q) = Q!take_faults(K, q)
         /\ T!queue_remove(K, q, u) = Q!queue_remove(K, q, u)
         /\ T!Chain(K, q) = Q!Chain(K, q)
         /\ T!NoLinks = Q!NoLinks
BY SameFinite
DEF T!queue_empty, Q!queue_empty, T!queue_append, Q!queue_append, T!queue_take, Q!queue_take,
    T!take_faults, Q!take_faults, T!queue_remove, Q!queue_remove, T!Chain, Q!Chain,
    T!NoLinks, Q!NoLinks

CoopState == {"Free", "Ready", "Running", "Blocked"}

\* The threads that are Ready, and those that are Blocked, are on their queues, once
\* and in lists that lead from head to tail and back.
CoopInv ==
    /\ state \in [Thread -> CoopState]
    /\ t_status \in {"main", "run", "completed", "deadlocked"}
    /\ t_status = "main" => current = NULL /\ \A u \in Thread : state[u] # "Running"
    /\ t_status = "run" => current \in Thread /\ \A u \in Thread : state[u] = "Running" <=> u = current
    /\ t_status \in {"main", "run"} => Q!Hold(links, state)

Waiting(K) == Q!Chain(K, "ready")

Asleep(st) == {u \in Thread : st[u] = "Blocked"}

\* The ready queue is made of the threads that are Ready.
LEMMA CoopReady ==
  ASSUME NEW K, NEW st, Q!Hold(K, st)
  PROVE  T!Promise!ToSet(Waiting(K)) = {u \in Thread : st[u] = "Ready"}
<1>1. PICK r1, b1 \in Seq(Thread) :
        Q!Lists(K, r1, b1) /\ Q!In(r1) = {u \in Thread : st[u] = "Ready"}
  BY DEF Q!Hold
<1>2. Waiting(K) = r1
  BY <1>1, Q!ListsFacts, QueuesAssumed DEF Waiting
<1> QED
  BY <1>1, <1>2 DEF T!Promise!ToSet, Q!In

LEMMA CoopInit == T!Init => CoopInv /\ T!Promise!Init
<1> SUFFICES ASSUME T!Init PROVE CoopInv /\ T!Promise!Init
  OBVIOUS
<1>1. /\ links = Q!NoLinks /\ state = [u \in Thread |-> "Free"] /\ current = NULL /\ t_status = "main"
  BY SameQueues DEF T!Init
<1>2. Q!Lists(links, <<>>, <<>>) /\ Q!In(<<>>) = {}
  BY <1>1, Q!NoLists, QueuesAssumed
<1>3. Q!Hold(links, state)
  <2>1. /\ {u \in Thread : state[u] = "Ready"} = {} /\ {u \in Thread : state[u] = "Blocked"} = {}
        /\ {u \in Thread : state[u] = "Unborn"} = {} /\ <<>> \in Seq(Thread)
    BY <1>1
  <2>2. Q!Nulled(links, {})
    BY DEF Q!Nulled
  <2> QED
    BY <1>2, <2>1, <2>2 DEF Q!Hold
<1>4. T!Chain(links, "ready") = <<>>
  BY <1>2, SameQueues, Q!ListsFacts, QueuesAssumed
<1>5. CoopInv
  BY <1>1, <1>3 DEF CoopInv, CoopState
<1> QED
  BY <1>1, <1>4, <1>5 DEF T!Promise!Init

\* The scheduler gives the first of the ready threads its turn.
LEMMA CoopDispatch ==
  ASSUME NEW K, NEW st \in [Thread -> CoopState], Q!Hold(K, st),
         \A u \in Thread : st[u] # "Running", T!Dispatch(K, st)
  PROVE  /\ CoopInv' /\ Asleep(state') = Asleep(st)
         /\ Waiting(K) = <<>> =>
              /\ t_status' = IF Asleep(st) = {} THEN "completed" ELSE "deadlocked"
              /\ Waiting(links') = <<>> /\ current' = NULL
         /\ Waiting(K) # <<>> =>
              /\ t_status' = "run" /\ current' = Head(Waiting(K))
              /\ Waiting(links') = Tail(Waiting(K))
<1> DEFINE h == K.head["ready"]
           M == Q!queue_take(K, "ready")
<1>1. "Running" \in CoopState
  BY DEF CoopState
<1>2. /\ ~Q!take_faults(K, "ready")
      /\ h = NULL <=> Waiting(K) = <<>>
      /\ h = NULL => M = K /\ \A u \in Thread : st[u] # "Ready"
      /\ h # NULL => /\ h \in Thread /\ st[h] = "Ready"
                     /\ Q!Hold(M, [st EXCEPT ![h] = "Running"])
                     /\ h = Head(Waiting(K))
                     /\ Waiting(M) = Tail(Waiting(K))
      /\ Q!queue_empty(K, "blocked") <=> \A u \in Thread : st[u] # "Blocked"
  BY <1>1, Q!HoldTake, QueuesAssumed DEF Waiting
<1>3. /\ links' = M
      /\ h = NULL => /\ t_status' = IF Q!queue_empty(K, "blocked") THEN "completed" ELSE "deadlocked"
                     /\ current' = NULL /\ state' = st
      /\ h # NULL => t_status' = "run" /\ current' = h /\ state' = [st EXCEPT ![h] = "Running"]
  BY <1>2, SameQueues DEF T!Dispatch
<1> HIDE DEF h, M
<1>5. CASE h = NULL
  <2>1. CoopInv'
    BY <1>3, <1>5 DEF CoopInv
  <2>2. Waiting(links') = <<>> /\ (Asleep(st) = {} <=> Q!queue_empty(K, "blocked"))
    BY <1>2, <1>3, <1>5 DEF Asleep
  <2> QED
    BY <1>2, <1>3, <1>5, <2>1, <2>2
<1>6. CASE h # NULL
  <2>1. CoopInv'
    BY <1>2, <1>3, <1>6 DEF CoopInv, CoopState
  <2>2. Asleep(state') = Asleep(st)
    BY <1>2, <1>3, <1>6 DEF Asleep
  <2> QED
    BY <1>2, <1>3, <1>6, <2>1, <2>2
<1> QED
  BY <1>5, <1>6

\* Every step of the threads is one of the abstract specification, or what follows
\* the end of the process.
LEMMA CoopStep ==
  ASSUME CoopInv, T!Next
  PROVE  CoopInv' /\ [T!Promise!Next]_(T!Promise!vars)
<1> DEFINE ready == T!Chain(links, "ready")
           blocked == {u \in Thread : state[u] = "Blocked"}
           \* of Turn, when the running thread is Ready again, Blocked or Finished
           waiting(how) == IF how = "Running" THEN Append(ready, current) ELSE ready
           asleep(how) == IF how = "Blocked" THEN blocked \cup {current} ELSE blocked
           taken(wait, sleep) ==
             /\ Asleep(state') = sleep
             /\ wait = <<>> =>
                  /\ t_status' = IF sleep = {} THEN "completed" ELSE "deadlocked"
                  /\ Waiting(links') = <<>> /\ current' = NULL
             /\ wait # <<>> =>
                  /\ t_status' = "run" /\ current' = Head(wait)
                  /\ Waiting(links') = Tail(wait)
<1>1. /\ state \in [Thread -> CoopState] /\ NULL \notin Thread
      /\ "Ready" \in CoopState /\ "Blocked" \in CoopState /\ "Running" \in CoopState /\ "Free" \in CoopState
  BY ThreadsAssumption DEF CoopInv, CoopState
<1>2. ready = Waiting(links) /\ blocked = Asleep(state) /\ T!Chain(links, "ready")' = Waiting(links')
  BY SameQueues DEF Waiting, Asleep
<1>3. CASE T!sthread_create
  <2>1. PICK u \in Thread : /\ state[u] = "Free" /\ state' = [state EXCEPT ![u] = "Ready"]
                           /\ links' = Q!queue_append(links, "ready", u)
    BY <1>3, SameQueues DEF T!sthread_create, T!queue_add
  <2>2. t_status \in {"main", "run"} /\ current' = current /\ t_status' = t_status
    BY <1>3 DEF T!sthread_create
  <2>3. Q!Hold(links, state)
    BY <2>2 DEF CoopInv
  <2>4. /\ Q!Hold(links', state') /\ Waiting(links) \in Seq(Thread)
        /\ Waiting(links') = Append(Waiting(links), u)
    BY <1>1, <2>1, <2>3, Q!HoldAppend, QueuesAssumed DEF Waiting
  <2>5. CoopInv'
    BY <1>1, <2>1, <2>2, <2>4 DEF CoopInv
  <2>6. u \notin T!Promise!Alive
    <3>1. T!Promise!ToSet(ready) = {x \in Thread : state[x] = "Ready"}
      BY <1>2, <2>3, CoopReady
    <3> QED
      BY <1>1, <2>1, <2>2, <3>1 DEF T!Promise!Alive, CoopInv
  <2>7. T!Promise!Create(u)
    BY <1>1, <1>2, <2>1, <2>2, <2>4, <2>6 DEF T!Promise!Create
  <2> QED
    BY <2>5, <2>7 DEF T!Promise!Next
<1>4. CASE T!sthread_start
  <2>1. t_status = "main" /\ T!Dispatch(links, state)
    BY <1>4 DEF T!sthread_start
  <2>2. Q!Hold(links, state) /\ \A u \in Thread : state[u] # "Running"
    BY <2>1 DEF CoopInv
  <2>3. CoopInv' /\ taken(Waiting(links), Asleep(state))
    BY <1>1, <2>1, <2>2, CoopDispatch
  <2> QED
    BY <1>2, <2>1, <2>3 DEF T!Promise!Next, T!Promise!Start, T!Promise!Turn, Asleep
<1>5. ASSUME T!Running, NEW how \in {"Running", "Blocked", "Finished"}, T!__sthread_schedule(how)
      PROVE  /\ CoopInv'
             /\ taken(waiting(how), asleep(how))
  <2>1. /\ current \in Thread /\ Q!Hold(links, state)
        /\ \A u \in Thread : state[u] = "Running" <=> u = current
    BY <1>5 DEF CoopInv, T!Running
  <2>2. CASE how = "Finished"
    <3> DEFINE st == [state EXCEPT ![current] = "Free"]
    <3>1. T!Dispatch(links, st)
      BY <1>5, <2>2 DEF T!__sthread_schedule
    <3>2. st \in [Thread -> CoopState] /\ \A u \in Thread : st[u] # "Running"
      BY <1>1, <2>1
    <3>3. \A u \in Thread : /\ st[u] = "Ready" <=> state[u] = "Ready"
                            /\ st[u] = "Blocked" <=> state[u] = "Blocked"
                            /\ st[u] = "Unborn" => state[u] = "Unborn"
      BY <1>1, <2>1
    <3>4. Asleep(st) = blocked
      BY <3>3 DEF Asleep
    <3> HIDE DEF st
    <3>5. Q!Hold(links, st)
      BY <2>1, <3>3, Q!HoldAlike, QueuesAssumed
    <3>6. CoopInv' /\ taken(Waiting(links), Asleep(st))
      BY <3>1, <3>2, <3>5, CoopDispatch
    <3> QED
      BY <1>2, <2>2, <3>4, <3>6
  <2>3. CASE how # "Finished"
    <3> DEFINE saved == IF how = "Running" THEN "Ready" ELSE how
               q == IF saved = "Ready" THEN "ready" ELSE "blocked"
               st == [state EXCEPT ![current] = saved]
               K == Q!queue_append(links, q, current)
    <3>1. T!Dispatch(K, st)
      BY <1>5, <2>3, SameQueues DEF T!__sthread_schedule, T!queue_add
    <3>2. st \in [Thread -> CoopState] /\ \A u \in Thread : st[u] # "Running"
      BY <1>1, <2>1, <2>3
    <3>3. /\ Q!Hold(K, st)
          /\ Waiting(K) = IF how = "Running" THEN Append(ready, current) ELSE ready
      BY <1>1, <1>2, <2>1, <2>3, Q!HoldAppend, QueuesAssumed DEF Waiting
    <3>4. Asleep(st) = IF how = "Running" THEN blocked ELSE blocked \cup {current}
      BY <1>1, <2>1, <2>3 DEF Asleep
    <3> HIDE DEF st, K
    <3>5. CoopInv' /\ taken(Waiting(K), Asleep(st))
      BY <3>1, <3>2, <3>3, CoopDispatch
    <3> QED
      BY <1>2, <2>3, <3>3, <3>4, <3>5
  <2> QED
    BY <2>2, <2>3
<1>6. CASE T!sthread_yield
  <2>1. T!Running /\ T!__sthread_schedule("Running")
    BY <1>6 DEF T!sthread_yield, T!Running, CoopInv
  <2>2. CoopInv' /\ taken(Append(ready, current), blocked)
    BY <1>5, <2>1
  <2> QED
    BY <1>2, <2>1, <2>2
    DEF T!Promise!Next, T!Promise!Yield, T!Promise!Turn, T!Promise!Running, T!Running, Asleep
<1>7. CASE T!sthread_block
  <2>1. T!Running /\ T!__sthread_schedule("Blocked")
    BY <1>7 DEF T!sthread_block
  <2>2. CoopInv' /\ taken(ready, blocked \cup {current})
    BY <1>5, <2>1
  <2> QED
    BY <1>2, <2>1, <2>2
    DEF T!Promise!Next, T!Promise!Block, T!Promise!Turn, T!Promise!Running, T!Running, Asleep
<1>8. CASE T!__sthread_finish
  <2>1. T!Running /\ T!__sthread_schedule("Finished")
    BY <1>8 DEF T!__sthread_finish
  <2>2. CoopInv' /\ taken(ready, blocked)
    BY <1>5, <2>1
  <2> QED
    BY <1>2, <2>1, <2>2
    DEF T!Promise!Next, T!Promise!Finish, T!Promise!Turn, T!Promise!Running, T!Running, Asleep
<1>9. CASE T!sthread_unblock
  <2>1. PICK u \in Thread :
          /\ state[u] = "Blocked" /\ state' = [state EXCEPT ![u] = "Ready"]
          /\ links' = Q!queue_append(Q!queue_remove(links, "blocked", u), "ready", u)
    <3>1. PICK u \in Thread :
            /\ state[u] = "Blocked" /\ state' = [state EXCEPT ![u] = "Ready"]
            /\ links' = T!queue_append(T!queue_remove(links, "blocked", u), "ready", u)
      BY <1>9 DEF T!sthread_unblock, T!queue_add
    <3>2. links' = Q!queue_append(Q!queue_remove(links, "blocked", u), "ready", u)
      <4>1. T!queue_remove(links, "blocked", u) = Q!queue_remove(links, "blocked", u)
        BY SameQueues
      <4> DEFINE M == Q!queue_remove(links, "blocked", u)
      <4>2. T!queue_append(M, "ready", u) = Q!queue_append(M, "ready", u)
        BY SameQueues
      <4> QED
        BY <3>1, <4>1, <4>2
    <3> QED
      BY <3>1, <3>2
  <2>2. t_status = "run" /\ current' = current /\ t_status' = t_status
    BY <1>9 DEF T!sthread_unblock, T!Running
  <2>3. Q!Hold(links, state) /\ \A x \in Thread : state[x] = "Running" <=> x = current
    BY <2>2 DEF CoopInv
  <2>4. /\ Q!Hold(links', state') /\ Waiting(links') = Append(Waiting(links), u)
    BY <1>1, <2>1, <2>3, Q!HoldRequeue, QueuesAssumed DEF Waiting
  <2>5. CoopInv'
    BY <1>1, <2>1, <2>2, <2>3, <2>4 DEF CoopInv
  <2>6. T!Promise!Unblock(u)
    <3>1. {x \in Thread : state'[x] = "Blocked"} = blocked \ {u} /\ u \in blocked
      BY <1>1, <2>1
    <3> QED
      BY <1>2, <2>2, <2>4, <3>1 DEF T!Promise!Unblock, T!Promise!Running
  <2> QED
    BY <2>5, <2>6 DEF T!Promise!Next
<1>10. CASE T!Over
  BY <1>10 DEF T!Over, T!vars, CoopInv, T!Promise!vars
<1> QED
  BY <1>3, <1>4, <1>6, <1>7, <1>8, <1>9, <1>10 DEF T!Next

LEMMA CoopSteps == [MCNext]_MCVars => [T!Next]_tVars
BY DEF MCNext, MCVars, others, tVars

\* However the cooperative threads create, yield, block, unblock and finish, they
\* take turns in the order in which they became ready, no thread is lost from a
\* queue, and the process says rightly how it ended (week6 sthread.c).
THEOREM CoopThreadsTakeTurns == MCSpec => ImplementsRoundRobin
<1>1. MCInit => CoopInv /\ T!Promise!Init
  BY CoopInit DEF MCInit
<1>2. CoopInv /\ [MCNext]_MCVars => CoopInv' /\ [T!Promise!Next]_(T!Promise!vars)
  <2>1. CoopInv /\ UNCHANGED tVars => CoopInv' /\ UNCHANGED T!Promise!vars
    BY DEF tVars, CoopInv, T!Promise!vars
  <2> QED
    BY <2>1, CoopSteps, CoopStep
<1> QED
  BY <1>1, <1>2, PTL DEF MCSpec, ImplementsRoundRobin, T!ImplementsRoundRobin, T!Promise!Spec

-----------------------------------------------------------------------------
(* The list that is reversed in place.                                     *)

\* The nodes of s are those of N, each of them once.
Nodes(s, N) == s \in Seq(Node) /\ Q!Distinct(s) /\ N = Q!In(s)

\* From the nodes behind the first m of s the pointers lead on, from those backwards:
\* so many are still to be turned round.
Pointers(s, m, nx) ==
    \A k \in 1 .. Len(s) :
       nx[s[k]] = IF k > m THEN IF k = Len(s) THEN NULL ELSE s[k + 1]
                    ELSE IF k = 1 THEN NULL ELSE s[k - 1]

Ends(s, first, last) ==
    /\ first = IF s = <<>> THEN NULL ELSE s[1]
    /\ last = IF s = <<>> THEN NULL ELSE s[Len(s)]

ListInv ==
    LET s == expected
    IN  /\ Nodes(s, DOMAIN next) /\ Ends(s, head, tail)
        /\ l_pc \in {"idle", "reverse"}
        /\ l_pc = "idle" => Pointers(s, 0, next)
        /\ l_pc = "reverse" =>
             \E m \in 1 .. Len(s) : /\ Pointers(s, m, next)
                                   /\ ecx = s[m]
                                   /\ edx = IF m = Len(s) THEN NULL ELSE s[m + 1]

LEMMA NodesFacts ==
  ASSUME NEW s, NEW N, Nodes(s, N)
  PROVE  /\ s \in Seq(Node) /\ Len(s) \in Nat
         /\ \A k \in 1 .. Len(s) : s[k] \in Node /\ s[k] # NULL /\ s[k] \in N
         /\ \A j, k \in 1 .. Len(s) : s[j] = s[k] => j = k
         /\ s # <<>> => 1 \in 1 .. Len(s) /\ Len(s) \in 1 .. Len(s)
BY ListAssumption DEF Nodes, Q!In, Q!Distinct

\* Walk collects the nodes one by one.
LEMMA WalkList ==
  ASSUME Nodes(expected, DOMAIN next), Ends(expected, head, tail), Pointers(expected, 0, next)
  PROVE  L!Walk(head) = expected
<1> DEFINE s == expected
           First == IF head = NULL THEN <<>> ELSE <<head>>
           Extend(path) == IF path = <<>> THEN path
                           ELSE IF next[L!Last(path)] = NULL THEN path
                           ELSE Append(path, next[L!Last(path)])
           f == [k \in Nat |-> Q!Walked(s, k)]
           Rec(w) == w = [k \in Nat |-> IF k = 0 THEN First ELSE Extend(w[k - 1])]
<1>1. /\ s \in Seq(Node) /\ Len(s) \in Nat
      /\ \A k \in 1 .. Len(s) : s[k] \in Node /\ s[k] # NULL
      /\ s # <<>> => 1 <= Len(s)
  BY NodesFacts
<1>2. Q!Walked(s, 0) = First
  <2>1. CASE s = <<>>
    BY <2>1 DEF Ends, Q!Walked
  <2>2. CASE s # <<>>
    <3>1. head = s[1] /\ s[1] # NULL /\ 1 <= Len(s)
      BY <1>1, <2>2 DEF Ends
    <3> DEFINE a == SubSeq(s, 1, 0 + 1)
               b == <<s[1]>>
    <3>2. a = b
      <4>1. a \in Seq(Node) /\ Len(a) = 1 /\ a[1] = s[1]
        BY <1>1, <3>1
      <4>2. b \in Seq(Node) /\ Len(b) = 1 /\ b[1] = s[1]
        BY <1>1, <3>1
      <4> HIDE DEF a, b
      <4> QED
        BY <4>1, <4>2, Q!EqualSeqs
    <3> QED
      BY <2>2, <3>1, <3>2 DEF Q!Walked
  <2> QED
    BY <2>1, <2>2
<1>3. ASSUME NEW k \in Nat \ {0} PROVE Q!Walked(s, k) = Extend(Q!Walked(s, k - 1))
  <2>1. CASE s = <<>>
    BY <2>1 DEF Q!Walked
  <2>2. CASE s # <<>> /\ k <= Len(s)
    <3> DEFINE path == SubSeq(s, 1, k)
    <3>1. k \in 1 .. Len(s) /\ (k - 1) + 1 = k
      BY <1>1, <2>2
    <3>2. path \in Seq(Node) /\ Len(path) = k /\ path # <<>> /\ path[k] = s[k]
      BY <1>1, <3>1
    <3>3. Q!Walked(s, k - 1) = path
      BY <2>2, <3>1 DEF Q!Walked
    <3>4. next[s[k]] = IF k = Len(s) THEN NULL ELSE s[k + 1]
      BY <3>1 DEF Pointers
    <3>5. L!Last(path) = s[k]
      BY <3>2 DEF L!Last
    <3>6. CASE k = Len(s)
      <4>1. Q!Walked(s, k) = s
        <5>1. ~(k + 1 <= Len(s))
          BY <1>1, <3>6
        <5> QED
          BY <2>2, <5>1 DEF Q!Walked
      <4>2. path = s
        <5>1. \A j \in 1 .. Len(path) : path[j] = s[j]
          BY <1>1, <3>1, <3>2
        <5> QED
          BY <1>1, <3>2, <3>6, <5>1, Q!EqualSeqs
      <4> HIDE DEF path
      <4> QED
        BY <3>3, <3>4, <3>5, <3>6, <4>1, <4>2
    <3>7. CASE k # Len(s)
      <4>1. k + 1 \in 1 .. Len(s) /\ k + 1 <= Len(s)
        BY <1>1, <3>1, <3>7
      <4>2. Q!Walked(s, k) = SubSeq(s, 1, k + 1)
        BY <2>2, <4>1 DEF Q!Walked
      <4>3. SubSeq(s, 1, k + 1) = Append(path, s[k + 1])
        BY <1>1, <3>1, <4>1
      <4>4. s[k + 1] # NULL
        BY <1>1, <4>1
      <4> HIDE DEF path
      <4> QED
        BY <3>2, <3>3, <3>4, <3>5, <3>7, <4>2, <4>3, <4>4
    <3> QED
      BY <3>6, <3>7
  <2>3. CASE s # <<>> /\ ~(k <= Len(s))
    <3>1. Q!Walked(s, k) = s
      BY <1>1, <2>3 DEF Q!Walked
    <3>2. Q!Walked(s, k - 1) = s
      BY <1>1, <2>3 DEF Q!Walked
    <3>3. next[s[Len(s)]] = NULL
      BY <1>1, <2>3 DEF Pointers
    <3> QED
      BY <3>1, <3>2, <3>3 DEF L!Last
  <2> QED
    BY <1>1, <2>1, <2>2, <2>3
<1> HIDE DEF First, Extend
<1>4. Rec(f)
  <2>1. ASSUME NEW k \in Nat PROVE f[k] = IF k = 0 THEN First ELSE Extend(f[k - 1])
    <3>1. k # 0 => k - 1 \in Nat /\ k \in Nat \ {0}
      OBVIOUS
    <3> QED
      BY <1>2, <1>3, <3>1
  <2> QED
    BY <2>1
<1>5. ASSUME NEW w, Rec(w) PROVE w = f
  <2> DEFINE B == {k \in Nat : w[k] # f[k]}
  <2>1. ASSUME B # {} PROVE FALSE
    <3>1. PICK k \in B : \A m \in B : k <= m
      <4>1. B \in SUBSET Nat
        OBVIOUS
      <4> HIDE DEF B
      <4> QED
        BY <2>1, <4>1, LeastNat
    <3>2. /\ w[k] = IF k = 0 THEN First ELSE Extend(w[k - 1])
          /\ f[k] = IF k = 0 THEN First ELSE Extend(f[k - 1])
      BY <1>4, <1>5, <3>1
    <3>3. k # 0 => k - 1 \in Nat /\ ~(k <= k - 1)
      BY <3>1
    <3>4. k # 0 => w[k - 1] = f[k - 1]
      BY <3>1, <3>3
    <3> QED
      BY <3>1, <3>2, <3>4
  <2>2. \A k \in Nat : w[k] = f[k]
    BY <2>1
  <2> QED
    BY <1>5, <2>2
<1>6. L!Walk(head) = (CHOOSE w : Rec(w))[Len(s)]
  BY DEF L!Walk, First, Extend
<1>7. (CHOOSE w : Rec(w)) = f
  BY <1>4, <1>5
<1>8. f[Len(s)] = s
  <2>1. ~(Len(s) + 1 <= Len(s))
    BY <1>1
  <2> QED
    BY <1>1, <2>1 DEF Q!Walked
<1> QED
  BY <1>6, <1>7, <1>8

LEMMA NoNodes == L!Init => ListInv
<1> SUFFICES ASSUME L!Init PROVE ListInv
  OBVIOUS
<1>1. head = NULL /\ tail = NULL /\ next = <<>> /\ l_pc = "idle" /\ expected = <<>>
  BY DEF L!Init
<1>2. Len(expected) = 0 /\ DOMAIN next = {} /\ expected \in Seq(Node)
  BY <1>1
<1> QED
  BY <1>1, <1>2 DEF ListInv, Nodes, Ends, Pointers, Q!In, Q!Distinct

\* The conjuncts by name, as the steps use them.
LEMMA ListFacts ==
  ASSUME ListInv
  PROVE  /\ Nodes(expected, DOMAIN next) /\ Ends(expected, head, tail)
         /\ l_pc = "idle" => Pointers(expected, 0, next)
         /\ l_pc = "reverse" =>
              \E m \in 1 .. Len(expected) :
                 /\ Pointers(expected, m, next)
                 /\ ecx = expected[m]
                 /\ edx = IF m = Len(expected) THEN NULL ELSE expected[m + 1]
BY DEF ListInv

LEMMA ListAppend == ListInv /\ L!append_value => ListInv'
<1> SUFFICES ASSUME ListInv, L!append_value PROVE ListInv'
  OBVIOUS
<1> DEFINE s == expected
           linked(a) == [n \in DOMAIN next \cup {a} |-> IF n = a THEN NULL ELSE next[n]]
<1>1. PICK a \in Node \ DOMAIN next :
        /\ IF tail # NULL THEN next' = [linked(a) EXCEPT ![tail] = a] /\ UNCHANGED head
           ELSE head' = a /\ next' = linked(a)
        /\ tail' = a
        /\ expected' = Append(expected, a)
  BY DEF L!append_value, L!Allocated
<1>2. l_pc = "idle" /\ l_pc' = "idle"
  BY DEF L!append_value
<1>3. Nodes(s, DOMAIN next) /\ Ends(s, head, tail) /\ Pointers(s, 0, next)
  BY <1>2, ListFacts
<1>4. /\ s \in Seq(Node) /\ Len(s) \in Nat
      /\ \A k \in 1 .. Len(s) : s[k] \in Node /\ s[k] # NULL /\ s[k] \in DOMAIN next
      /\ \A j, k \in 1 .. Len(s) : s[j] = s[k] => j = k
      /\ s # <<>> => 1 \in 1 .. Len(s) /\ Len(s) \in 1 .. Len(s)
      /\ Q!Distinct(s) /\ DOMAIN next = Q!In(s)
  BY <1>3, NodesFacts DEF Nodes
<1>5. PICK u : u = Append(s, a)
  OBVIOUS
<1>6. /\ u \in Seq(Node) /\ Len(u) = Len(s) + 1 /\ u # <<>>
      /\ \A k \in 1 .. Len(s) : u[k] = s[k]
      /\ u[Len(s) + 1] = a
      /\ Q!Distinct(u) /\ Q!In(u) = Q!In(s) \cup {a}
  BY <1>1, <1>4, <1>5, QueuesAssumed, Q!AppendElements
<1>7. s = <<>> <=> Len(s) = 0
  BY <1>4
<1>8. /\ DOMAIN next' = DOMAIN next \cup {a}
      /\ next'[a] = NULL
      /\ \A n \in DOMAIN next : next'[n] = IF n = tail THEN a ELSE next[n]
  <2>1. tail = IF s = <<>> THEN NULL ELSE s[Len(s)]
    BY <1>3 DEF Ends
  <2>2. CASE tail = NULL
    <3>1. s = <<>>
      BY <1>4, <2>1, <2>2
    <3>2. DOMAIN next = {}
      BY <1>4, <3>1 DEF Q!In
    <3> QED
      BY <1>1, <2>2, <3>2
  <2>3. CASE tail # NULL
    <3>1. tail \in DOMAIN next /\ tail # a
      BY <1>1, <1>4, <2>1, <2>3
    <3> QED
      BY <1>1, <2>3, <3>1
  <2> QED
    BY <2>2, <2>3
<1> HIDE DEF s, linked
<1>9. Nodes(u, DOMAIN next')
  BY <1>4, <1>6, <1>8 DEF Nodes
<1>10. Ends(u, head', tail')
  <2>1. CASE s = <<>>
    <3>1. tail = NULL /\ 1 = Len(s) + 1 /\ 1 = Len(u)
      BY <1>3, <1>6, <1>7, <2>1 DEF Ends
    <3> QED
      BY <1>1, <1>6, <3>1 DEF Ends
  <2>2. CASE s # <<>>
    <3>1. tail # NULL /\ head = s[1] /\ u[1] = s[1] /\ u[Len(u)] = a
      BY <1>3, <1>4, <1>6, <2>2 DEF Ends
    <3> QED
      BY <1>1, <1>6, <3>1 DEF Ends
  <2> QED
    BY <2>1, <2>2
<1>11. Pointers(u, 0, next')
  <2>1. SUFFICES ASSUME NEW k \in 1 .. Len(u)
                 PROVE  next'[u[k]] = IF k = Len(u) THEN NULL ELSE u[k + 1]
    BY DEF Pointers
  <2>2. CASE k = Len(u)
    BY <1>4, <1>6, <1>8, <2>2
  <2>3. CASE k # Len(u)
    <3>1. k \in 1 .. Len(s) /\ u[k] = s[k] /\ s # <<>>
      BY <1>4, <1>6, <1>7, <2>3
    <3>2. next[s[k]] = IF k = Len(s) THEN NULL ELSE s[k + 1]
      BY <1>3, <3>1 DEF Pointers
    <3>3. next'[s[k]] = IF k = Len(s) THEN a ELSE next[s[k]]
      BY <1>3, <1>4, <1>8, <3>1 DEF Ends
    <3>4. u[k + 1] = IF k = Len(s) THEN a ELSE s[k + 1]
      <4>1. k # Len(s) => k + 1 \in 1 .. Len(s)
        BY <1>4, <3>1
      <4> QED
        BY <1>6, <4>1
    <3> QED
      BY <2>3, <3>1, <3>2, <3>3, <3>4
  <2> QED
    BY <2>2, <2>3
<1>12. expected' = u
  BY <1>1, <1>5 DEF s
<1> QED
  BY <1>2, <1>9, <1>10, <1>11, <1>12 DEF ListInv

LEMMA ListTurn == ListInv /\ L!reverse_switch => ListInv'
<1> SUFFICES ASSUME ListInv, L!reverse_switch PROVE ListInv'
  OBVIOUS
<1> DEFINE s == expected
           u == L!Reverse(s)
           n == Len(s)
<1>1. l_pc = "idle" /\ expected' = u /\ next' = next
  BY DEF L!reverse_switch
<1>2. Nodes(s, DOMAIN next) /\ Ends(s, head, tail) /\ Pointers(s, 0, next)
  BY <1>1, ListFacts
<1>3. /\ s \in Seq(Node) /\ n \in Nat
      /\ \A k \in 1 .. n : s[k] \in Node /\ s[k] # NULL
      /\ \A j, k \in 1 .. n : s[j] = s[k] => j = k
      /\ s # <<>> => 1 \in 1 .. n /\ n \in 1 .. n
      /\ DOMAIN next = Q!In(s)
  BY <1>2, NodesFacts DEF Nodes
<1>4. \A k \in 1 .. n : (n - k) + 1 \in 1 .. n /\ (n - ((n - k) + 1)) + 1 = k
  BY <1>3
<1>5. u = [k \in 1 .. n |-> s[(n - k) + 1]]
  BY DEF L!Reverse
<1>6. u \in Seq(Node) /\ Len(u) = n /\ \A k \in 1 .. n : u[k] = s[(n - k) + 1]
  BY <1>3, <1>4, <1>5
<1>7. Nodes(u, DOMAIN next)
  <2>1. \A j, k \in 1 .. n : u[j] = u[k] => j = k
    <3>1. SUFFICES ASSUME NEW j \in 1 .. n, NEW k \in 1 .. n, u[j] = u[k] PROVE j = k
      OBVIOUS
    <3>2. (n - j) + 1 = (n - k) + 1
      BY <1>3, <1>4, <1>6, <3>1
    <3> QED
      BY <1>3, <3>2
  <2>2. Q!In(u) = Q!In(s)
    <3> HIDE DEF u, n, s
    <3>1. \A k \in 1 .. n : \E j \in 1 .. n : u[k] = s[j]
      BY <1>4, <1>6
    <3>2. \A k \in 1 .. n : \E j \in 1 .. n : s[k] = u[j]
      <4> SUFFICES ASSUME NEW k \in 1 .. n PROVE \E j \in 1 .. n : s[k] = u[j]
        OBVIOUS
      <4>1. (n - k) + 1 \in 1 .. n /\ u[(n - k) + 1] = s[k]
        BY <1>4, <1>6
      <4> QED
        BY <4>1
    <3>3. Q!In(s) = {s[k] : k \in 1 .. n}
      BY DEF Q!In, n
    <3>4. Q!In(u) = {u[k] : k \in 1 .. n}
      BY <1>6 DEF Q!In
    <3> QED
      BY <3>1, <3>2, <3>3, <3>4
  <2> QED
    BY <1>3, <1>6, <2>1, <2>2 DEF Nodes, Q!Distinct
<1> HIDE DEF u
<1>8. CASE s = <<>>
  <2>1. n = 0 /\ u = <<>>
    BY <1>6, <1>8
  <2>2. head = NULL
    BY <1>2, <1>8 DEF Ends
  <2>3. UNCHANGED <<head, tail, edx, ecx, l_pc>>
    BY <2>2 DEF L!reverse_switch
  <2>4. Ends(u, head', tail') /\ Pointers(u, 0, next')
    BY <1>2, <1>8, <2>1, <2>3 DEF Ends, Pointers
  <2> QED
    BY <1>1, <1>7, <2>3, <2>4 DEF ListInv
<1>9. CASE s # <<>>
  <2>1. head = s[1] /\ tail = s[n] /\ head # NULL
    BY <1>2, <1>3, <1>9 DEF Ends
  <2>2. head' = tail /\ tail' = head /\ edx' = NULL /\ ecx' = head /\ l_pc' = "reverse"
    BY <2>1 DEF L!reverse_switch
  <2>3. n \in 1 .. n /\ 1 \in 1 .. n /\ u[1] = s[n] /\ u[n] = s[1] /\ u # <<>>
    BY <1>3, <1>6, <1>9
  <2>4. Ends(u, head', tail')
    BY <1>6, <2>1, <2>2, <2>3 DEF Ends
  <2>5. Pointers(u, n, next)
    <3>1. SUFFICES ASSUME NEW k \in 1 .. n
                   PROVE  next[u[k]] = IF k = 1 THEN NULL ELSE u[k - 1]
      <4>1. \A k \in 1 .. n : ~(k > n)
        BY <1>3
      <4> QED
        BY <1>6, <3>1, <4>1 DEF Pointers
    <3>2. (n - k) + 1 \in 1 .. n /\ (n - k) + 1 > 0
      BY <1>4
    <3>3. next[u[k]] = IF (n - k) + 1 = n THEN NULL ELSE s[((n - k) + 1) + 1]
      BY <1>2, <1>6, <3>2 DEF Pointers
    <3>4. (n - k) + 1 = n <=> k = 1
      BY <1>3
    <3>5. k # 1 => k - 1 \in 1 .. n /\ ((n - k) + 1) + 1 = (n - (k - 1)) + 1
      BY <1>3
    <3> QED
      BY <1>6, <3>3, <3>4, <3>5
  <2>6. ecx' = u[n] /\ edx' = IF n = Len(u) THEN NULL ELSE u[n + 1]
    BY <1>6, <2>1, <2>2, <2>3
  <2>7. n \in 1 .. Len(u) /\ l_pc' # "idle"
    BY <1>6, <2>2, <2>3
  <2> HIDE DEF n
  <2>8. \E m \in 1 .. Len(u) : /\ Pointers(u, m, next')
                               /\ ecx' = u[m]
                               /\ edx' = IF m = Len(u) THEN NULL ELSE u[m + 1]
    BY <1>1, <2>5, <2>6, <2>7
  <2> QED
    BY <1>1, <1>7, <2>2, <2>4, <2>7, <2>8 DEF ListInv
<1> QED
  BY <1>8, <1>9

LEMMA ListLoop == ListInv /\ L!reverse_loop => ListInv'
<1> SUFFICES ASSUME ListInv, L!reverse_loop PROVE ListInv'
  OBVIOUS
<1> DEFINE s == expected
           n == Len(s)
<1>1. /\ l_pc = "reverse" /\ UNCHANGED <<head, tail, expected>>
      /\ next' = [next EXCEPT ![ecx] = edx] /\ edx' = ecx /\ ecx' = next[ecx]
      /\ l_pc' = IF ecx' = NULL THEN "idle" ELSE "reverse"
  BY DEF L!reverse_loop
<1>2. Nodes(s, DOMAIN next) /\ Ends(s, head, tail)
  BY ListFacts
<1>3. PICK m \in 1 .. n : /\ Pointers(s, m, next)
                          /\ ecx = s[m]
                          /\ edx = IF m = n THEN NULL ELSE s[m + 1]
  BY <1>1, ListFacts
<1>4. /\ n \in Nat
      /\ \A k \in 1 .. n : s[k] # NULL /\ s[k] \in DOMAIN next
      /\ \A j, k \in 1 .. n : s[j] = s[k] => j = k
  BY <1>2, NodesFacts
<1>5. DOMAIN next' = DOMAIN next
  BY <1>1
<1>6. \A k \in 1 .. n : next'[s[k]] = IF k = m THEN edx ELSE next[s[k]]
  BY <1>1, <1>3, <1>4
<1>7. next[s[m]] = IF m = 1 THEN NULL ELSE s[m - 1]
  BY <1>3 DEF Pointers
<1>8. Pointers(s, m - 1, next')
  <2>1. SUFFICES ASSUME NEW k \in 1 .. n
                 PROVE  next'[s[k]] = IF k > m - 1 THEN IF k = n THEN NULL ELSE s[k + 1]
                                      ELSE IF k = 1 THEN NULL ELSE s[k - 1]
    BY DEF Pointers
  <2>2. next[s[k]] = IF k > m THEN IF k = n THEN NULL ELSE s[k + 1]
                     ELSE IF k = 1 THEN NULL ELSE s[k - 1]
    BY <1>3 DEF Pointers
  <2>3. k > m - 1 <=> k = m \/ k > m
    OBVIOUS
  <2> QED
    BY <1>3, <1>6, <2>2, <2>3
<1>9. CASE m = 1
  <2>1. l_pc' = "idle" /\ m - 1 = 0
    BY <1>1, <1>3, <1>7, <1>9
  <2> QED
    BY <1>1, <1>2, <1>5, <1>8, <2>1 DEF ListInv
<1>10. CASE m # 1
  <2>1. m - 1 \in 1 .. n /\ m - 1 # n /\ (m - 1) + 1 = m
    BY <1>4, <1>10
  <2>2. ecx' = s[m - 1] /\ edx' = s[m] /\ l_pc' = "reverse"
    BY <1>1, <1>3, <1>4, <1>7, <1>10, <2>1
  <2>3. edx' = IF m - 1 = n THEN NULL ELSE s[(m - 1) + 1]
    BY <2>1, <2>2
  <2> HIDE DEF n, s
  <2>4. s = expected' /\ n = Len(expected') /\ s = expected /\ n = Len(expected)
    BY <1>1 DEF s, n
  <2> QED
    BY <1>1, <1>2, <1>5, <1>8, <2>1, <2>2, <2>3, <2>4 DEF ListInv
<1> QED
  BY <1>9, <1>10

LEMMA ListFreed == ListInv /\ L!free_list => ListInv'
<1> SUFFICES ASSUME ListInv, L!free_list PROVE ListInv'
  OBVIOUS
<1>1. /\ l_pc = "idle" /\ l_pc' = "idle" /\ head' = NULL /\ tail' = NULL /\ expected' = <<>>
      /\ next' = [n \in DOMAIN next \ L!ToSet(L!Walk(head)) |-> next[n]]
  BY DEF L!free_list, L!Allocated
<1>2. Nodes(expected, DOMAIN next) /\ Ends(expected, head, tail) /\ Pointers(expected, 0, next)
  BY <1>1, ListFacts
<1>3. L!Walk(head) = expected
  BY <1>2, WalkList
<1>4. DOMAIN next = Q!In(expected) /\ DOMAIN expected = 1 .. Len(expected)
  BY <1>2 DEF Nodes
<1>5. L!ToSet(expected) = Q!In(expected)
  BY <1>4 DEF L!ToSet, Q!In
<1>6. DOMAIN next' = {}
  BY <1>1, <1>3, <1>4, <1>5
<1>7. Len(expected') = 0 /\ expected' \in Seq(Node)
  BY <1>1
<1> QED
  BY <1>1, <1>6, <1>7 DEF ListInv, Nodes, Ends, Pointers, Q!In, Q!Distinct

LEMMA ListSame == ListInv /\ UNCHANGED lVars => ListInv'
BY DEF ListInv, lVars

\* Only the list's own steps change the list.
LEMMA ListSteps == [MCNext]_MCVars => L!Next \/ UNCHANGED lVars
BY DEF MCNext, MCVars, others

LEMMA ListHoldsOrder == ListInv => OrderKept
<1> SUFFICES ASSUME ListInv, l_pc = "idle"
             PROVE  /\ L!Walk(head) = expected
                    /\ tail = IF expected = <<>> THEN NULL ELSE L!Last(expected)
                    /\ L!Allocated = L!ToSet(expected)
  BY DEF OrderKept, L!OrderKept
<1>1. Nodes(expected, DOMAIN next) /\ Ends(expected, head, tail) /\ Pointers(expected, 0, next)
  BY ListFacts
<1>2. DOMAIN next = Q!In(expected) /\ DOMAIN expected = 1 .. Len(expected)
  BY <1>1 DEF Nodes
<1> QED
  BY <1>1, <1>2, WalkList DEF Ends, L!Last, L!ToSet, L!Allocated, Q!In

\* However often the list is extended, reversed and freed, between the calls it holds
\* the nodes in the order that the calls ask for, its tail is the last of them and no
\* other node is allocated (midWeek list.c, reverse.s).
THEOREM ListOrderKept == MCSpec => []OrderKept
<1>1. MCInit => ListInv
  BY NoNodes DEF MCInit
<1>2. ListInv /\ [MCNext]_MCVars => ListInv'
  BY ListSteps, ListSame, ListAppend, ListTurn, ListLoop, ListFreed DEF L!Next
<1> QED
  BY <1>1, <1>2, ListHoldsOrder, PTL DEF MCSpec

=============================================================================
