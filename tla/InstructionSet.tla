--------------------------- MODULE InstructionSet ---------------------------
(***************************************************************************)
(* The branching processor of week1/proc as its programmer sees it: one    *)
(* step executes one instruction, until the DONE instruction or until as   *)
(* many instructions as run() allows.                                      *)
(***************************************************************************)
EXTENDS Instruction

CONSTANTS Depth,             \* INSTRUCTION_STORE_DEPTH
          MAX_EXECUTE_TIME

VARIABLES imemory,    \* the program
          rfmem,      \* the registers
          pc,
          executed,   \* how many instructions have been executed
          status      \* "running", "done" or "late"

vars == <<imemory, rfmem, pc, executed, status>>

Init == /\ imemory \in [0 .. Depth - 1 -> Nat] /\ rfmem \in [Register -> Word]
        /\ pc = 0 /\ executed = 0 /\ status = "running"

Execute ==
    LET instr == imemory[pc]
        op    == AluOp(instr)
        a     == rfmem[Src1(instr)]
        b     == rfmem[Src2(instr)]
    IN  /\ status = "running" /\ pc \in 0 .. Depth - 1
        /\ rfmem' = IF Write(instr) THEN [rfmem EXCEPT ![Dst(instr)] = Alu(op, a, b)]
                    ELSE rfmem
        /\ pc' = IF op = BNZ /\ a # 0 THEN BranchAddr(instr) ELSE pc + 1
        /\ executed' = executed + 1
        /\ status' = IF op = DONE THEN "done"
                     ELSE IF executed' = MAX_EXECUTE_TIME - 1 THEN "late" ELSE "running"
        /\ UNCHANGED imemory

Next == Execute

Spec == Init /\ [][Next]_vars
=============================================================================
