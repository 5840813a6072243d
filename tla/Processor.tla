----------------------------- MODULE Processor -----------------------------
(***************************************************************************)
(* The branching processor of week1/proc: units that share buses and are   *)
(* run one after the other by clock() (branching_control.c).  A bus is a   *)
(* word from malloc() that holds what was last set on one of its pins, so  *)
(* that a unit that is run too early reads what an earlier clock, or       *)
(* nobody, has set.  pc_bus outlives the clock.                            *)
(*                                                                         *)
(* A fetch from beyond the instruction store reads other memory: the model *)
(* ends there.                                                             *)
(***************************************************************************)
EXTENDS Instruction

CONSTANTS Depth,             \* INSTRUCTION_STORE_DEPTH
          MAX_EXECUTE_TIME,
          Loads,             \* the programs, each with registers, that are run
          Junk               \* what memory fresh from malloc() may hold

ASSUME TimeAssumption == MAX_EXECUTE_TIME \in Nat \ {0, 1}
ASSUME LoadAssumption ==
    \A load \in Loads : /\ load.imemory \in [0 .. Depth - 1 -> Nat]
                        /\ load.rfmem \in [Register -> Word]

VARIABLES imemory,  \* of the instruction store
          rfmem,    \* of the register file
          bus,      \* what each bus holds
          unit,     \* which unit clock() runs next, "test" for the end of the
                    \* loop in run(), "done" or "late" when run() has ended
          t         \* of run()

vars == <<imemory, rfmem, bus, unit, t>>

Buses == {"pc", "instr", "aluop", "writep", "src1", "src2", "dst",
          "rf1", "rf2", "aluout", "branch_addr", "branch"}

(* build_processor() resets the program counter and sets no other bus. *)
Init ==
    /\ \E load \in Loads : imemory = load.imemory /\ rfmem = load.rfmem
    /\ \E junk \in Junk : bus = [b \in Buses |-> IF b = "pc" THEN 0 ELSE junk]
    /\ unit = "ifetch"
    /\ t = 1

(* A unit runs and the next one follows. *)
Run(now, next) == unit = now /\ unit' = next

ifetch ==
    /\ Run("ifetch", "idecode")
    /\ bus["pc"] \in 0 .. Depth - 1
    /\ bus' = [bus EXCEPT !["instr"] = imemory[bus["pc"]]]
    /\ UNCHANGED <<imemory, rfmem, t>>

idecode ==
    /\ Run("idecode", "rf_read")
    /\ LET instr == bus["instr"]
       IN  bus' = [bus EXCEPT !["aluop"]       = AluOp(instr),
                              !["writep"]      = IF Write(instr) THEN 1 ELSE 0,
                              !["src1"]        = Src1(instr),
                              !["src2"]        = Src2(instr),
                              !["dst"]         = Dst(instr),
                              !["branch_addr"] = BranchAddr(instr)]
    /\ UNCHANGED <<imemory, rfmem, t>>

rf_read ==
    /\ Run("rf_read", "branch_test")
    /\ bus' = [bus EXCEPT !["rf1"] = rfmem[bus["src1"]], !["rf2"] = rfmem[bus["src2"]]]
    /\ UNCHANGED <<imemory, rfmem, t>>

\* Mutant: a branch that is not taken leaves the pin as it is.
BranchStays ==
    /\ Run("branch_test", "alu_eval")
    /\ bus' = IF bus["aluop"] = BNZ /\ bus["rf1"] # 0 THEN [bus EXCEPT !["branch"] = 1]
              ELSE bus
    /\ UNCHANGED <<imemory, rfmem, t>>

branch_test ==
    /\ Run("branch_test", "alu_eval")
    /\ bus' = [bus EXCEPT !["branch"] =
                  IF bus["aluop"] = BNZ /\ bus["rf1"] # 0 THEN 1 ELSE 0]
    /\ UNCHANGED <<imemory, rfmem, t>>

alu_eval ==
    /\ Run("alu_eval", "rf_write")
    /\ bus' = [bus EXCEPT !["aluout"] = Alu(bus["aluop"], bus["rf1"], bus["rf2"])]
    /\ UNCHANGED <<imemory, rfmem, t>>

rf_write ==
    /\ Run("rf_write", "nextPC")
    /\ rfmem' = IF bus["writep"] = 1 THEN [rfmem EXCEPT ![bus["dst"]] = bus["aluout"]]
                ELSE rfmem
    /\ UNCHANGED <<imemory, bus, t>>

NextOf == IF bus["branch"] = 1 THEN bus["branch_addr"] ELSE bus["pc"] + 1

nextPC ==
    /\ Run("nextPC", "test")
    /\ bus' = [bus EXCEPT !["pc"] = NextOf]
    /\ UNCHANGED <<imemory, rfmem, t>>

(* run() ends with the DONE instruction or goes on to the next clock. *)
Done  == Run("test", "done") /\ bus["aluop"] = DONE
         /\ UNCHANGED <<imemory, rfmem, bus, t>>
Clock == /\ Run("test", IF t + 1 = MAX_EXECUTE_TIME THEN "late" ELSE "ifetch")
         /\ bus["aluop"] # DONE
         /\ t' = t + 1
         /\ UNCHANGED <<imemory, rfmem, bus>>

Over == unit \in {"done", "late"} /\ UNCHANGED vars

Next == \/ ifetch \/ idecode \/ rf_read \/ branch_test \/ alu_eval \/ rf_write \/ nextPC
        \/ Done \/ Clock \/ Over

Spec == Init /\ [][Next]_vars

-----------------------------------------------------------------------------

(* An instruction takes effect when rf_write has run: from there to the    *)
(* end of the clock its consequences are on the buses.                     *)
Taken == unit \in {"nextPC", "test"}

ISA == INSTANCE InstructionSet WITH
    pc       <- IF unit = "nextPC" THEN NextOf ELSE bus["pc"],
    executed <- IF Taken \/ unit = "done" THEN t ELSE t - 1,
    status   <- IF unit \in {"done", "late"} THEN unit
                ELSE IF ~Taken THEN "running"
                ELSE IF bus["aluop"] = DONE THEN "done"
                ELSE IF t + 1 = MAX_EXECUTE_TIME THEN "late" ELSE "running"

(* The units, run in the order of clock(), execute the program: whatever   *)
(* the buses held before, no instruction uses a value of another one.      *)
ImplementsISA == ISA!Spec
=============================================================================
