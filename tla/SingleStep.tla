------------------------------ MODULE SingleStep ------------------------------
(***************************************************************************)
(* One cpuTick of the simulator on an instruction that only computes or    *)
(* branches, with any contents of the registers.                           *)
(***************************************************************************)
EXTENDS Cpu

CONSTANTS
  Words,         \* instruction words, as records of their fields
  RegisterFiles, \* contents of the registers
  PC             \* address of the instruction

VARIABLES cpuRegs, cpuPC, lastStatus, word

vars == <<cpuRegs, cpuPC, lastStatus, word>>

Init ==
  /\ word \in Words
  /\ cpuRegs \in RegisterFiles
  /\ cpuPC = PC
  /\ lastStatus = "ready"

\* v goes to rd and the program goes on at next; x0 is reset afterwards.
Puts(v, next) ==
  IF v = Illegal THEN lastStatus' = "ILL_INST_FAULT" /\ UNCHANGED <<cpuRegs, cpuPC>>
  ELSE /\ lastStatus' = "OK"
       /\ cpuRegs' = [[cpuRegs EXCEPT ![word.rd] = v] EXCEPT ![0] = 0]
       /\ cpuPC' = Wrap(next)

Branches(taken) ==
  IF taken = Illegal THEN lastStatus' = "ILL_INST_FAULT" /\ UNCHANGED <<cpuRegs, cpuPC>>
  ELSE /\ lastStatus' = "OK"
       /\ cpuPC' = Wrap(cpuPC + IF taken = 1 THEN word.imm ELSE 4)
       /\ UNCHANGED cpuRegs

cpuTick ==
  /\ lastStatus = "ready"
  /\ LET a == cpuRegs[word.rs1]
         b == cpuRegs[word.rs2]
     IN \/ /\ word.opcode = OPCODE.OP
           /\ Puts(cpuExecuteOP(word.funct7, word.funct3, a, b), cpuPC + 4)
        \/ /\ word.opcode = OPCODE.OPIMM
           /\ Puts(cpuExecuteOPIMM(word.funct3, word.imm, a), cpuPC + 4)
        \/ word.opcode = OPCODE.LUI /\ Puts(cpuExecuteLUI(word.imm), cpuPC + 4)
        \/ word.opcode = OPCODE.AUIPC /\ Puts(cpuExecuteAUIPC(cpuPC, word.imm), cpuPC + 4)
        \/ word.opcode = OPCODE.BRANCH /\ Branches(cpuExecuteBRANCH(word.funct3, a, b))
  /\ UNCHANGED word

\* Nothing is fetched after the instruction.
Finished == lastStatus # "ready" /\ UNCHANGED vars

Next == cpuTick \/ Finished
Spec == Init /\ [][Next]_vars

-----------------------------------------------------------------------------
\* Whether the word is what the assembler encodes op to, with some operands
EncodedBy(op) ==
  LET d == opInstData[op]
  IN /\ word.opcode = d[2]
     /\ d[1] # "U" => word.funct3 = d[3]
     /\ d[1] = "R" => word.funct7 = d[4]
     /\ op \in {"SLLI", "SRLI", "SRAI"} => word.imm - Low(word.imm, ShiftBits) = d[4]

\* What the RISC-V specification says of an instruction
Effect(op) ==
  LET a == cpuRegs[word.rs1]
      Computes(v) == /\ cpuRegs' = [r \in DOMAIN cpuRegs |->
                                      IF r = word.rd /\ r # 0 THEN v ELSE cpuRegs[r]]
                     /\ cpuPC' = Wrap(cpuPC + 4)
  IN \/ op \in Operations /\ Computes(Result(op, a, cpuRegs[word.rs2]))
     \/ op \in DOMAIN RegisterForm /\ Computes(Result(RegisterForm[op], a, ImmediateOperand(op, word.imm)))
     \/ op = "LUI" /\ Computes(Wrap(word.imm * 2 ^ ImmBits))
     \/ op = "AUIPC" /\ Computes(Wrap(cpuPC + word.imm * 2 ^ ImmBits))
     \/ /\ op \in Conditions
        /\ cpuPC' = Wrap(cpuPC + IF Holds(op, a, cpuRegs[word.rs2]) THEN word.imm ELSE 4)
        /\ UNCHANGED cpuRegs

\* Each instruction the assembler can encode does in the simulator what the RISC-V
\* specification says, whatever the operands (cpu.c:163-206, 247-397), and nothing
\* else does anything.
ComputesAsRiscV ==
  [][LET encoded == {op \in DOMAIN opInstData : EncodedBy(op)}
     IN IF encoded = {} THEN lastStatus' = "ILL_INST_FAULT" /\ UNCHANGED <<cpuRegs, cpuPC>>
        ELSE lastStatus' = "OK" /\ \A op \in encoded : Effect(op)]_vars
===============================================================================
