------------------------------- MODULE AsmWriter -------------------------------
(***************************************************************************)
(* From the program to its assembly file: doTargetSpecificTransformations  *)
(* (acse/target_transform.c) and writeAssembly (target_asm_print.c).  In   *)
(* between registers are allocated, which RegAlloc and SpillCode are       *)
(* about; here every temporary has a register of its own above the 32 of   *)
(* the machine, but for the operands of system calls.                      *)
(***************************************************************************)
EXTENDS Program, Passes

-----------------------------------------------------------------------------
(* Lowering.  What replaces an instruction takes over its label.           *)

Allocated(r) == IF r = REG_0 THEN REG_0 ELSE 32 + r
AllocatedIn(i) ==
  [i EXCEPT !.rd = Allocated(i.rd), !.rs1 = Allocated(i.rs1), !.rs2 = Allocated(i.rs2)]

REG_A0 == 10
REG_A7 == 17
SyscallID == [CALL_EXIT_0 |-> 10, CALL_PRINT_INT |-> 1, CALL_READ_INT |-> 5, CALL_PRINT_CHAR |-> 11]

fixSyscall(i) ==
  LET argument == IF i.opcode \in {"CALL_PRINT_INT", "CALL_PRINT_CHAR"}
                    THEN <<Gen("ADDI", REG_A0, i.rs1, 0, 0)>> ELSE <<>>
      result   == IF i.opcode = "CALL_READ_INT" THEN <<Gen("ADDI", i.rd, REG_A0, 0, 0)>> ELSE <<>>
  IN IF i.opcode \notin DOMAIN SyscallID THEN <<i>>
     ELSE <<Gen("LI", REG_A7, 0, 0, SyscallID[i.opcode])>> \o argument
            \o <<Gen("ECALL", 0, 0, 0, 0)>> \o result

Pass(Fix(_), instructions) ==
  FlattenSeq([k \in DOMAIN instructions |-> [Fix(instructions[k]) EXCEPT ![1].label = instructions[k].label]])

\* The temporary of an immediate lives for one instruction only.
doTargetSpecificTransformations(p) ==
  LET FixImmediate(i) == fixUnsupportedImmediate(i, Allocated(p.firstUnusedReg))
      allocated == [k \in DOMAIN p.instructions |-> AllocatedIn(p.instructions[k])]
  IN Pass(FixImmediate, Pass(fixSyscall, Pass(fixPseudoInstruction, allocated)))

-----------------------------------------------------------------------------
(* Writing.  Comments and layout are left out.                             *)

LabelName(p, l) == Name(getLabelName(p.labels[l]))
Before(p, l) == IF l = 0 THEN <<>> ELSE <<LabelName(p, l), Colon>>

opcodeToFormat(op) ==
  CASE op \in Operations -> "OP"
    [] isImmediateArgumentInstrOpcode(op) -> "OPIMM"
    [] op \in Conditions -> "BRANCH"
    [] op = "LW" -> "LOAD"
    [] op = "SW" -> "STORE"
    [] op = "J" -> "JUMP"
    [] op = "LI" -> "LI"
    [] op = "LA" -> "LA"
    [] op = "ECALL" -> "SYSTEM"

instructionToString(p, i) ==
  LET rd  == Register(i.rd)
      rs1 == Register(i.rs1)
      rs2 == Register(i.rs2)
      imm == Constant(i.imm)
      address  == LabelName(p, i.addressParam)
      indirect == <<imm, <<"(">>, rs1, <<")">>>>
      format   == opcodeToFormat(i.opcode)
      operands ==
        CASE format = "OP" -> <<rd, Comma, rs1, Comma, rs2>>
          [] format = "OPIMM" -> <<rd, Comma, rs1, Comma, imm>>
          [] format = "LOAD" -> <<rd, Comma>> \o indirect
          [] format = "STORE" -> <<rs2, Comma>> \o indirect
          [] format = "BRANCH" -> <<rs1, Comma, rs2, Comma, address>>
          [] format = "JUMP" -> <<address>>
          [] format = "LI" -> <<rd, Comma, imm>>
          [] format = "LA" -> <<rd, Comma, address>>
          [] format = "SYSTEM" -> <<>>
  IN <<Mnemonic(i.opcode)>> \o operands

translateForwardDeclarations(p) ==
  FlattenSeq([k \in DOMAIN p.labels |->
                LET l == p.labels[k]
                IN IF l.global /\ ~l.isAlias THEN <<<<<<".global">>, Name(getLabelName(l))>>>> ELSE <<>>])

printInstruction(p, i) == Before(p, i.label) \o instructionToString(p, i)
translateCodeSegment(p, instructions) ==
  <<<<<<".text">>>>>> \o [k \in DOMAIN instructions |-> printInstruction(p, instructions[k])]

printGlobalDeclaration(p, symbol) ==
  Before(p, symbol.label)
    \o <<<<".space">>, Constant(IF isArray(symbol) THEN WordBytes * symbol.arraySize ELSE WordBytes)>>
translateDataSegment(p) ==
  IF p.symbols = <<>> THEN <<>>
  ELSE <<<<<<".data">>>>>> \o [k \in DOMAIN p.symbols |-> printGlobalDeclaration(p, p.symbols[k])]

writeAssembly(p) ==
  translateForwardDeclarations(p) \o translateDataSegment(p)
    \o translateCodeSegment(p, doTargetSpecificTransformations(p))
===============================================================================
