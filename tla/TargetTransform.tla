----------------------------- MODULE TargetTransform -----------------------------
(***************************************************************************)
(* What the lowering passes of acse (acse/target_transform.c) make of one  *)
(* instruction: pseudo-instructions, system calls and immediates that do   *)
(* not fit.  Signed arithmetic of immediates that overflows wraps around,  *)
(* as in the builds of the Makefile.                                       *)
(***************************************************************************)
EXTENDS Instructions, SequencesExt

REG_0 == 0
MaxInt == WordSize \div 2 - 1

Int32(n) == Signed(Wrap(n))

\* An instruction as the gen functions of codegen.c build it.  The label on it and the
\* label it names are positions in the list of labels of the program; 0 is none.
Gen(opcode, rd, rs1, rs2, imm) ==
  [opcode |-> opcode, rd |-> rd, rs1 |-> rs1, rs2 |-> rs2, imm |-> imm,
   label |-> 0, addressParam |-> 0]

-----------------------------------------------------------------------------
(* fixPseudoInstructions *)

\* rd = 1 when rd is zero, or when it is not
TestZero(i) ==
  IF i.opcode \in {"SEQ", "SEQI"} THEN Gen("SLTIU", i.rd, i.rd, 0, 1)
  ELSE Gen("SLTU", i.rd, REG_0, i.rd, 0)

\* The comparison with "less" that each other one is turned into
Less ==
  [SGE |-> "SLT", SGEU |-> "SLTU", SGEI |-> "SLTI", SGEIU |-> "SLTIU",
   SGT |-> "SLT", SGTU |-> "SLTU", SGTI |-> "SLTI", SGTIU |-> "SLTIU",
   SLE |-> "SLT", SLEU |-> "SLTU", SLEI |-> "SLTI", SLEIU |-> "SLTIU"]

\* Fault: the sources are not exchanged.
Unswapped(i) == [i EXCEPT !.opcode = Less[i.opcode]]
WithSwappedSources(i) == [i EXCEPT !.opcode = Less[i.opcode], !.rs1 = i.rs2, !.rs2 = i.rs1]

\* A comparison with a constant becomes one with the next number, unless there is none.
UpToNext(i) == [i EXCEPT !.opcode = Less[i.opcode], !.imm = Int32(@ + 1)]
IsLast(i) ==
  \/ i.opcode \in {"SGTI", "SLEI"} /\ i.imm = MaxInt
  \/ i.opcode \in {"SGTIU", "SLEIU"} /\ Wrap(i.imm) = WordSize - 1

fixPseudoInstruction(i) ==
  LET op == i.opcode
      Negated(less) == <<less, Gen("XORI", i.rd, i.rd, 0, 1)>>
  IN CASE op = "SUBI" -> <<[i EXCEPT !.opcode = "ADDI", !.imm = Int32(-@)]>>
       [] op \in {"SEQ", "SNE"} -> <<Gen("SUB", i.rd, i.rs1, i.rs2, 0), TestZero(i)>>
       [] op \in {"SEQI", "SNEI"} -> <<Gen("ADDI", i.rd, i.rs1, 0, Int32(-i.imm)), TestZero(i)>>
       [] op \in {"SGE", "SGEU", "SGEI", "SGEIU"} -> Negated([i EXCEPT !.opcode = Less[@]])
       [] op \in {"SGTI", "SGTIU"} -> IF IsLast(i) THEN <<Gen("LI", i.rd, 0, 0, 0)>> ELSE Negated(UpToNext(i))
       [] op \in {"SLEI", "SLEIU"} -> IF IsLast(i) THEN <<Gen("LI", i.rd, 0, 0, 1)>> ELSE <<UpToNext(i)>>
       [] op \in {"SLE", "SLEU"} -> Negated(WithSwappedSources(i))
       [] op \in {"SGT", "SGTU"} -> <<WithSwappedSources(i)>>
       [] OTHER -> <<i>>

-----------------------------------------------------------------------------
(* fixUnsupportedImmediates *)

\* Fault: off by one.
IsInt12Closed(immediate) == immediate <= HalfImm /\ immediate >= -HalfImm
isInt12(immediate) == immediate < HalfImm /\ immediate >= -HalfImm

getMatchingNonImmediateOpcode ==
  [ADDI |-> "ADD", SUBI |-> "SUB", ANDI |-> "AND", ORI |-> "OR", XORI |-> "XOR", MULI |-> "MUL",
   DIVI |-> "DIV", REMI |-> "REM", SLLI |-> "SLL", SRLI |-> "SRL", SRAI |-> "SRA", SEQI |-> "SEQ",
   SNEI |-> "SNE", SLTI |-> "SLT", SLTIU |-> "SLTU", SGEI |-> "SGE", SGEIU |-> "SGEU",
   SGTI |-> "SGT", SGTIU |-> "SGTU", SLEI |-> "SLE", SLEIU |-> "SLEU"]
isImmediateArgumentInstrOpcode(op) == op \in DOMAIN getMatchingNonImmediateOpcode

fixUnsupportedImmediate(i, reg) ==
  LET loads == i.opcode = "ADDI" /\ i.rs1 = REG_0
      inRegister == i.opcode \in {"MULI", "DIVI", "REMI"} \/ ~isInt12(i.imm)
  IN CASE ~isImmediateArgumentInstrOpcode(i.opcode) -> <<i>>
       [] loads -> IF isInt12(i.imm) THEN <<i>> ELSE <<Gen("LI", i.rd, 0, 0, i.imm)>>
       [] inRegister /\ isImmediateArgumentInstrOpcode(i.opcode) /\ ~loads ->
            <<Gen("LI", reg, 0, 0, i.imm),
              Gen(getMatchingNonImmediateOpcode[i.opcode], i.rd, i.rs1, reg, 0)>>
       [] i.opcode \in {"SLLI", "SRLI", "SRAI"} /\ ~inRegister -> <<[i EXCEPT !.imm = @ % WordBits]>>
       [] OTHER -> <<i>>
===============================================================================
