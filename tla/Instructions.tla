------------------------------ MODULE Instructions ------------------------------
(***************************************************************************)
(* Instructions of the assembler (asrv32im/encode.c): the expansion of     *)
(* pseudo instructions and the fields of the others.  Immediates have      *)
(* ImmBits bits (12), the upper ones the rest of a word.                   *)
(***************************************************************************)
EXTENDS RiscV, Sequences

CONSTANTS
  ImmBits,   \* bits of the immediate of most instructions (12)
  ShiftBits  \* bits of the amount of a shift (5)

ASSUME ImmediateAssumption ==
  /\ ImmBits \in Nat /\ ShiftBits \in Nat
  /\ WordBits = 2 ^ ShiftBits
  \* bit 10 of an immediate tells srai from srli and is no bit of a shift amount
  /\ ShiftBits <= ImmBits - 2 /\ ImmBits <= WordBits

\* A word is its upper part and its lower one, an immediate a sign and the rest; the distances
\* of branches and jumps have a bit more.
ASSUME PowersAssumption ==
  /\ 2 ^ (WordBits - ImmBits) \in Nat \ {0} /\ 2 ^ (ImmBits - 1) \in Nat \ {0}
  /\ WordSize = 2 ^ ImmBits * 2 ^ (WordBits - ImmBits)
  /\ 2 ^ ImmBits = 2 * 2 ^ (ImmBits - 1) /\ 2 ^ (ImmBits + 1) = 2 * 2 ^ ImmBits
  /\ 2 ^ (WordBits - ImmBits + 1) = 2 * 2 ^ (WordBits - ImmBits)

HalfImm == 2 ^ (ImmBits - 1)
\* What the parser accepts as an immediate, and as the amount of a shift
Immediate == (-HalfImm)..(HalfImm - 1)
Amount    == 0..(WordBits - 1)

\* The operation of an instruction with an immediate, and the operand its field stands for
RegisterForm ==
  [ADDI |-> "ADD", SLLI |-> "SLL", SLTI |-> "SLT", SLTIU |-> "SLTU", XORI |-> "XOR", SRLI |-> "SRL",
   SRAI |-> "SRA", ORI |-> "OR", ANDI |-> "AND"]
ImmediateOperand(op, field) ==
  IF op \in {"SLLI", "SRLI", "SRAI"} THEN field % WordBits
  ELSE Wrap(IF field >= HalfImm THEN field - 2 ^ ImmBits ELSE field)

\* Fault: the low part is taken for an unsigned number.
HI_20_Floor(x) == (x \div 2 ^ ImmBits) % 2 ^ (WordBits - ImmBits)

HI_20(x) == (x \div 2 ^ ImmBits + Bit(x, ImmBits - 1)) % 2 ^ (WordBits - ImmBits)
LO_12(x) == x % 2 ^ ImmBits

-----------------------------------------------------------------------------
(* Expansion.  Fields that a format does not have are left as they are in  *)
(* the buffer; here they are 0 (or no label).                              *)

NoLabel == <<>>
Instr(opcode, dest, src1, src2) ==
  [opcode |-> opcode, dest |-> dest, src1 |-> src1, src2 |-> src2,
   immMode |-> "CONST", constant |-> 0, label |-> NoLabel]
WithConstant(i, c) == [i EXCEPT !.constant = c]
WithLabel(i, mode, label) == [i EXCEPT !.immMode = mode, !.label = label]

Swapped  == [BGT |-> "BLT", BLE |-> "BGE", BGTU |-> "BLTU", BLEU |-> "BGEU"]
WithZero == [BEQZ |-> "BEQ", BNEZ |-> "BNE", BGEZ |-> "BGE", BLTZ |-> "BLT"]
ZeroWith == [BLEZ |-> "BGE", BGTZ |-> "BLT"]
GlobalLoads  == [LB_G |-> "LB", LH_G |-> "LH", LW_G |-> "LW", LBU_G |-> "LBU", LHU_G |-> "LHU"]
GlobalStores == [SB_G |-> "SB", SH_G |-> "SH", SW_G |-> "SW"]

\* The address of a label, relative to the instruction that loads its high part
HighPart(i) == WithLabel(Instr("AUIPC", i.dest, 0, 0), "PCREL_HI20", i.label)
LowPart(i, opcode, dest, src2) ==
  WithLabel(Instr(opcode, dest, i.dest, src2), "PCREL_LO12_DIRECT", i.label)

encExpandPseudoInstruction(i) ==
  LET op == i.opcode
      Branch(opcode, src1, src2) == <<WithLabel(Instr(opcode, 0, src1, src2), i.immMode, i.label)>>
  IN CASE op = "NOP" -> <<Instr("ADDI", 0, 0, 0)>>
       [] op = "LI" /\ i.constant \in Immediate ->
            <<WithConstant(Instr("ADDI", i.dest, 0, 0), LO_12(i.constant))>>
       [] op = "LI" /\ i.constant \notin Immediate ->
            <<WithConstant(Instr("LUI", i.dest, 0, 0), HI_20(i.constant)),
              WithConstant(Instr("ADDI", i.dest, i.dest, 0), LO_12(i.constant))>>
       [] op = "LA" -> <<HighPart(i), LowPart(i, "ADDI", i.dest, 0)>>
       [] op \in DOMAIN GlobalLoads -> <<HighPart(i), LowPart(i, GlobalLoads[op], i.dest, 0)>>
       [] op \in DOMAIN GlobalStores -> <<HighPart(i), LowPart(i, GlobalStores[op], 0, i.src2)>>
       [] op \in DOMAIN Swapped -> Branch(Swapped[op], i.src2, i.src1)
       [] op \in DOMAIN WithZero -> Branch(WithZero[op], i.src1, 0)
       [] op \in DOMAIN ZeroWith -> Branch(ZeroWith[op], 0, i.src1)
       [] op = "J" -> <<WithLabel(Instr("JAL", 0, 0, 0), "LBL", i.label)>>
       [] OTHER -> <<i>>

-----------------------------------------------------------------------------
(* Fields *)

OPCODE ==
  [LOAD |-> 3, OPIMM |-> 19, AUIPC |-> 23, STORE |-> 35, OP |-> 51, LUI |-> 55,
   BRANCH |-> 99, JALR |-> 103, JAL |-> 111, SYSTEM |-> 115]

\* Of each instruction its format, opcode, funct3, and funct7 or the bits set in its immediate
SraBit == 2 ^ (ImmBits - 2)
opInstData ==
  LET R(f3, f7) == <<"R", OPCODE.OP, f3, f7>>
      I(f3)     == <<"I", OPCODE.OPIMM, f3, 0>>
      L(f3)     == <<"I", OPCODE.LOAD, f3, 0>>
      S(f3)     == <<"S", OPCODE.STORE, f3, 0>>
      B(f3)     == <<"B", OPCODE.BRANCH, f3, 0>>
  IN [ADD |-> R(0, 0), SUB |-> R(0, 32), SLL |-> R(1, 0), SLT |-> R(2, 0), SLTU |-> R(3, 0),
      XOR |-> R(4, 0), SRL |-> R(5, 0), SRA |-> R(5, 32), OR |-> R(6, 0), AND |-> R(7, 0),
      MUL |-> R(0, 1), MULH |-> R(1, 1), MULHSU |-> R(2, 1), MULHU |-> R(3, 1),
      DIV |-> R(4, 1), DIVU |-> R(5, 1), REM |-> R(6, 1), REMU |-> R(7, 1),
      ADDI |-> I(0), SLLI |-> I(1), SLTI |-> I(2), SLTIU |-> I(3), XORI |-> I(4), SRLI |-> I(5),
      SRAI |-> <<"I", OPCODE.OPIMM, 5, SraBit>>, ORI |-> I(6), ANDI |-> I(7),
      LB |-> L(0), LH |-> L(1), LW |-> L(2), LBU |-> L(4), LHU |-> L(5),
      SB |-> S(0), SH |-> S(1), SW |-> S(2),
      LUI |-> <<"U", OPCODE.LUI, 0, 0>>, AUIPC |-> <<"U", OPCODE.AUIPC, 0, 0>>,
      JAL |-> <<"J", OPCODE.JAL, 0, 0>>, JALR |-> <<"I", OPCODE.JALR, 0, 0>>,
      BEQ |-> B(0), BNE |-> B(1), BLT |-> B(4), BGE |-> B(5), BLTU |-> B(6), BGEU |-> B(7),
      ECALL |-> <<"I", OPCODE.SYSTEM, 0, 0>>, EBREAK |-> <<"I", OPCODE.SYSTEM, 0, 1>>]
===============================================================================
