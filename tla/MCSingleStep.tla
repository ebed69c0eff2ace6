----------------------------- MODULE MCSingleStep -----------------------------
(***************************************************************************)
(* Words of eight bits with immediates of five.  The operands are the      *)
(* numbers next to zero, to the highest and lowest signed numbers, and to  *)
(* the width of a word.                                                    *)
(***************************************************************************)
EXTENDS SingleStep

CONSTANT NegativeSltiu  \* whether sltiu may have a negative immediate

MCPC == 244
Numbers == {0, 1, 2, 7, 8, 85, 127, 128, 129, 254, 255}
Pairs   == {[r \in 0..2 |-> <<0, a, b>>[r + 1]] : a \in Numbers, b \in Numbers}

W(opcode, funct3, funct7, rd, rs2, imm) ==
  [opcode |-> opcode, funct3 |-> funct3, funct7 |-> funct7, rd |-> rd, rs1 |-> 1, rs2 |-> rs2, imm |-> imm]

Registers3  == {W(OPCODE.OP, f3, f7, rd, 2, 0) : f3 \in 0..7, f7 \in {0, 1, 2, 32}, rd \in {0, 1, 2}}
Immediates  == {W(OPCODE.OPIMM, f3, 0, rd, 0, imm) : f3 \in 0..7, rd \in {0, 1}, imm \in 0..31}
Conditional == {W(OPCODE.BRANCH, f3, 0, 0, 2, imm) : f3 \in 0..7, imm \in {-32, -2, 8, 30}}
Uppers      == {W(op, 0, 0, rd, 0, imm) : op \in {OPCODE.LUI, OPCODE.AUIPC}, rd \in {0, 2}, imm \in 0..7}

MCWords ==
  {w \in Registers3 \union Immediates \union Conditional \union Uppers :
     w.opcode = OPCODE.OPIMM /\ w.funct3 = 3 /\ w.imm >= HalfImm => NegativeSltiu}
===============================================================================
